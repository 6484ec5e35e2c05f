---------------------------- MODULE LimiterProofs ----------------------------
(***************************************************************************)
(* Proofs about the limiters, which all keep the ages of past events, about   *)
(* pure functions: the limits that remediation puts on its targets, the       *)
(* checks of a configuration and of a command and the reports of health, and  *)
(* about what is shown to the model and to its caller.  Each service is an    *)
(* instance under its own name; its constants and variables keep their names, *)
(* with the name of the instance before those that two services use.  What is *)
(* proved of a service holds for all values of its constants and says nothing *)
(* of the other services.                                                    *)
(***************************************************************************)
EXTENDS Windows, WellFoundedInduction, Integers, Sequences, FiniteSets, FiniteSetTheorems, TLAPS

CONSTANTS
  LimitsExecution, MaxPerWindow, Cooldown, LimitsWindow, MaxChain, ChainBreak,
  WarnAt, Requested, MaxPerHour, RemediationWindow, MaxTargets, MaxRecords,
  RedisLimitRequest, MaxRequests, RedisLimitWindow, Delay, Skew, RedisLimitMaxClock,
  Remote, MaxBurst, HttpWindow, MaxTracked, Address, Name, LoginsLogin, Limit,
  IpLimit, LoginsWindow, NoLogin, Rule, MaxEntries, MaxGroups, TriageMaxEvents,
  AnswersSource, Token, MaxTokens

VARIABLES
  records, idle, chain, warned, limitsRunning, omen, type, times, remediationFile,
  remediationStage, remediationLeft, changed, refused, unanswered, counted,
  remediationLossy, redisLimitNow, redisLimitAsking, entries, touched,
  redisLimitAdmitted, tracked, window, swept, httpAdmitted, excused, failures,
  ipFailures, verifying, guessed, tried, firing, triageHistory, events, mode, phase,
  collected, provider, text, lines, card

Limits == INSTANCE ActionRateLimit WITH
  Execution <- LimitsExecution, Window <- LimitsWindow, running <- limitsRunning
Remediation == INSTANCE AutonomousRemediation WITH
  Window <- RemediationWindow, file <- remediationFile, stage <- remediationStage,
  left <- remediationLeft, lossy <- remediationLossy
RedisLimit == INSTANCE RedisRateLimit WITH
  Request <- RedisLimitRequest, Window <- RedisLimitWindow,
  MaxClock <- RedisLimitMaxClock, now <- redisLimitNow, asking <- redisLimitAsking,
  admitted <- redisLimitAdmitted
Http == INSTANCE HttpRateLimit WITH
  Window <- HttpWindow, admitted <- httpAdmitted
Logins == INSTANCE LoginGate WITH
  Login <- LoginsLogin, Window <- LoginsWindow
Targets == INSTANCE RemediationTargets
Checks == INSTANCE ConfigChecks
Health == INSTANCE ServiceHealth
Triage == INSTANCE TriageInput WITH
  MaxEvents <- TriageMaxEvents, history <- triageHistory
Answers == INSTANCE TriageAnswer WITH
  Source <- AnswersSource
Commands == INSTANCE CommandPolicy
Plans == INSTANCE CommandExecution

-----------------------------------------------------------------------------
(* Induction.  The induction theorems of the library take an operator; for a  *)
(* set in its place, well-founded relations give induction over the numbers    *)
(* and from it induction over sequences.                                     *)

Below == {pair \in Nat \X Nat : pair[1] < pair[2]}

(* A nonempty set of numbers has a least one.                                 *)
LEMMA LeastNumber ==
  ASSUME NEW T \in SUBSET Nat, T # {}
  PROVE  \E x \in T : \A y \in T : x <= y
<1>1. IsWellFoundedOn(Below, Nat)
  BY NatLessThanWellFounded DEF OpToRel, Below
<1>2. PICK x \in T : \A y \in T : ~(<<y, x>> \in Below)
  BY <1>1, WFMin
<1>3. ASSUME NEW y \in T PROVE x <= y
  <2>1. x \in Nat /\ y \in Nat /\ ~(<<y, x>> \in Below)
    BY <1>2
  <2> QED BY <2>1 DEF Below
<1> QED BY <1>3

(* A set that has 0 and the successor of each number in it has all numbers.    *)
LEMMA SetInduction ==
  ASSUME NEW T, 0 \in T, \A n \in Nat : n \in T => n + 1 \in T
  PROVE  \A n \in Nat : n \in T
<1> SUFFICES ASSUME NEW k \in Nat, k \notin T PROVE FALSE
  OBVIOUS
<1>1. PICK x \in {n \in Nat : n \notin T} : \A y \in {n \in Nat : n \notin T} : x <= y
  BY LeastNumber
<1>2. x # 0
  OBVIOUS
<1>3. x - 1 \in Nat /\ x - 1 \in T
  BY <1>1, <1>2
<1> QED BY <1>3, <1>1

(* A set that has the empty sequence and, with a sequence, all that are one    *)
(* element longer, has all sequences.                                        *)
LEMMA SequenceInduction ==
  ASSUME NEW E, NEW T, <<>> \in T,
         \A s \in Seq(E), e \in E : s \in T => Append(s, e) \in T
  PROVE  \A s \in Seq(E) : s \in T
<1> DEFINE Good == {n \in Nat : \A s \in Seq(E) : Len(s) = n => s \in T}
<1>1. 0 \in Good
  <2>1. \A s \in Seq(E) : Len(s) = 0 => s = <<>>
    OBVIOUS
  <2> QED BY <2>1
<1>2. ASSUME NEW n \in Nat, n \in Good PROVE n + 1 \in Good
  <2> SUFFICES ASSUME NEW s \in Seq(E), Len(s) = n + 1 PROVE s \in T
    OBVIOUS
  <2> DEFINE front == [i \in 1..n |-> s[i]]
  <2>1. front \in Seq(E) /\ Len(front) = n
    OBVIOUS
  <2>2. s[n + 1] \in E /\ s = Append(front, s[n + 1])
    BY <2>1
  <2>3. front \in T
    BY <2>1, <1>2
  <2> QED BY <2>1, <2>2, <2>3
<1>3. \A n \in Nat : n \in Good
  <2> HIDE DEF Good
  <2> QED BY <1>1, <1>2, SetInduction
<1> QED BY <1>3

(* The elements of two sequences, one behind the other.                      *)
LEMMA Concatenated ==
  ASSUME NEW S, NEW s \in Seq(S), NEW t \in Seq(S)
  PROVE  /\ s \o t \in Seq(S) /\ Len(s \o t) = Len(s) + Len(t)
         /\ \A i \in DOMAIN s : (s \o t)[i] = s[i]
         /\ \A i \in DOMAIN t : (s \o t)[i + Len(s)] = t[i]
<1>1. s \o t \in Seq(S) /\ Len(s \o t) = Len(s) + Len(t) /\ Len(s) \in Nat /\ Len(t) \in Nat
  OBVIOUS
<1>2. \A i \in DOMAIN s : (s \o t)[i] = s[i]
  OBVIOUS
<1>3. ASSUME NEW i \in DOMAIN t PROVE (s \o t)[i + Len(s)] = t[i]
  <2>1. i + Len(s) \in 1..Len(s) + Len(t) /\ i + Len(s) > Len(s) /\ (i + Len(s)) - Len(s) = i
    BY <1>1
  <2> QED BY <2>1
<1> QED BY <1>1, <1>2, <1>3

-----------------------------------------------------------------------------
(* The elements that are kept                                                *)

\* What Kept has collected of s after n elements, as a recursive function.
Collects(f, s, S, n) ==
  /\ f = [i \in 0..n |-> f[i]]
  /\ f[0] = <<>>
  /\ \A i \in 1..n : f[i] = IF s[i] \in S THEN Append(f[i - 1], s[i]) ELSE f[i - 1]

(* The recursion of Kept has a solution ...                                   *)
LEMMA CollectsExists ==
  ASSUME NEW E, NEW s \in Seq(E), NEW S
  PROVE  \E f : Collects(f, s, S, Len(s))
<1> DEFINE Good == {n \in Nat : n <= Len(s) => \E f : Collects(f, s, S, n)}
<1>1. 0 \in Good
  <2> DEFINE f == [i \in 0..0 |-> <<>>]
  <2>1. Collects(f, s, S, 0)
    BY DEF Collects
  <2> QED BY <2>1
<1>2. ASSUME NEW n \in Nat, n \in Good PROVE n + 1 \in Good
  <2> SUFFICES ASSUME n + 1 <= Len(s) PROVE \E f : Collects(f, s, S, n + 1)
    OBVIOUS
  <2>1. PICK f : Collects(f, s, S, n)
    BY <1>2
  <2> DEFINE last == IF s[n + 1] \in S THEN Append(f[n], s[n + 1]) ELSE f[n]
             g == [i \in 0..n + 1 |-> IF i = n + 1 THEN last ELSE f[i]]
  <2>2. \A i \in 0..n : g[i] = f[i]
    OBVIOUS
  <2>3. g[n + 1] = last
    OBVIOUS
  <2>4. \A i \in 1..n + 1 :
          g[i] = IF s[i] \in S THEN Append(g[i - 1], s[i]) ELSE g[i - 1]
    BY <2>1, <2>2, <2>3 DEF Collects
  <2>5. g = [i \in 0..n + 1 |-> g[i]] /\ g[0] = <<>>
    BY <2>1 DEF Collects
  <2> QED BY <2>4, <2>5 DEF Collects
<1>3. \A n \in Nat : n \in Good
  <2> HIDE DEF Good
  <2> QED BY <1>1, <1>2, SetInduction
<1> QED BY <1>3

(* ... and at most one, whatever follows in the sequence.                      *)
LEMMA CollectsUnique ==
  ASSUME NEW s, NEW t, NEW S, NEW m \in Nat, NEW n \in Nat, n <= m, NEW f, NEW g,
         \A i \in 1..n : s[i] = t[i],
         Collects(f, s, S, n), Collects(g, t, S, m)
  PROVE  f[n] = g[n]
<1> DEFINE Good == {i \in Nat : i <= n => f[i] = g[i]}
<1>1. 0 \in Good
  BY DEF Collects
<1>2. ASSUME NEW i \in Nat, i \in Good PROVE i + 1 \in Good
  <2> SUFFICES ASSUME i + 1 <= n PROVE f[i + 1] = g[i + 1]
    OBVIOUS
  <2>1. i + 1 \in 1..n /\ i + 1 \in 1..m /\ (i + 1) - 1 = i /\ f[i] = g[i]
    BY <1>2
  <2>2. f[i + 1] = IF s[i + 1] \in S THEN Append(f[i], s[i + 1]) ELSE f[i]
    BY <2>1 DEF Collects
  <2>3. g[i + 1] = IF t[i + 1] \in S THEN Append(g[i], t[i + 1]) ELSE g[i]
    BY <2>1 DEF Collects
  <2> QED BY <2>1, <2>2, <2>3
<1>3. \A i \in Nat : i \in Good
  <2> HIDE DEF Good
  <2> QED BY <1>1, <1>2, SetInduction
<1> QED BY <1>3

LEMMA KeptCollects ==
  ASSUME NEW E, NEW s \in Seq(E), NEW S
  PROVE  \E f : Collects(f, s, S, Len(s)) /\ Kept(s, S) = f[Len(s)]
<1> DEFINE n == Len(s)
           Step(f) == [i \in 0..n |-> IF i = 0 THEN <<>>
                                      ELSE IF s[i] \in S THEN Append(f[i - 1], s[i]) ELSE f[i - 1]]
           kept == CHOOSE f : f = Step(f)
<1>1. n \in Nat
  OBVIOUS
<1>2. PICK f : Collects(f, s, S, n)
  BY CollectsExists
<1>3. f = Step(f)
  <2>1. ASSUME NEW i \in 0..n PROVE f[i] = Step(f)[i]
    <3>1. CASE i = 0
      BY <1>2, <3>1 DEF Collects
    <3>2. CASE i # 0
      <4>1. i \in 1..n
        BY <1>1, <3>2
      <4>2. f[i] = IF s[i] \in S THEN Append(f[i - 1], s[i]) ELSE f[i - 1]
        BY <1>2, <4>1 DEF Collects
      <4> QED BY <3>2, <4>2
    <3> QED BY <3>1, <3>2
  <2>2. f = [i \in 0..n |-> f[i]]
    BY <1>2 DEF Collects
  <2>3. [i \in 0..n |-> f[i]] = Step(f)
    BY <2>1
  <2> QED BY <2>2, <2>3
<1>4. kept = Step(kept)
  <2> HIDE DEF Step
  <2> QED BY <1>3
<1>5. Collects(kept, s, S, n)
  <2> HIDE DEF kept
  <2>1. \A i \in 0..n : kept[i] = IF i = 0 THEN <<>>
                                  ELSE IF s[i] \in S THEN Append(kept[i - 1], s[i]) ELSE kept[i - 1]
    BY <1>4
  <2>2. kept = [i \in 0..n |-> kept[i]]
    BY <1>4
  <2> QED BY <1>1, <2>1, <2>2 DEF Collects
<1>6. Kept(s, S) = kept[n]
  BY DEF Kept
<1> QED BY <1>5, <1>6

(* What is kept of a longer sequence.                                         *)
LEMMA KeptEmpty == ASSUME NEW S PROVE Kept(<<>>, S) = <<>>
<1>1. <<>> \in Seq({}) /\ Len(<<>>) = 0
  OBVIOUS
<1>2. PICK f : Collects(f, <<>>, S, 0) /\ Kept(<<>>, S) = f[0]
  BY <1>1, KeptCollects
<1> QED BY <1>2 DEF Collects

LEMMA KeptAppend ==
  ASSUME NEW E, NEW s \in Seq(E), NEW e \in E, NEW S
  PROVE  Kept(Append(s, e), S) = IF e \in S THEN Append(Kept(s, S), e) ELSE Kept(s, S)
<1> DEFINE t == Append(s, e)  n == Len(s)
<1>1. n \in Nat /\ t \in Seq(E) /\ Len(t) = n + 1 /\ t[n + 1] = e /\ \A i \in 1..n : s[i] = t[i]
  OBVIOUS
<1> HIDE DEF t
<1>2. PICK f : Collects(f, s, S, n) /\ Kept(s, S) = f[n]
  BY KeptCollects
<1>3. PICK g : Collects(g, t, S, n + 1) /\ Kept(t, S) = g[n + 1]
  BY <1>1, KeptCollects
<1>4. f[n] = g[n]
  BY <1>1, <1>2, <1>3, CollectsUnique
<1>5. g[n + 1] = IF e \in S THEN Append(g[n], e) ELSE g[n]
  <2>1. n + 1 \in 1..n + 1 /\ (n + 1) - 1 = n
    BY <1>1
  <2>2. g[n + 1] = IF t[n + 1] \in S THEN Append(g[(n + 1) - 1], t[n + 1]) ELSE g[(n + 1) - 1]
    BY <2>1, <1>3 DEF Collects
  <2> QED BY <1>1, <2>1, <2>2
<1> QED BY <1>2, <1>3, <1>4, <1>5 DEF t

(* What is kept comes from the sequence and from the set, and is not longer.   *)
LEMMA KeptType ==
  ASSUME NEW E, NEW S
  PROVE  \A s \in Seq(E) : Kept(s, S) \in Seq(E \cap S) /\ Len(Kept(s, S)) <= Len(s)
<1> DEFINE Good == {s \in Seq(E) : Kept(s, S) \in Seq(E \cap S) /\ Len(Kept(s, S)) <= Len(s)}
<1>1. <<>> \in Good
  <2>1. <<>> \in Seq(E) /\ <<>> \in Seq(E \cap S) /\ Len(<<>>) <= Len(<<>>)
    OBVIOUS
  <2> QED BY <2>1, KeptEmpty
<1>2. ASSUME NEW s \in Seq(E), NEW e \in E, s \in Good PROVE Append(s, e) \in Good
  <2>1. Kept(Append(s, e), S) = IF e \in S THEN Append(Kept(s, S), e) ELSE Kept(s, S)
    BY KeptAppend
  <2>2. Append(s, e) \in Seq(E) /\ Len(Append(s, e)) = Len(s) + 1
    OBVIOUS
  <2>3. CASE e \in S
    <3>1. Append(Kept(s, S), e) \in Seq(E \cap S) /\ Len(Append(Kept(s, S), e)) = Len(Kept(s, S)) + 1
      BY <1>2, <2>3
    <3> QED BY <1>2, <2>1, <2>2, <2>3, <3>1
  <2>4. CASE e \notin S
    BY <1>2, <2>1, <2>2, <2>4
  <2> QED BY <2>3, <2>4
<1>3. \A s \in Seq(E) : s \in Good
  <2> HIDE DEF Good
  <2> QED BY <1>1, <1>2, SequenceInduction
<1> QED BY <1>3

(* Keeping what is already kept changes nothing.                              *)
LEMMA KeptAll ==
  ASSUME NEW S
  PROVE  \A s \in Seq(S) : Kept(s, S) = s
<1> DEFINE Good == {s \in Seq(S) : Kept(s, S) = s}
<1>1. <<>> \in Good
  BY KeptEmpty
<1>2. ASSUME NEW s \in Seq(S), NEW e \in S, s \in Good PROVE Append(s, e) \in Good
  BY <1>2, KeptAppend
<1>3. \A s \in Seq(S) : s \in Good
  <2> HIDE DEF Good
  <2> QED BY <1>1, <1>2, SequenceInduction
<1> QED BY <1>3

(* Nothing is kept of a sequence that has nothing of the set.                  *)
LEMMA KeptNone ==
  ASSUME NEW E, NEW S, E \cap S = {}
  PROVE  \A s \in Seq(E) : Kept(s, S) = <<>>
<1>1. ASSUME NEW s \in Seq(E) PROVE Kept(s, S) = <<>>
  <2>1. Kept(s, S) \in Seq({})
    BY KeptType
  <2> QED BY <2>1
<1> QED BY <1>1

(* A smaller set can be kept in two steps.                                    *)
LEMMA KeptInner ==
  ASSUME NEW E, NEW R, NEW S \in SUBSET R
  PROVE  \A s \in Seq(E) : Kept(Kept(s, R), S) = Kept(s, S)
<1> DEFINE Good == {s \in Seq(E) : Kept(Kept(s, R), S) = Kept(s, S)}
<1>1. <<>> \in Good
  BY KeptEmpty
<1>2. ASSUME NEW s \in Seq(E), NEW e \in E, s \in Good PROVE Append(s, e) \in Good
  <2>1. Kept(Append(s, e), R) = IF e \in R THEN Append(Kept(s, R), e) ELSE Kept(s, R)
    BY KeptAppend
  <2>2. Kept(Append(s, e), S) = IF e \in S THEN Append(Kept(s, S), e) ELSE Kept(s, S)
    BY KeptAppend
  <2>3. Kept(s, R) \in Seq(E)
    <3>1. Kept(s, R) \in Seq(E \cap R)
      BY KeptType
    <3> QED BY <3>1
  <2>4. Kept(Append(Kept(s, R), e), S) =
          IF e \in S THEN Append(Kept(Kept(s, R), S), e) ELSE Kept(Kept(s, R), S)
    BY <2>3, KeptAppend
  <2>5. Kept(Kept(s, R), S) = Kept(s, S)
    BY <1>2
  <2>6. Kept(Kept(Append(s, e), R), S) = Kept(Append(s, e), S)
    <3>1. CASE e \in S
      BY <2>1, <2>2, <2>4, <2>5, <3>1
    <3>2. CASE e \notin S /\ e \in R
      BY <2>1, <2>2, <2>4, <2>5, <3>2
    <3>3. CASE e \notin R
      BY <2>1, <2>2, <2>5, <3>3
    <3> QED BY <3>1, <3>2, <3>3
  <2>7. Append(s, e) \in Seq(E)
    OBVIOUS
  <2> QED BY <2>6, <2>7
<1>3. \A s \in Seq(E) : s \in Good
  <2> HIDE DEF Good
  <2> QED BY <1>1, <1>2, SequenceInduction
<1> QED BY <1>3

(* What is kept is some element of the sequence.                              *)
LEMMA KeptFrom ==
  ASSUME NEW E, NEW s \in Seq(E), NEW S, NEW i \in DOMAIN Kept(s, S)
  PROVE  \E j \in DOMAIN s : Kept(s, S)[i] = s[j]
<1> DEFINE F == {s[j] : j \in DOMAIN s}
<1>1. s \in Seq(F)
  OBVIOUS
<1>2. Kept(s, S) \in Seq(F \cap S)
  BY <1>1, KeptType
<1>3. Kept(s, S)[i] \in F
  BY <1>2
<1> QED BY <1>3

-----------------------------------------------------------------------------
(* Ages                                                                      *)

(* The number of ages inside a window.                                        *)
LEMMA InsideType ==
  ASSUME NEW E, NEW s \in Seq(E), NEW w
  PROVE  /\ Inside(s, w) \in Seq(E) /\ Inside(s, w) \in Seq(0..w - 1)
         /\ Len(Inside(s, w)) <= Len(s) /\ Len(Inside(s, w)) \in Nat
<1>1. Inside(s, w) \in Seq(E \cap (0..w - 1)) /\ Len(Inside(s, w)) <= Len(s)
  BY KeptType DEF Inside
<1> DEFINE t == Inside(s, w)  R == 0..w - 1
<1>2. t \in Seq(E \cap R) /\ Len(t) <= Len(s)
  BY <1>1
<1> HIDE DEF t, R
<1>3. t \in Seq(E) /\ t \in Seq(R) /\ Len(t) <= Len(s) /\ Len(t) \in Nat
  BY <1>2
<1> QED BY <1>3 DEF t, R

LEMMA InsideAppend ==
  ASSUME NEW s \in Seq(Nat), NEW w \in Nat
  PROVE  Inside(Append(s, 0), w) = IF w > 0 THEN Append(Inside(s, w), 0) ELSE Inside(s, w)
<1> DEFINE R == 0..w - 1
<1>1. 0 \in R <=> w > 0
  OBVIOUS
<1> HIDE DEF R
<1>2. Kept(Append(s, 0), R) = IF 0 \in R THEN Append(Kept(s, R), 0) ELSE Kept(s, R)
  BY KeptAppend
<1> QED BY <1>1, <1>2 DEF Inside, R

(* Pruning twice is pruning once, and pruning to a longer window first changes *)
(* nothing in a shorter one.                                                 *)
LEMMA InsideInside ==
  ASSUME NEW s \in Seq(Nat), NEW v \in Int, NEW w \in Int, v <= w
  PROVE  Inside(Inside(s, w), v) = Inside(s, v)
<1>1. 0..v - 1 \subseteq 0..w - 1
  OBVIOUS
<1> QED BY <1>1, KeptInner DEF Inside

LEMMA InsideGrows ==
  ASSUME NEW s \in Seq(Nat), NEW v \in Int, NEW w \in Int, v <= w
  PROVE  Len(Inside(s, v)) <= Len(Inside(s, w))
<1>1. Inside(s, v) = Inside(Inside(s, w), v)
  BY InsideInside
<1>2. Inside(s, w) \in Seq(Nat)
  BY InsideType
<1> QED BY <1>1, <1>2, InsideType

LEMMA InsideAll ==
  ASSUME NEW w \in Nat, NEW s \in Seq(0..w - 1)
  PROVE  Inside(s, w) = s
  BY KeptAll DEF Inside

LEMMA InsideNone ==
  ASSUME NEW s \in Seq(Nat), NEW w \in Int, w <= 0
  PROVE  Inside(s, w) = <<>>
<1>1. 0..w - 1 = {}
  OBVIOUS
<1>2. Nat \cap (0..w - 1) = {}
  BY <1>1
<1> QED BY <1>2, KeptNone DEF Inside

LEMMA AgedType ==
  ASSUME NEW w \in Nat, NEW s \in Seq(Nat)
  PROVE  /\ Aged(s, w) \in Seq(Nat) /\ Len(Aged(s, w)) = Len(s)
         /\ \A i \in DOMAIN s : Aged(s, w)[i] = Older(s[i], w) /\ Older(s[i], w) >= s[i]
  BY DEF Aged, Older

LEMMA AgedBounded ==
  ASSUME NEW w \in Nat, NEW s \in Seq(0..w)
  PROVE  Aged(s, w) \in Seq(0..w) /\ Len(Aged(s, w)) = Len(s)
<1>1. Len(s) \in Nat /\ DOMAIN s = 1..Len(s) /\ \A i \in 1..Len(s) : s[i] \in 0..w
  OBVIOUS
<1>2. \A a \in 0..w : Older(a, w) \in 0..w
  BY DEF Older
<1>3. Aged(s, w) \in [1..Len(s) -> 0..w]
  BY <1>1, <1>2 DEF Aged
<1> QED BY <1>1, <1>3

(* One tick later the ages inside a window are those that were inside a window *)
(* one shorter.                                                              *)
LEMMA AgedInside ==
  ASSUME NEW w \in Nat, NEW v \in Nat, v <= w
  PROVE  \A s \in Seq(Nat) : Inside(Aged(s, w), v) = Aged(Inside(s, v - 1), w)
<1> DEFINE Good == {s \in Seq(Nat) : Inside(Aged(s, w), v) = Aged(Inside(s, v - 1), w)}
<1>1. <<>> \in Good
  BY KeptEmpty DEF Aged, Inside
<1>2. ASSUME NEW s \in Seq(Nat), NEW e \in Nat, s \in Good PROVE Append(s, e) \in Good
  <2>1. Aged(Append(s, e), w) = Append(Aged(s, w), Older(e, w))
    BY DEF Aged, Older
  <2>2. Aged(s, w) \in Seq(Nat) /\ Older(e, w) \in Nat
    BY DEF Aged, Older
  <2> DEFINE R == 0..v - 1  S == 0..v - 1 - 1  a == Aged(s, w)  o == Older(e, w)
  <2>3. Kept(Append(a, o), R) = IF o \in R THEN Append(Kept(a, R), o) ELSE Kept(a, R)
    <3> HIDE DEF R, a, o
    <3>1. a \in Seq(Nat) /\ o \in Nat
      BY <2>2 DEF a, o
    <3> QED BY <3>1, KeptAppend
  <2>4. Kept(Append(s, e), S) = IF e \in S THEN Append(Kept(s, S), e) ELSE Kept(s, S)
    <3> HIDE DEF S
    <3> QED BY KeptAppend
  <2>5. Older(e, w) \in 0..v - 1 <=> e \in 0..v - 1 - 1
    BY DEF Older
  <2>6. Inside(s, v - 1) \in Seq(Nat)
    BY InsideType
  <2>7. Aged(Append(Inside(s, v - 1), e), w) = Append(Aged(Inside(s, v - 1), w), o)
    BY <2>6 DEF Aged, Older
  <2>8. Kept(a, R) = Aged(Kept(s, S), w)
    BY <1>2 DEF Inside
  <2>9. Kept(Append(a, o), R) = Aged(Kept(Append(s, e), S), w)
    <3>1. CASE e \in S
      BY <2>3, <2>4, <2>5, <2>7, <2>8, <3>1 DEF Inside
    <3>2. CASE e \notin S
      BY <2>3, <2>4, <2>5, <2>8, <3>2 DEF Inside
    <3> QED BY <3>1, <3>2
  <2>10. Append(s, e) \in Seq(Nat)
    OBVIOUS
  <2> QED BY <2>1, <2>9, <2>10 DEF Inside
<1>3. \A s \in Seq(Nat) : s \in Good
  <2> HIDE DEF Good
  <2> QED BY <1>1, <1>2, SequenceInduction
<1> QED BY <1>3

LEMMA AgedInsideLen ==
  ASSUME NEW w \in Nat, NEW v \in Nat, v <= w, NEW s \in Seq(Nat)
  PROVE  Len(Inside(Aged(s, w), v)) = Len(Inside(s, v - 1))
<1>1. Inside(s, v - 1) \in Seq(Nat)
  BY InsideType
<1>2. Len(Aged(Inside(s, v - 1), w)) = Len(Inside(s, v - 1))
  BY <1>1, AgedType
<1> QED BY <1>2, AgedInside

(* What was pruned before the tick is outside after it.                       *)
LEMMA AgedPruned ==
  ASSUME NEW w \in Nat, NEW s \in Seq(Nat)
  PROVE  Inside(Aged(Inside(s, w), w), w) = Inside(Aged(s, w), w)
<1>1. Inside(s, w) \in Seq(Nat)
  BY InsideType
<1>2. Inside(Aged(Inside(s, w), w), w) = Aged(Inside(Inside(s, w), w - 1), w)
  BY <1>1, AgedInside
<1>3. Inside(Inside(s, w), w - 1) = Inside(s, w - 1)
  BY InsideInside
<1> QED BY <1>2, <1>3, AgedInside

(* A tick brings no age into a window.                                        *)
LEMMA AgedShrinks ==
  ASSUME NEW w \in Nat, NEW s \in Seq(Nat)
  PROVE  Len(Inside(Aged(s, w), w)) <= Len(Inside(s, w))
<1>1. w <= w
  OBVIOUS
<1>2. Len(Inside(Aged(s, w), w)) = Len(Inside(s, w - 1))
  BY <1>1, AgedInsideLen
<1> QED BY <1>2, InsideGrows

\* Each event came at least d ticks after the one before.
Spaced(s, d) == \A i, j \in DOMAIN s : i < j => s[i] >= s[j] + d

LEMMA SpacedAppend ==
  ASSUME NEW s \in Seq(Nat), NEW e \in Nat, NEW d \in Nat
  PROVE  Spaced(Append(s, e), d) <=> Spaced(s, d) /\ \A i \in DOMAIN s : s[i] >= e + d
<1> DEFINE t == Append(s, e)  n == Len(s)
<1>1. /\ n \in Nat /\ DOMAIN s = 1..n /\ DOMAIN t = 1..n + 1
      /\ t[n + 1] = e /\ \A i \in 1..n : t[i] = s[i] /\ s[i] \in Nat
  OBVIOUS
<1> HIDE DEF t, n
<1>2. ASSUME Spaced(t, d) PROVE Spaced(s, d) /\ \A i \in DOMAIN s : s[i] >= e + d
  <2>1. ASSUME NEW i \in 1..n PROVE s[i] >= e + d
    <3>1. i < n + 1 /\ i \in 1..n + 1 /\ n + 1 \in 1..n + 1
      BY <1>1
    <3> QED BY <1>1, <1>2, <3>1 DEF Spaced
  <2>2. ASSUME NEW i \in 1..n, NEW j \in 1..n, i < j PROVE s[i] >= s[j] + d
    <3>1. i \in 1..n + 1 /\ j \in 1..n + 1
      BY <1>1
    <3> QED BY <1>1, <1>2, <2>2, <3>1 DEF Spaced
  <2> QED BY <1>1, <2>1, <2>2 DEF Spaced
<1>3. ASSUME Spaced(s, d), \A i \in DOMAIN s : s[i] >= e + d PROVE Spaced(t, d)
  <2> SUFFICES ASSUME NEW i \in 1..n + 1, NEW j \in 1..n + 1, i < j PROVE t[i] >= t[j] + d
    BY <1>1 DEF Spaced
  <2>1. i \in 1..n
    BY <1>1
  <2>2. CASE j = n + 1
    BY <1>1, <1>3, <2>1, <2>2
  <2>3. CASE j # n + 1
    <3>1. j \in 1..n
      BY <1>1, <2>3
    <3> QED BY <1>1, <1>3, <2>1, <3>1 DEF Spaced
  <2> QED BY <2>2, <2>3
<1> QED BY <1>2, <1>3 DEF t

LEMMA KeptSpaced ==
  ASSUME NEW S, NEW d \in Nat
  PROVE  \A s \in Seq(Nat) : Spaced(s, d) => Spaced(Kept(s, S), d)
<1> DEFINE Good == {s \in Seq(Nat) : Spaced(s, d) => Spaced(Kept(s, S), d)}
<1>1. <<>> \in Good
  BY KeptEmpty DEF Spaced
<1>2. ASSUME NEW s \in Seq(Nat), NEW e \in Nat, s \in Good PROVE Append(s, e) \in Good
  <2> SUFFICES ASSUME Spaced(Append(s, e), d) PROVE Spaced(Kept(Append(s, e), S), d)
    OBVIOUS
  <2>1. Spaced(s, d) /\ \A i \in DOMAIN s : s[i] >= e + d
    BY SpacedAppend
  <2>2. Kept(s, S) \in Seq(Nat)
    <3>1. Kept(s, S) \in Seq(Nat \cap S)
      BY KeptType
    <3> QED BY <3>1
  <2>3. \A i \in DOMAIN Kept(s, S) : Kept(s, S)[i] >= e + d
    BY <2>1, KeptFrom
  <2>4. Spaced(Append(Kept(s, S), e), d)
    BY <1>2, <2>1, <2>2, <2>3, SpacedAppend
  <2> QED BY <1>2, <2>1, <2>4, KeptAppend
<1>3. \A s \in Seq(Nat) : s \in Good
  <2> HIDE DEF Good
  <2> QED BY <1>1, <1>2, SequenceInduction
<1> QED BY <1>3

LEMMA AgedSpaced ==
  ASSUME NEW w \in Nat, NEW d \in Nat, NEW s \in Seq(Nat), Spaced(s, d),
         s \in Seq(0..w - 1) \/ d = 0
  PROVE  Spaced(Aged(s, w), d)
<1>1. DOMAIN Aged(s, w) = DOMAIN s /\ \A i \in DOMAIN s : Aged(s, w)[i] = Older(s[i], w)
  BY DEF Aged
<1> SUFFICES ASSUME NEW i \in DOMAIN s, NEW j \in DOMAIN s, i < j
             PROVE  Older(s[i], w) >= Older(s[j], w) + d
  BY <1>1 DEF Spaced
<1>2. s[i] \in Nat /\ s[j] \in Nat /\ s[i] >= s[j] + d
  BY DEF Spaced
<1>3. CASE d = 0
  BY <1>2, <1>3 DEF Older
<1>4. CASE s \in Seq(0..w - 1)
  <2>1. s[i] \in 0..w - 1 /\ s[j] \in 0..w - 1
    BY <1>4
  <2> QED BY <1>2, <2>1 DEF Older
<1> QED BY <1>3, <1>4

-----------------------------------------------------------------------------
(***************************************************************************)
(* The limiter of the action engine.                                         *)
(***************************************************************************)
\* RateLimitConfig: three an hour, five minutes apart, a chain that ends after
\* ten; the monitor warns at two thirds of the chain limit.
LimitsNumbers ==
  /\ IsFiniteSet(LimitsExecution)
  /\ MaxPerWindow \in Nat \ {0}
  /\ LimitsWindow \in Nat /\ Cooldown \in Nat \ {0} /\ Cooldown < LimitsWindow
  /\ ChainBreak \in Nat /\ ChainBreak <= LimitsWindow
  /\ MaxChain \in Nat /\ WarnAt \in Nat /\ 2 <= WarnAt /\ WarnAt < MaxChain

LimitsTypeOK ==
  /\ records \in Seq(0..LimitsWindow)
  /\ idle \in 0..LimitsWindow /\ warned \in 0..LimitsWindow
  /\ chain \in Nat /\ limitsRunning \in SUBSET LimitsExecution
  /\ omen \in {"none", "warned", "overlap"}

\* No record is younger than the last one.
LimitsIdleSince == \A i \in DOMAIN records : records[i] >= idle

\* While nothing was warned of and nothing overlapped, the chain is short: an
\* execution began a cooldown after the last record, so that the warning of an
\* earlier chain is long past when this one is due.
LimitsUnwarned ==
  omen = "none" =>
    /\ chain <= WarnAt
    /\ chain >= WarnAt => limitsRunning = {}
    /\ chain >= 1 /\ limitsRunning # {} => idle >= Cooldown
    /\ chain >= 1 => warned >= idle
    /\ chain >= 2 => warned = LimitsWindow \/ warned >= idle + Cooldown

LimitsInv == LimitsTypeOK /\ Limits!OvershootBounded /\ LimitsIdleSince /\ LimitsUnwarned

\* The cardinality in ActionRateLimit is the one of the theorems.
\* Ages in ActionRateLimit are those of the lemmas above.
LEMMA LimitsWindows ==
  /\ \A s, S : Limits!Kept(s, S) = Kept(s, S)
  /\ \A s, w : Limits!Inside(s, w) = Inside(s, w) /\ Limits!Aged(s, w) = Aged(s, w)
  /\ \A n, w : Limits!Older(n, w) = Older(n, w)
  BY DEF Limits!Kept, Kept, Limits!Inside, Inside, Limits!Aged, Aged, Limits!Older, Older

LEMMA LimitsCard ==
  \A S : Limits!Cardinality(S) = Cardinality(S) /\ (Limits!IsFiniteSet(S) <=> IsFiniteSet(S))
  BY DEF Limits!Cardinality, Cardinality, Limits!IsFiniteSet, IsFiniteSet

LEMMA LimitsRecordsFacts ==
  ASSUME LimitsNumbers, LimitsTypeOK
  PROVE  /\ Limits!Recent(records) \in Seq(0..LimitsWindow)
         /\ Len(Limits!Recent(records)) \in Nat
         /\ \A i \in DOMAIN Limits!Recent(records) : \E j \in DOMAIN records : Limits!Recent(records)[i] = records[j]
         /\ Limits!Recent(Limits!Recent(records)) = Limits!Recent(records)
         /\ Limits!Recent(Append(records, 0)) = Append(Limits!Recent(records), 0)
         /\ Len(Limits!Recent(Append(records, 0))) = Len(Limits!Recent(records)) + 1
         /\ Len(Limits!Recent(Aged(records, LimitsWindow))) <= Len(Limits!Recent(records))
         /\ Len(Limits!Recent(Aged(records, LimitsWindow))) \in Nat
         /\ Limits!Recent(<<>>) = <<>>
<1>1. LimitsWindow \in Nat /\ LimitsWindow > 0 /\ records \in Seq(Nat)
  BY DEF LimitsNumbers, LimitsTypeOK
<1>2. Limits!Recent(records) \in Seq(0..LimitsWindow)
  BY InsideType, LimitsWindows DEF LimitsTypeOK, Limits!Recent
<1>3. \A i \in DOMAIN Limits!Recent(records) : \E j \in DOMAIN records : Limits!Recent(records)[i] = records[j]
  BY <1>1, KeptFrom, LimitsWindows DEF Limits!Recent, Inside
<1>4. Limits!Recent(Limits!Recent(records)) = Limits!Recent(records)
  BY <1>1, InsideInside, LimitsWindows DEF Limits!Recent
<1>5. Limits!Recent(Append(records, 0)) = Append(Limits!Recent(records), 0)
  BY <1>1, InsideAppend, LimitsWindows DEF Limits!Recent
<1>6. Len(Limits!Recent(Aged(records, LimitsWindow))) <= Len(Limits!Recent(records))
  BY <1>1, AgedShrinks, LimitsWindows DEF Limits!Recent
<1>7. Aged(records, LimitsWindow) \in Seq(Nat)
  BY <1>1, AgedType
<1>8. Len(Limits!Recent(Aged(records, LimitsWindow))) \in Nat
  BY <1>7, InsideType, LimitsWindows DEF Limits!Recent
<1>9. Limits!Recent(<<>>) = <<>>
  BY KeptEmpty, LimitsWindows DEF Limits!Recent, Inside
<1> QED BY <1>2, <1>3, <1>4, <1>5, <1>6, <1>8, <1>9

\* The number of executions under way.
LEMMA LimitsRunningFacts ==
  ASSUME LimitsNumbers, LimitsTypeOK
  PROVE  /\ IsFiniteSet(limitsRunning) /\ Cardinality(limitsRunning) \in Nat
         /\ Cardinality(LimitsExecution) \in Nat
         /\ \A e \in LimitsExecution \ limitsRunning :
              Cardinality(limitsRunning \cup {e}) = Cardinality(limitsRunning) + 1
              /\ Cardinality(limitsRunning \cup {e}) <= Cardinality(LimitsExecution)
         /\ \A e \in limitsRunning : Cardinality(limitsRunning \ {e}) = Cardinality(limitsRunning) - 1
<1>1. IsFiniteSet(LimitsExecution) /\ limitsRunning \subseteq LimitsExecution
  BY DEF LimitsNumbers, LimitsTypeOK
<1>2. IsFiniteSet(limitsRunning)
  BY <1>1, FS_Subset
<1>3. \A e \in LimitsExecution \ limitsRunning : limitsRunning \cup {e} \subseteq LimitsExecution
  BY <1>1
<1> QED BY <1>1, <1>2, <1>3, FS_Subset, FS_CardinalityType, FS_AddElement, FS_RemoveElement

LEMMA LimitsInvInit == ASSUME LimitsNumbers, Limits!Init PROVE LimitsInv
<1>1. LimitsTypeOK
  BY DEF LimitsNumbers, Limits!Init, LimitsTypeOK
<1>2. Limits!OvershootBounded
  <2>1. Len(Limits!Recent(records)) = 0 /\ Cardinality(limitsRunning) = 0
    BY KeptEmpty, FS_EmptySet, LimitsWindows DEF Limits!Init, Limits!Recent, Inside
  <2> QED BY <1>1, <2>1, LimitsRunningFacts, LimitsCard DEF LimitsNumbers, Limits!OvershootBounded
<1>3. LimitsIdleSince /\ LimitsUnwarned
  BY DEF LimitsNumbers, Limits!Init, LimitsIdleSince, LimitsUnwarned
<1> QED BY <1>1, <1>2, <1>3 DEF LimitsInv

(* What the two callers of check have in common.                              *)
LEMMA LimitsCheckKeeps ==
  ASSUME LimitsNumbers, LimitsInv, Limits!Check, limitsRunning' \in SUBSET LimitsExecution
  PROVE  /\ LimitsTypeOK' /\ LimitsIdleSince'
         /\ Len(Limits!Recent(records))' = Len(Limits!Recent(records))
         /\ Limits!Cooling => UNCHANGED <<idle, chain, warned, omen>>
         /\ limitsRunning' = limitsRunning \/ ~Limits!Cooling => LimitsUnwarned'
<1>1. /\ idle' = idle /\ records' = Limits!Recent(records)
  BY DEF Limits!Check
<1>2. LimitsTypeOK'
  BY <1>1, LimitsRecordsFacts DEF Limits!Check, Limits!MonitorChain, Limits!ChainNow, LimitsInv,
     LimitsTypeOK, LimitsNumbers
<1>3. LimitsIdleSince'
  BY <1>1, LimitsRecordsFacts DEF LimitsInv, LimitsIdleSince
<1>4. Len(Limits!Recent(records))' = Len(Limits!Recent(records))
  BY <1>1, LimitsRecordsFacts, LimitsWindows DEF LimitsInv, Limits!Recent
<1>5. Limits!Cooling => UNCHANGED <<idle, chain, warned, omen>>
  BY <1>1 DEF Limits!Check
<1>6. ASSUME limitsRunning' = limitsRunning \/ ~Limits!Cooling PROVE LimitsUnwarned'
  <2>1. CASE Limits!Cooling
    BY <1>5, <1>6, <2>1 DEF LimitsInv, LimitsUnwarned
  <2>2. CASE ~Limits!Cooling
    <3>1. chain' = Limits!ChainNow /\ Limits!MonitorChain(Limits!ChainNow)
      BY <2>2 DEF Limits!Check
    <3>2. CASE Limits!Broken
      <4>1. chain' = 0
        BY <3>1, <3>2 DEF Limits!ChainNow
      <4> QED BY <4>1 DEF LimitsUnwarned, LimitsNumbers
    <3>3. CASE ~Limits!Broken
      <4>1. chain' = chain
        BY <3>1, <3>3 DEF Limits!ChainNow
      <4>2. omen' = "none" => omen = "none" /\ ~Limits!Warns(chain)
        BY <3>1, <3>3 DEF Limits!MonitorChain, Limits!ChainNow, LimitsInv, LimitsTypeOK
      <4>3. ASSUME omen' = "none" PROVE chain < WarnAt
        BY <2>2, <4>2, <4>3 DEF Limits!Warns, Limits!Cooling, LimitsInv, LimitsTypeOK,
           LimitsUnwarned, LimitsNumbers
      <4>4. ASSUME omen' = "none" PROVE warned' = warned
        BY <3>1, <3>3, <4>2, <4>3, <4>4 DEF Limits!MonitorChain, Limits!ChainNow, LimitsInv,
           LimitsTypeOK, LimitsNumbers
      <4>5. idle >= Cooldown
        BY <2>2 DEF Limits!Cooling, LimitsInv, LimitsTypeOK, LimitsNumbers
      <4> QED BY <1>1, <4>1, <4>2, <4>3, <4>4, <4>5 DEF LimitsInv, LimitsTypeOK, LimitsUnwarned,
                 LimitsNumbers
    <3> QED BY <3>2, <3>3
  <2> QED BY <2>1, <2>2
<1> QED BY <1>2, <1>3, <1>4, <1>5, <1>6

LEMMA LimitsStepKeeps == ASSUME LimitsNumbers, LimitsInv, [Limits!Next]_(Limits!limitVars) PROVE LimitsInv'
<1> USE DEF LimitsInv
<1>1. ASSUME NEW e \in LimitsExecution, Limits!Begin(e) PROVE LimitsInv'
  <2>1. Limits!Check /\ limitsRunning' \in SUBSET LimitsExecution /\ e \notin limitsRunning
    BY <1>1 DEF Limits!Begin, LimitsTypeOK
  <2>2. limitsRunning' = limitsRunning \/ ~Limits!Cooling
    BY <1>1 DEF Limits!Begin, Limits!Allowed
  <2>3. LimitsTypeOK' /\ LimitsIdleSince' /\ LimitsUnwarned' /\ Len(Limits!Recent(records))' = Len(Limits!Recent(records))
    BY <2>1, <2>2, LimitsCheckKeeps
  <2>4. Limits!OvershootBounded'
    <3>1. CASE Limits!Allowed
      <4>1. limitsRunning' = limitsRunning \cup {e} /\ Len(Limits!Recent(records)) < MaxPerWindow
        BY <1>1, <3>1 DEF Limits!Begin, Limits!Allowed
      <4>2. /\ Cardinality(limitsRunning \cup {e}) <= Cardinality(LimitsExecution)
            /\ Cardinality(limitsRunning \cup {e}) = Cardinality(limitsRunning) + 1
            /\ Cardinality(limitsRunning) \in Nat
        BY <2>1, LimitsRunningFacts
      <4>3. Cardinality(limitsRunning') <= Cardinality(LimitsExecution) /\ Cardinality(limitsRunning') \in Nat
        BY <4>1, <4>2
      <4> QED BY <2>3, <4>1, <4>3, LimitsRecordsFacts, LimitsRunningFacts, LimitsCard DEF
                 Limits!OvershootBounded, LimitsNumbers
    <3>2. CASE ~Limits!Allowed
      <4>1. limitsRunning' = limitsRunning
        BY <1>1, <3>2 DEF Limits!Begin
      <4> QED BY <2>3, <4>1, LimitsCard DEF Limits!OvershootBounded
    <3> QED BY <3>1, <3>2
  <2> QED BY <2>3, <2>4
<1>2. ASSUME NEW e \in LimitsExecution, Limits!End(e) PROVE LimitsInv'
  <2>1. /\ e \in limitsRunning /\ limitsRunning' = limitsRunning \ {e} /\ warned' = warned
        /\ Limits!Record(e) \/ UNCHANGED <<records, idle, chain, omen>>
    BY <1>2 DEF Limits!End
  <2>2. Cardinality(limitsRunning') = Cardinality(limitsRunning) - 1
    BY <2>1, LimitsRunningFacts
  <2>3. CASE Limits!Record(e)
    <3>1. /\ records' = Append(records, 0) /\ idle' = 0 /\ chain' = chain + 1
          /\ omen' = IF limitsRunning = {e} THEN omen ELSE "overlap"
      BY <2>3 DEF Limits!Record
    <3>2. LimitsTypeOK'
      BY <2>1, <3>1 DEF LimitsTypeOK, LimitsNumbers
    <3>3. Limits!OvershootBounded'
      <4>1. Len(Limits!Recent(records))' = Len(Limits!Recent(records)) + 1
        BY <3>1, LimitsRecordsFacts, LimitsWindows DEF Limits!Recent
      <4> QED BY <2>2, <4>1, LimitsRecordsFacts, LimitsRunningFacts, LimitsCard DEF
                 Limits!OvershootBounded, LimitsNumbers
    <3>4. LimitsIdleSince'
      <4>1. \A i \in DOMAIN records' : records'[i] >= 0
        BY <3>2 DEF LimitsTypeOK, LimitsNumbers
      <4> QED BY <3>1, <4>1 DEF LimitsIdleSince
    <3>5. LimitsUnwarned'
      <4> SUFFICES ASSUME omen' = "none" PROVE LimitsUnwarned'
        BY DEF LimitsUnwarned
      <4>1. omen = "none" /\ limitsRunning' = {}
        BY <2>1, <3>1
      <4>2. chain < WarnAt /\ (chain >= 1 => idle >= Cooldown)
        BY <2>1, <4>1 DEF LimitsUnwarned, LimitsTypeOK, LimitsNumbers
      <4> QED BY <2>1, <3>1, <4>1, <4>2 DEF LimitsUnwarned, LimitsTypeOK, LimitsNumbers
    <3> QED BY <3>2, <3>3, <3>4, <3>5
  <2>4. CASE UNCHANGED <<records, idle, chain, omen>>
    <3>1. LimitsTypeOK'
      BY <2>1, <2>4 DEF LimitsTypeOK
    <3>2. Limits!OvershootBounded'
      BY <2>2, <2>4, LimitsRecordsFacts, LimitsRunningFacts, LimitsCard, LimitsWindows DEF
         Limits!OvershootBounded, Limits!Recent, LimitsNumbers
    <3>3. LimitsIdleSince'
      BY <2>4 DEF LimitsIdleSince
    <3>4. LimitsUnwarned'
      BY <2>1, <2>4 DEF LimitsUnwarned
    <3> QED BY <3>1, <3>2, <3>3, <3>4
  <2> QED BY <2>1, <2>3, <2>4
<1>3. CASE Limits!Validate
  <2>1. Limits!Check /\ limitsRunning' = limitsRunning
    BY <1>3 DEF Limits!Validate
  <2>2. LimitsTypeOK' /\ LimitsIdleSince' /\ LimitsUnwarned' /\ Len(Limits!Recent(records))' = Len(Limits!Recent(records))
    BY <2>1, LimitsCheckKeeps DEF LimitsTypeOK
  <2>3. Limits!OvershootBounded'
    BY <2>1, <2>2, LimitsCard DEF Limits!OvershootBounded
  <2> QED BY <2>2, <2>3
<1>4. CASE Limits!Restart
  <2>1. Limits!Init'
    BY <1>4 DEF Limits!Restart, Limits!Init
  <2>2. LimitsTypeOK'
    BY <2>1 DEF Limits!Init, LimitsTypeOK, LimitsNumbers
  <2>3. Limits!OvershootBounded'
    <3>1. Len(Limits!Recent(records))' = 0 /\ Cardinality(limitsRunning)' = 0
      BY <2>1, KeptEmpty, FS_EmptySet, LimitsWindows DEF Limits!Init, Limits!Recent, Inside
    <3> QED BY <3>1, LimitsRunningFacts, LimitsCard DEF LimitsNumbers, Limits!OvershootBounded
  <2>4. LimitsIdleSince' /\ LimitsUnwarned'
    BY <2>1 DEF LimitsNumbers, Limits!Init, LimitsIdleSince, LimitsUnwarned
  <2> QED BY <2>2, <2>3, <2>4
<1>5. CASE Limits!Tick
  <2>1. /\ records' = Aged(records, LimitsWindow)
        /\ idle' = Older(idle, LimitsWindow) /\ warned' = Older(warned, LimitsWindow)
        /\ UNCHANGED <<chain, limitsRunning, omen>>
    BY <1>5, LimitsWindows DEF Limits!Tick
  <2>2. LimitsTypeOK'
    BY <2>1 DEF LimitsTypeOK, Aged, Older, LimitsNumbers
  <2>3. Limits!OvershootBounded'
    BY <2>1, LimitsRecordsFacts, LimitsRunningFacts, LimitsCard, LimitsWindows DEF
       Limits!OvershootBounded, Limits!Recent, LimitsNumbers
  <2>4. LimitsIdleSince'
    BY <2>1 DEF LimitsIdleSince, Aged, Older, LimitsTypeOK, LimitsNumbers
  <2>5. LimitsUnwarned'
    BY <2>1 DEF LimitsUnwarned, Older, LimitsTypeOK, LimitsNumbers
  <2> QED BY <2>2, <2>3, <2>4, <2>5
<1>6. CASE UNCHANGED Limits!limitVars
  BY <1>6, LimitsCard, LimitsWindows DEF Limits!limitVars, LimitsTypeOK, Limits!OvershootBounded,
     LimitsIdleSince, LimitsUnwarned, Limits!Recent
<1> QED BY <1>1, <1>2, <1>3, <1>4, <1>5, <1>6 DEF Limits!Next

(* At most the other executions under way come on top of the hourly limit     *)
(* (engine.py 485-751, rate_limiter.py 144).                                  *)
THEOREM OvershootIsBounded == ASSUME LimitsNumbers PROVE Limits!Spec => []Limits!OvershootBounded
<1>1. LimitsInv => Limits!OvershootBounded
  BY DEF LimitsInv
<1> QED BY <1>1, LimitsInvInit, LimitsStepKeeps, PTL DEF Limits!Spec

(* A project that was quiet for a whole window is admitted (rate_limiter.py   *)
(* 118-142).                                                                  *)
THEOREM QuietProjectIsAdmitted == ASSUME LimitsNumbers PROVE Limits!Spec => []Limits!QuietIsAdmitted
<1>1. LimitsInv => Limits!QuietIsAdmitted
  <2> SUFFICES ASSUME LimitsInv, idle >= LimitsWindow PROVE Limits!Allowed
    BY DEF Limits!QuietIsAdmitted
  <2>1. Limits!Recent(records) = <<>>
    <3>1. \A i \in DOMAIN records : records[i] = LimitsWindow
      BY DEF LimitsInv, LimitsTypeOK, LimitsIdleSince, LimitsNumbers
    <3>2. records \in Seq({LimitsWindow})
      BY <3>1 DEF LimitsInv, LimitsTypeOK
    <3>3. {LimitsWindow} \cap (0..LimitsWindow - 1) = {}
      BY DEF LimitsNumbers
    <3> QED BY <3>2, <3>3, KeptNone, LimitsWindows DEF Limits!Recent, Inside
  <2>2. ~Limits!Cooling /\ Limits!ChainNow = 0
    BY DEF Limits!Cooling, Limits!ChainNow, Limits!Broken, LimitsInv, LimitsTypeOK, LimitsNumbers
  <2> QED BY <2>1, <2>2 DEF Limits!Allowed, LimitsNumbers
<1> QED BY <1>1, LimitsInvInit, LimitsStepKeeps, PTL DEF Limits!Spec

(* The chain meets its limit only after a warning, or when its executions     *)
(* overlapped (chain_monitor.py 107-141).                                     *)
THEOREM LimitIsWarnedOf == ASSUME LimitsNumbers PROVE Limits!Spec => []Limits!WarnedBeforeLimit
<1>1. LimitsInv => Limits!WarnedBeforeLimit
  BY DEF LimitsInv, LimitsTypeOK, LimitsUnwarned, Limits!WarnedBeforeLimit, LimitsNumbers
<1> QED BY <1>1, LimitsInvInit, LimitsStepKeeps, PTL DEF Limits!Spec

-----------------------------------------------------------------------------
(***************************************************************************)
(* Autonomous remediation.                                                   *)
(***************************************************************************)
RemediationNumbers ==
  /\ MaxPerHour \in Nat /\ Cooldown \in Nat /\ MaxTargets \in Nat
  /\ RemediationWindow \in Nat \ {0}

RemediationTypeOK ==
  /\ times \in Seq(0..RemediationWindow) /\ remediationFile \in Seq(0..RemediationWindow)
  /\ counted \in Seq(0..RemediationWindow - 1)
  /\ remediationLossy \in BOOLEAN
  /\ remediationStage \in {"idle", "read", "ready", "call", "succeeded", "failed"}
  /\ remediationLeft \in Nat /\ changed \in Nat /\ refused \in Nat /\ unanswered \in Nat

\* Memory and file have what was counted, and an execution that passed its
\* checks still fits: nothing is counted while it runs.
RemediationRemembered ==
  ~remediationLossy =>
    /\ Remediation!Within(times) = counted /\ Remediation!Within(remediationFile) = counted
    /\ Len(counted) <= MaxPerHour /\ Spaced(counted, Cooldown)
    /\ remediationStage \in {"read", "ready", "call"} =>
         /\ Len(counted) < MaxPerHour
         /\ \A i \in DOMAIN counted : counted[i] >= Cooldown

\* An action whose failed calls make it fail makes one call, but for the two
\* that delete pod by pod.
RemediationOneCall == type \notin Remediation!AllOrNothing /\ ~Remediation!ActionRow[type].tolerant
RemediationCalls ==
  /\ remediationStage # "idle" => type \in Remediation!MediumRisk
  /\ remediationStage \in {"idle", "read", "ready"} => changed = 0 /\ refused = 0 /\ unanswered = 0
  /\ remediationStage = "failed" => refused > 0 /\ ~Remediation!ActionRow[type].tolerant
  /\ remediationStage \in {"call", "succeeded", "failed"} /\ RemediationOneCall =>
       \/ remediationLeft <= 1 /\ changed = 0 /\ refused = 0 /\ unanswered = 0
       \/ remediationLeft = 0 /\ refused = 0
       \/ remediationLeft = 0 /\ changed = unanswered

RemediationInv == RemediationTypeOK /\ RemediationRemembered /\ RemediationCalls

\* An action that is not tolerant and not one of the two calls kubectl once.
\* Ages in AutonomousRemediation are those of the lemmas above.
LEMMA RemediationWindows ==
  /\ \A s, S : Remediation!Kept(s, S) = Kept(s, S)
  /\ \A s, w : Remediation!Inside(s, w) = Inside(s, w) /\ Remediation!Aged(s, w) = Aged(s, w)
  /\ \A n, w : Remediation!Older(n, w) = Older(n, w)
  BY DEF Remediation!Kept, Kept, Remediation!Inside, Inside, Remediation!Aged, Aged, Remediation!Older, Older

LEMMA RemediationRowsOfOneCall ==
  ASSUME NEW t \in Remediation!MediumRisk, t \notin Remediation!AllOrNothing, ~Remediation!ActionRow[t].tolerant
  PROVE  t = "scale_deployment" \/ ~Remediation!ActionRow[t].batch
<1> USE DEF Remediation!ActionRow, Remediation!Row, Remediation!Single, Remediation!AllOrNothing
<1>1. CASE t = "scale_deployment"
  BY <1>1
<1>2. CASE t = "restart_deployment"
  BY <1>2 DEF Remediation!RestartDeployment
<1>3. CASE t = "clear_stuck_pods"
  BY <1>3 DEF Remediation!ClearStuckPods
<1>4. CASE t = "cleanup_failed_jobs"
  BY <1>4 DEF Remediation!CleanupFailedJobs
<1>5. CASE t = "adjust_hpa_min_replicas"
  BY <1>5 DEF Remediation!AdjustHPAMinReplicas
<1>6. CASE t = "restart_statefulset_pod"
  BY <1>6
<1> QED BY <1>1, <1>2, <1>3, <1>4, <1>5, <1>6 DEF Remediation!MediumRisk

LEMMA RemediationAgesFacts ==
  ASSUME RemediationNumbers, NEW ages \in Seq(0..RemediationWindow)
  PROVE  /\ Remediation!Within(ages) \in Seq(0..RemediationWindow) /\ Remediation!Within(ages) \in Seq(0..RemediationWindow - 1)
         /\ Remediation!Within(Remediation!Within(ages)) = Remediation!Within(ages)
         /\ Remediation!Count(ages) = Append(Remediation!Within(ages), 0)
         /\ Remediation!Count(ages) \in Seq(0..RemediationWindow) /\ Remediation!Count(ages) \in Seq(0..RemediationWindow - 1)
         /\ Remediation!Within(Remediation!Count(ages)) = Remediation!Count(ages)
         /\ Len(Remediation!Count(ages)) = Len(Remediation!Within(ages)) + 1 /\ Len(Remediation!Within(ages)) \in Nat
         /\ Aged(ages, RemediationWindow) \in Seq(0..RemediationWindow)
         /\ Remediation!Within(Aged(ages, RemediationWindow)) = Remediation!Within(Aged(Remediation!Within(ages), RemediationWindow))
         /\ \A i \in DOMAIN Remediation!Within(ages) : \E j \in DOMAIN ages : Remediation!Within(ages)[i] = ages[j]
<1>1. RemediationWindow \in Nat /\ RemediationWindow > 0 /\ ages \in Seq(Nat)
  BY DEF RemediationNumbers
<1>2. Remediation!Within(ages) \in Seq(0..RemediationWindow) /\ Remediation!Within(ages) \in Seq(0..RemediationWindow - 1) /\ Len(Remediation!Within(ages)) \in Nat
  BY InsideType, RemediationWindows DEF Remediation!Within
<1>3. Remediation!Within(Remediation!Within(ages)) = Remediation!Within(ages)
  BY <1>1, InsideInside, RemediationWindows DEF Remediation!Within
<1>4. Remediation!Count(ages) = Append(Remediation!Within(ages), 0)
  BY DEF Remediation!Count
<1>5. /\ Remediation!Count(ages) \in Seq(0..RemediationWindow) /\ Remediation!Count(ages) \in Seq(0..RemediationWindow - 1)
      /\ Len(Remediation!Count(ages)) = Len(Remediation!Within(ages)) + 1
  BY <1>1, <1>2, <1>4
<1>6. Remediation!Within(Remediation!Count(ages)) = Remediation!Count(ages)
  BY <1>1, <1>5, InsideAll, RemediationWindows DEF Remediation!Within
<1>7. Aged(ages, RemediationWindow) \in Seq(0..RemediationWindow)
  BY <1>1 DEF Aged, Older
<1>8. Remediation!Within(Aged(ages, RemediationWindow)) = Remediation!Within(Aged(Remediation!Within(ages), RemediationWindow))
  BY <1>1, AgedPruned, RemediationWindows DEF Remediation!Within
<1>9. \A i \in DOMAIN Remediation!Within(ages) : \E j \in DOMAIN ages : Remediation!Within(ages)[i] = ages[j]
  BY <1>1, KeptFrom, RemediationWindows DEF Remediation!Within, Inside
<1> QED BY <1>2, <1>3, <1>4, <1>5, <1>6, <1>7, <1>8, <1>9

LEMMA RemediationInvInit == ASSUME RemediationNumbers, Remediation!Init PROVE RemediationInv
<1>1. RemediationTypeOK
  <2>1. <<>> \in Seq(0..RemediationWindow) /\ <<>> \in Seq(0..RemediationWindow - 1)
    OBVIOUS
  <2> QED BY <2>1 DEF Remediation!Init, RemediationTypeOK
<1>2. RemediationRemembered
  <2>1. Remediation!Within(<<>>) = <<>>
    BY KeptEmpty, RemediationWindows DEF Remediation!Within, Inside
  <2> QED BY <2>1 DEF RemediationNumbers, Remediation!Init, RemediationRemembered, Spaced
<1>3. RemediationCalls
  BY DEF Remediation!Init, RemediationCalls
<1> QED BY <1>1, <1>2, <1>3 DEF RemediationInv

(* Steps that leave the quota alone and do not enter an execution.            *)
LEMMA RemediationQuotaKept ==
  ASSUME RemediationRemembered, UNCHANGED <<times, remediationFile, counted, remediationLossy>>,
         remediationStage' \in {"read", "ready", "call"} => remediationStage \in {"read", "ready", "call"}
  PROVE  RemediationRemembered'
  BY RemediationWindows DEF RemediationRemembered, Remediation!Within

LEMMA RemediationStepKeeps == ASSUME RemediationNumbers, RemediationInv, [Remediation!Next]_(Remediation!remediationVars) PROVE RemediationInv'
<1> USE DEF RemediationInv, Remediation!quotaVars, Remediation!callVars
<1>1. CASE Remediation!Start
  <2>1. /\ remediationStage = "idle" /\ type \in Remediation!MediumRisk /\ Remediation!UnderQuota /\ Remediation!CooledDown
        /\ times' = Remediation!Within(times) /\ UNCHANGED <<type, remediationFile, counted, remediationLossy, remediationLeft, changed, refused, unanswered>>
        /\ remediationStage' \in {"read", "ready"}
    BY <1>1 DEF Remediation!Start, Remediation!Goto
  <2>2. RemediationTypeOK'
    BY <2>1, RemediationAgesFacts DEF RemediationTypeOK
  <2>3. RemediationRemembered'
    <3> SUFFICES ASSUME ~remediationLossy PROVE RemediationRemembered'
      BY <2>1 DEF RemediationRemembered
    <3>1. Remediation!Within(times)' = Remediation!Within(times)
      <4>1. Remediation!Within(times') = Remediation!Within(times)
        BY <2>1, RemediationAgesFacts DEF RemediationTypeOK
      <4> QED BY <4>1, RemediationWindows DEF Remediation!Within
    <3>2. Len(counted) < MaxPerHour
      BY <2>1 DEF Remediation!UnderQuota, RemediationRemembered
    <3>3. \A i \in DOMAIN counted : counted[i] >= Cooldown
      <4>1. \A i \in DOMAIN Remediation!Within(times) : Remediation!Within(times)[i] >= Cooldown
        BY <2>1, RemediationAgesFacts DEF RemediationTypeOK, Remediation!CooledDown
      <4> QED BY <4>1 DEF RemediationRemembered
    <3>4. Remediation!Within(remediationFile)' = Remediation!Within(remediationFile)
      BY <2>1, RemediationWindows DEF Remediation!Within
    <3> QED BY <2>1, <3>1, <3>2, <3>3, <3>4 DEF RemediationRemembered
  <2>4. RemediationCalls'
    BY <2>1 DEF RemediationCalls
  <2> QED BY <2>2, <2>3, <2>4
<1>2. CASE Remediation!Read
  <2>1. remediationStage = "read" /\ UNCHANGED <<type, times, remediationFile, counted, remediationLossy>>
    BY <1>2 DEF Remediation!Read
  <2>2. \/ remediationStage' = "idle" /\ remediationLeft' = 0 /\ changed' = 0 /\ refused' = 0 /\ unanswered' = 0
        \/ remediationStage' = "ready" /\ UNCHANGED <<remediationLeft, changed, refused, unanswered>>
    BY <1>2 DEF Remediation!Read, Remediation!Rest, Remediation!Goto
  <2>3. RemediationTypeOK'
    BY <2>1, <2>2 DEF RemediationTypeOK
  <2>4. RemediationRemembered'
    BY <2>1, RemediationQuotaKept
  <2>5. RemediationCalls'
    BY <2>1, <2>2 DEF RemediationCalls
  <2> QED BY <2>3, <2>4, <2>5
<1>3. CASE Remediation!Plan
  <2>1. /\ remediationStage = "ready" /\ remediationStage' = "call"
        /\ UNCHANGED <<type, times, remediationFile, counted, remediationLossy, changed, refused, unanswered>>
        /\ remediationLeft' \in IF ~Remediation!ActionRow[type].calls THEN {0}
                                ELSE IF ~Remediation!ActionRow[type].batch THEN {1}
                                ELSE IF type = "scale_deployment" THEN 0..1 ELSE 0..MaxTargets
    BY <1>3 DEF Remediation!Plan
  <2>2. remediationLeft' \in Nat
    BY <2>1 DEF RemediationNumbers
  <2>3. RemediationTypeOK'
    BY <2>1, <2>2 DEF RemediationTypeOK
  <2>4. RemediationRemembered'
    BY <2>1, RemediationQuotaKept
  <2>5. RemediationCalls'
    <3>1. RemediationOneCall => remediationLeft' <= 1
      <4> SUFFICES ASSUME RemediationOneCall PROVE remediationLeft' <= 1
        OBVIOUS
      <4>1. type \in Remediation!MediumRisk
        BY <2>1 DEF RemediationCalls
      <4>2. type = "scale_deployment" \/ ~Remediation!ActionRow[type].batch
        BY <4>1, RemediationRowsOfOneCall DEF RemediationOneCall
      <4> QED BY <2>1, <4>2
    <3>2. changed' = 0 /\ refused' = 0 /\ unanswered' = 0 /\ type \in Remediation!MediumRisk /\ type' = type
      BY <2>1 DEF RemediationCalls
    <3>3. RemediationOneCall' <=> RemediationOneCall
      BY <3>2 DEF RemediationOneCall
    <3> QED BY <2>1, <3>1, <3>2, <3>3 DEF RemediationCalls
  <2> QED BY <2>3, <2>4, <2>5
<1>4. CASE Remediation!Kubectl
  <2>1. /\ remediationStage = "call" /\ remediationLeft > 0 /\ remediationLeft' = remediationLeft - 1
        /\ UNCHANGED <<type, times, remediationFile, counted, remediationLossy, remediationStage>>
        /\ \/ changed' = changed + 1 /\ refused' = refused /\ unanswered' = unanswered
           \/ refused' = refused + 1 /\ changed' = changed /\ unanswered' = unanswered
           \/ changed' = changed + 1 /\ refused' = refused + 1 /\ unanswered' = unanswered + 1
    BY <1>4 DEF Remediation!Kubectl
  <2>2. RemediationTypeOK'
    BY <2>1 DEF RemediationTypeOK
  <2>3. RemediationRemembered'
    BY <2>1, RemediationQuotaKept
  <2>4. RemediationCalls'
    BY <2>1 DEF RemediationCalls, RemediationOneCall, RemediationTypeOK
  <2> QED BY <2>2, <2>3, <2>4
<1>5. CASE Remediation!Finish
  <2>1. /\ remediationStage = "call" /\ remediationLeft = 0 /\ UNCHANGED <<type, remediationLeft, changed, refused, unanswered>>
        /\ remediationStage' = IF Remediation!Succeeds THEN "succeeded" ELSE "failed"
    BY <1>5 DEF Remediation!Finish, Remediation!Goto
  <2>2. RemediationCalls'
    BY <2>1 DEF RemediationCalls, RemediationOneCall, Remediation!Succeeds, RemediationTypeOK
  <2>3. CASE Remediation!Succeeds
    <3>1. /\ times' = Remediation!Count(times) /\ counted' = Remediation!Count(counted)
          /\ \/ remediationFile' = times' /\ remediationLossy' = remediationLossy
             \/ remediationLossy' = TRUE /\ remediationFile' = remediationFile
      BY <1>5, <2>3 DEF Remediation!Finish
    <3>2. counted \in Seq(0..RemediationWindow)
      BY DEF RemediationTypeOK, RemediationNumbers
    <3>3. RemediationTypeOK'
      BY <2>1, <3>1, <3>2, RemediationAgesFacts DEF RemediationTypeOK
    <3>4. RemediationRemembered'
      <4> SUFFICES ASSUME ~remediationLossy' PROVE RemediationRemembered'
        BY DEF RemediationRemembered
      <4>1. remediationFile' = times' /\ ~remediationLossy
        BY <3>1
      <4>2. Remediation!Within(counted) = counted
        BY InsideAll, RemediationWindows DEF Remediation!Within, RemediationTypeOK,
           RemediationNumbers
      <4>3. times' = Append(counted, 0) /\ counted' = Append(counted, 0)
        BY <3>1, <3>2, <4>1, <4>2, RemediationAgesFacts DEF RemediationRemembered, RemediationTypeOK
      <4>4. Remediation!Within(times') = times'
        BY <3>1, RemediationAgesFacts DEF RemediationTypeOK
      <4>5. Spaced(Append(counted, 0), Cooldown)
        <5>1. counted \in Seq(Nat) /\ \A i \in DOMAIN counted : counted[i] >= 0 + Cooldown
          BY <2>1, <4>1 DEF RemediationRemembered, RemediationTypeOK, RemediationNumbers
        <5> QED BY <4>1, <5>1, SpacedAppend DEF RemediationRemembered, RemediationNumbers
      <4>6. Len(counted') <= MaxPerHour
        BY <2>1, <4>1, <4>3 DEF RemediationRemembered, RemediationTypeOK, RemediationNumbers
      <4>7. Remediation!Within(times)' = times' /\ Remediation!Within(remediationFile)' = times'
        BY <4>1, <4>4, RemediationWindows DEF Remediation!Within
      <4> QED BY <2>1, <4>1, <4>3, <4>5, <4>6, <4>7 DEF RemediationRemembered
    <3> QED BY <2>2, <3>3, <3>4
  <2>4. CASE ~Remediation!Succeeds
    <3>1. UNCHANGED <<times, remediationFile, counted, remediationLossy>>
      BY <1>5, <2>4 DEF Remediation!Finish
    <3>2. RemediationTypeOK'
      BY <2>1, <3>1 DEF RemediationTypeOK
    <3>3. RemediationRemembered'
      BY <2>1, <3>1, RemediationQuotaKept
    <3> QED BY <2>2, <3>2, <3>3
  <2> QED BY <2>3, <2>4
<1>6. CASE Remediation!Report
  <2>1. /\ remediationStage' = "idle" /\ remediationLeft' = 0 /\ changed' = 0 /\ refused' = 0 /\ unanswered' = 0
        /\ UNCHANGED <<type, times, remediationFile, counted, remediationLossy>>
    BY <1>6 DEF Remediation!Report, Remediation!Rest
  <2>2. RemediationTypeOK'
    BY <2>1 DEF RemediationTypeOK
  <2>3. RemediationRemembered'
    BY <2>1, RemediationQuotaKept
  <2>4. RemediationCalls'
    BY <2>1 DEF RemediationCalls
  <2> QED BY <2>2, <2>3, <2>4
<1>7. CASE Remediation!Restart
  <2>1. /\ remediationStage' = "idle" /\ remediationLeft' = 0 /\ changed' = 0 /\ refused' = 0 /\ unanswered' = 0
        /\ UNCHANGED <<type, counted>>
        /\ \/ times' = Remediation!Within(remediationFile) /\ UNCHANGED <<remediationFile, remediationLossy>>
           \/ times' = <<>> /\ remediationFile' = <<>> /\ remediationLossy' = TRUE
    BY <1>7 DEF Remediation!Restart, Remediation!Rest
  <2>2. RemediationTypeOK'
    <3>1. <<>> \in Seq(0..RemediationWindow) /\ Remediation!Within(remediationFile) \in Seq(0..RemediationWindow)
      BY RemediationAgesFacts DEF RemediationTypeOK
    <3> QED BY <2>1, <3>1 DEF RemediationTypeOK
  <2>3. RemediationRemembered'
    <3> SUFFICES ASSUME ~remediationLossy' PROVE RemediationRemembered'
      BY DEF RemediationRemembered
    <3>1. times' = Remediation!Within(remediationFile) /\ UNCHANGED <<remediationFile, remediationLossy>>
      BY <2>1
    <3>2. Remediation!Within(times') = Remediation!Within(remediationFile) /\ Remediation!Within(remediationFile)' = Remediation!Within(remediationFile)
      BY <3>1, RemediationAgesFacts, RemediationWindows DEF RemediationTypeOK, Remediation!Within
    <3>3. Remediation!Within(times)' = Remediation!Within(remediationFile)
      BY <3>2, RemediationWindows DEF Remediation!Within
    <3> QED BY <2>1, <3>1, <3>2, <3>3 DEF RemediationRemembered
  <2>4. RemediationCalls'
    BY <2>1 DEF RemediationCalls
  <2> QED BY <2>2, <2>3, <2>4
<1>8. CASE Remediation!Tick
  <2>1. /\ times' = Aged(times, RemediationWindow) /\ remediationFile' = Aged(remediationFile, RemediationWindow)
        /\ counted' = Remediation!Within(Aged(counted, RemediationWindow))
        /\ UNCHANGED <<type, remediationLossy, remediationStage, remediationLeft, changed, refused, unanswered>>
    BY <1>8, RemediationWindows DEF Remediation!Tick
  <2>2. counted \in Seq(0..RemediationWindow) /\ counted \in Seq(Nat) /\ RemediationWindow \in Nat
    BY DEF RemediationTypeOK, RemediationNumbers
  <2>3. Aged(counted, RemediationWindow) \in Seq(0..RemediationWindow) /\ Aged(counted, RemediationWindow) \in Seq(Nat)
    BY <2>2, RemediationAgesFacts, AgedType
  <2>4. RemediationTypeOK'
    BY <2>1, <2>3, RemediationAgesFacts DEF RemediationTypeOK
  <2>5. RemediationRemembered'
    <3> SUFFICES ASSUME ~remediationLossy PROVE RemediationRemembered'
      BY <2>1 DEF RemediationRemembered
    <3>1. Remediation!Within(times') = counted' /\ Remediation!Within(remediationFile') = counted'
      BY <2>1, RemediationAgesFacts DEF RemediationRemembered, RemediationTypeOK
    <3>2. Remediation!Within(times)' = counted' /\ Remediation!Within(remediationFile)' = counted'
      BY <3>1, RemediationWindows DEF Remediation!Within
    <3>3. Len(counted') <= Len(counted) /\ Len(counted') \in Nat /\ Len(counted) \in Nat
      BY <2>1, <2>2, <2>3, AgedType, InsideType, RemediationWindows DEF Remediation!Within
    <3>4. Spaced(counted', Cooldown)
      <4>1. Spaced(Aged(counted, RemediationWindow), Cooldown)
        BY <2>2, AgedSpaced DEF RemediationRemembered, RemediationTypeOK, RemediationNumbers
      <4> QED BY <2>1, <2>3, <4>1, KeptSpaced, RemediationWindows DEF Remediation!Within, Inside,
                 RemediationNumbers
    <3>5. ASSUME NEW n \in DOMAIN counted', \A i \in DOMAIN counted : counted[i] >= Cooldown
          PROVE  counted'[n] >= Cooldown
      <4>1. PICK i \in DOMAIN Aged(counted, RemediationWindow) : counted'[n] = Aged(counted, RemediationWindow)[i]
        BY <2>1, <2>3, RemediationAgesFacts
      <4>2. i \in DOMAIN counted
        BY <4>1 DEF Aged
      <4>3. Aged(counted, RemediationWindow)[i] >= counted[i] /\ counted[i] \in Nat /\ Aged(counted, RemediationWindow)[i] \in Nat
        BY <2>2, <2>3, <4>1, <4>2, AgedType
      <4> QED BY <3>5, <4>1, <4>2, <4>3 DEF RemediationNumbers
    <3> QED BY <2>1, <3>2, <3>3, <3>4, <3>5 DEF RemediationRemembered, RemediationNumbers
  <2>6. RemediationCalls'
    BY <2>1 DEF RemediationCalls, RemediationOneCall
  <2> QED BY <2>4, <2>5, <2>6
<1>9. CASE UNCHANGED Remediation!remediationVars
  BY <1>9, RemediationWindows DEF Remediation!remediationVars, RemediationTypeOK,
     RemediationRemembered, Remediation!Within, RemediationCalls, RemediationOneCall
<1> QED BY <1>1, <1>2, <1>3, <1>4, <1>5, <1>6, <1>7, <1>8, <1>9 DEF Remediation!Next

(* The hourly quota and the cooldown hold across restarts unless a save       *)
(* failed or the file was lost (rate_limiter.py 478-590).                     *)
THEOREM QuotaHolds == ASSUME RemediationNumbers PROVE Remediation!Spec => []Remediation!WithinQuota
<1>1. RemediationInv => Remediation!WithinQuota
  BY DEF RemediationInv, RemediationRemembered, Spaced, Remediation!WithinQuota
<1> QED BY <1>1, RemediationInvInit, RemediationStepKeeps, PTL DEF Remediation!Spec

(* An action that failed changed the cluster only by calls that timed out, but  *)
(* for the two that delete pod by pod (remediation_actions.py 111-138).        *)
THEOREM FailuresAreClean == ASSUME RemediationNumbers PROVE Remediation!Spec => []Remediation!FailureIsClean
<1>1. RemediationInv => Remediation!FailureIsClean
  BY DEF RemediationInv, RemediationTypeOK, RemediationCalls, RemediationOneCall,
     Remediation!FailureIsClean
<1> QED BY <1>1, RemediationInvInit, RemediationStepKeeps, PTL DEF Remediation!Spec

-----------------------------------------------------------------------------
(***************************************************************************)
(* The distributed limit of HTTP requests.                                   *)
(***************************************************************************)
\* The window is longer than the wait for Redis and what two clocks differ.
RedisLimitNumbers ==
  /\ MaxRequests \in Nat /\ RedisLimitWindow \in Nat /\ Delay \in Nat /\ Skew \in Nat
  /\ Delay + Skew < RedisLimitWindow

RedisLimitAsked == [reading : Int, began : Int, waits : BOOLEAN, sent : BOOLEAN]
RedisLimitTypeOK ==
  /\ redisLimitNow \in Int /\ touched \in Int
  /\ entries \in SUBSET Int /\ IsFiniteSet(entries)
  /\ redisLimitAsking \in [RedisLimitRequest -> RedisLimitAsked]
  /\ redisLimitAdmitted \in SUBSET [reading : Int, at : Int]

\* A reading is ahead of the slowest clock by the skew at most, and behind it by
\* the wait.
RedisLimitTimely ==
  \A r \in RedisLimitRequest :
    /\ redisLimitAsking[r].sent => /\ redisLimitAsking[r].reading <= redisLimitNow + Skew
                                   /\ redisLimitAsking[r].reading >= redisLimitAsking[r].began
    /\ redisLimitAsking[r].waits => redisLimitAsking[r].sent /\ redisLimitNow <= redisLimitAsking[r].began + Delay

\* What was admitted is still in the set: the next verdict counts it.
RedisLimitCounted ==
  \A a \in redisLimitAdmitted :
    /\ a.at > redisLimitNow - RedisLimit!Sure /\ a.at <= redisLimitNow /\ a.at <= touched
    /\ a.reading >= a.at - Delay
    /\ a.reading \in entries

RedisLimitInv == RedisLimitTypeOK /\ RedisLimitTimely /\ RedisLimitCounted /\ RedisLimit!RedisLimitHolds

\* Fewer admitted requests are within the limit as well.
\* The cardinality in RedisRateLimit is the one of the theorems.
LEMMA RedisLimitCard ==
  \A S : RedisLimit!Cardinality(S) = Cardinality(S) /\ (RedisLimit!IsFiniteSet(S) <=> IsFiniteSet(S))
  BY DEF RedisLimit!Cardinality, Cardinality, RedisLimit!IsFiniteSet, IsFiniteSet

LEMMA RedisLimitFewerHold ==
  ASSUME RedisLimitNumbers, RedisLimitInv, redisLimitAdmitted' \in SUBSET redisLimitAdmitted
  PROVE  RedisLimit!RedisLimitHolds'
<1> DEFINE Old == {a.reading : a \in redisLimitAdmitted}
           New == {a.reading : a \in redisLimitAdmitted'}
<1>1. New \subseteq Old /\ Old \subseteq entries
  BY DEF RedisLimitInv, RedisLimitCounted
<1>2. IsFiniteSet(Old)
  <2> HIDE DEF Old
  <2> QED BY <1>1, FS_Subset DEF RedisLimitInv, RedisLimitTypeOK
<1>3. IsFiniteSet(New) /\ Cardinality(New) <= Cardinality(Old)
  <2> HIDE DEF Old, New
  <2> QED BY <1>1, <1>2, FS_Subset
<1>4. Cardinality(New) \in Nat /\ Cardinality(Old) \in Nat
  <2> HIDE DEF Old, New
  <2> QED BY <1>2, <1>3, FS_CardinalityType
<1>5. Cardinality(Old) <= MaxRequests
  BY RedisLimitCard DEF RedisLimitInv, RedisLimit!RedisLimitHolds
<1>6. Cardinality(New) <= MaxRequests
  <2> HIDE DEF Old, New
  <2> QED BY <1>3, <1>4, <1>5 DEF RedisLimitNumbers
<1> QED BY <1>6, RedisLimitCard DEF RedisLimit!RedisLimitHolds

\* The pipeline drops no reading that counts, and its count is not too small.
LEMMA RedisLimitExecuteKeeps ==
  ASSUME RedisLimitNumbers, RedisLimitInv, NEW r \in RedisLimitRequest, RedisLimit!Execute(r), redisLimitNow' = redisLimitNow
  PROVE  /\ entries' \in SUBSET Int /\ IsFiniteSet(entries') /\ touched' = redisLimitNow
         /\ redisLimitAsking[r].reading \in entries' /\ IsFiniteSet(RedisLimit!Live(redisLimitAsking[r].reading))
         /\ Cardinality(entries') <= Cardinality(RedisLimit!Live(redisLimitAsking[r].reading)) + 1
         /\ \A a \in redisLimitAdmitted : a.reading \in entries' /\ a.at <= touched'
<1> DEFINE reading == redisLimitAsking[r].reading
           live == RedisLimit!Live(reading)
<1>1. /\ redisLimitAsking[r] \in RedisLimitAsked /\ redisLimitAsking[r].sent /\ reading \in Int /\ reading <= redisLimitNow + Skew
      /\ redisLimitNow \in Int /\ entries' = live \cup {reading} /\ touched' = redisLimitNow
  BY DEF RedisLimit!Execute, RedisLimitInv, RedisLimitTypeOK, RedisLimitTimely, RedisLimitAsked
<1>2. live \subseteq entries /\ entries \in SUBSET Int /\ IsFiniteSet(entries)
  BY DEF RedisLimit!Live, RedisLimitInv, RedisLimitTypeOK
<1>3. IsFiniteSet(live)
  <2> HIDE DEF live
  <2> QED BY <1>2, FS_Subset
<1>4. /\ IsFiniteSet(live \cup {reading})
      /\ Cardinality(live \cup {reading}) = IF reading \in live THEN Cardinality(live) ELSE Cardinality(live) + 1
  <2> HIDE DEF live, reading
  <2> QED BY <1>3, FS_AddElement
<1>5. Cardinality(live) \in Nat
  <2> HIDE DEF live
  <2> QED BY <1>3, FS_CardinalityType
<1>6. Cardinality(entries') <= Cardinality(live) + 1
  <2> HIDE DEF live
  <2> QED BY <1>1, <1>4, <1>5
<1>7. ASSUME NEW a \in redisLimitAdmitted PROVE a.reading \in entries' /\ a.at <= touched'
  <2>1. /\ a.reading \in entries /\ a.reading \in Int /\ a.at \in Int /\ a.at <= redisLimitNow
        /\ a.at > redisLimitNow - RedisLimit!Sure /\ a.reading >= a.at - Delay
    BY DEF RedisLimitInv, RedisLimitTypeOK, RedisLimitCounted
  <2>2. a.reading > reading - RedisLimitWindow
    BY <1>1, <2>1 DEF RedisLimit!Sure, RedisLimitNumbers
  <2> QED BY <1>1, <2>1, <2>2 DEF RedisLimit!Live
<1> QED BY <1>1, <1>2, <1>3, <1>4, <1>6, <1>7

LEMMA RedisLimitInvInit == ASSUME RedisLimitNumbers, RedisLimit!Init PROVE RedisLimitInv
<1>1. RedisLimitTypeOK
  BY FS_EmptySet DEF RedisLimit!Init, RedisLimitTypeOK, RedisLimit!Idle, RedisLimitAsked
<1>2. RedisLimitTimely /\ RedisLimitCounted
  BY DEF RedisLimit!Init, RedisLimitTimely, RedisLimitCounted, RedisLimit!Idle
<1>3. {a.reading : a \in redisLimitAdmitted} = {}
  BY DEF RedisLimit!Init
<1>4. Cardinality({a.reading : a \in redisLimitAdmitted}) = 0
  BY <1>3, FS_EmptySet
<1>5. RedisLimit!RedisLimitHolds
  BY <1>4, RedisLimitCard DEF RedisLimit!RedisLimitHolds, RedisLimitNumbers
<1> QED BY <1>1, <1>2, <1>5 DEF RedisLimitInv

LEMMA RedisLimitStepKeeps == ASSUME RedisLimitNumbers, RedisLimitInv, [RedisLimit!Next]_(RedisLimit!redisLimitVars) PROVE RedisLimitInv'
<1> USE DEF RedisLimitInv
<1>1. ASSUME NEW r \in RedisLimitRequest, RedisLimit!Read(r) PROVE RedisLimitInv'
  <2>1. PICK ahead \in 0..Skew :
          redisLimitAsking' = [redisLimitAsking EXCEPT ![r] =
                       [reading |-> redisLimitNow + ahead, began |-> redisLimitNow, waits |-> TRUE, sent |-> TRUE]]
    BY <1>1 DEF RedisLimit!Read
  <2>2. ahead \in Int /\ ahead <= Skew /\ ahead >= 0 /\ redisLimitNow + ahead \in Int /\ redisLimitNow \in Int
    BY <2>1 DEF RedisLimitTypeOK, RedisLimitNumbers
  <2>3. RedisLimitTypeOK'
    BY <1>1, <2>1, <2>2 DEF RedisLimit!Read, RedisLimitTypeOK, RedisLimitAsked
  <2>4. RedisLimitTimely'
    BY <1>1, <2>1, <2>2 DEF RedisLimit!Read, RedisLimitTimely, RedisLimitTypeOK, RedisLimitAsked,
       RedisLimitNumbers
  <2>5. RedisLimitCounted' /\ RedisLimit!RedisLimitHolds'
    BY <1>1, RedisLimitCard DEF RedisLimit!Read, RedisLimitCounted, RedisLimit!RedisLimitHolds,
       RedisLimit!Sure
  <2> QED BY <2>3, <2>4, <2>5
<1>2. ASSUME NEW r \in RedisLimitRequest, RedisLimit!Ask(r) PROVE RedisLimitInv'
  <2> DEFINE reading == redisLimitAsking[r].reading
             new == [reading |-> reading, at |-> redisLimitNow]
  <2>1. /\ RedisLimit!Execute(r) /\ redisLimitAsking[r].waits /\ redisLimitNow' = redisLimitNow
        /\ redisLimitAsking' = [redisLimitAsking EXCEPT ![r] = RedisLimit!Idle]
        /\ redisLimitAdmitted' = IF RedisLimit!Admits(Cardinality(RedisLimit!Live(reading))) THEN redisLimitAdmitted \cup {new} ELSE redisLimitAdmitted
    BY <1>2, RedisLimitCard DEF RedisLimit!Ask
  <2>2. /\ entries' \in SUBSET Int /\ IsFiniteSet(entries') /\ touched' = redisLimitNow
        /\ reading \in entries' /\ IsFiniteSet(RedisLimit!Live(reading))
        /\ Cardinality(entries') <= Cardinality(RedisLimit!Live(reading)) + 1
        /\ \A a \in redisLimitAdmitted : a.reading \in entries' /\ a.at <= touched'
    BY <2>1, RedisLimitExecuteKeeps
  <2>3. /\ redisLimitAsking[r] \in RedisLimitAsked /\ reading \in Int /\ redisLimitNow \in Int
        /\ reading >= redisLimitNow - Delay
    BY <2>1 DEF RedisLimitTypeOK, RedisLimitAsked, RedisLimitTimely, RedisLimitNumbers
  <2>4. RedisLimitTypeOK'
    BY <2>1, <2>2, <2>3 DEF RedisLimitTypeOK, RedisLimitAsked, RedisLimit!Idle
  <2>5. RedisLimitTimely'
    BY <2>1 DEF RedisLimitTimely, RedisLimitTypeOK, RedisLimit!Idle
  <2>6. RedisLimitCounted'
    BY <2>1, <2>2, <2>3 DEF RedisLimitCounted, RedisLimit!Sure, RedisLimitNumbers
  <2>7. RedisLimit!RedisLimitHolds'
    <3>1. CASE RedisLimit!Admits(Cardinality(RedisLimit!Live(reading)))
      <4> DEFINE New == {a.reading : a \in redisLimitAdmitted'}
      <4>1. New \subseteq entries'
        BY <2>6 DEF RedisLimitCounted
      <4>2. IsFiniteSet(New) /\ Cardinality(New) <= Cardinality(entries')
        <5> HIDE DEF New
        <5> QED BY <2>2, <4>1, FS_Subset
      <4>3. /\ Cardinality(New) \in Nat /\ Cardinality(entries') \in Nat
            /\ Cardinality(RedisLimit!Live(reading)) \in Nat
        <5> HIDE DEF New, reading
        <5> QED BY <2>2, <4>2, FS_CardinalityType
      <4>4. Cardinality(New) <= MaxRequests
        <5> HIDE DEF New, reading
        <5> QED BY <2>2, <3>1, <4>2, <4>3 DEF RedisLimit!Admits, RedisLimitNumbers
      <4> QED BY <4>4, RedisLimitCard DEF RedisLimit!RedisLimitHolds
    <3>2. CASE ~RedisLimit!Admits(Cardinality(RedisLimit!Live(reading)))
      BY <2>1, <3>2, RedisLimitFewerHold
    <3> QED BY <3>1, <3>2
  <2> QED BY <2>4, <2>5, <2>6, <2>7
<1>3. ASSUME NEW r \in RedisLimitRequest, RedisLimit!AskUnheard(r) PROVE RedisLimitInv'
  <2>1. /\ RedisLimit!Execute(r) /\ redisLimitNow' = redisLimitNow /\ redisLimitAdmitted' = redisLimitAdmitted
        /\ redisLimitAsking' = redisLimitAsking \/ redisLimitAsking' = [redisLimitAsking EXCEPT ![r] = RedisLimit!Idle]
    BY <1>3 DEF RedisLimit!AskUnheard
  <2>2. /\ entries' \in SUBSET Int /\ IsFiniteSet(entries') /\ touched' = redisLimitNow
        /\ \A a \in redisLimitAdmitted : a.reading \in entries' /\ a.at <= touched'
    BY <2>1, RedisLimitExecuteKeeps
  <2>3. RedisLimitTypeOK'
    <3>1. RedisLimit!Idle \in RedisLimitAsked
      BY DEF RedisLimit!Idle, RedisLimitAsked
    <3>2. redisLimitAsking' \in [RedisLimitRequest -> RedisLimitAsked]
      BY <2>1, <3>1 DEF RedisLimitTypeOK
    <3> QED BY <2>1, <2>2, <3>2 DEF RedisLimitTypeOK
  <2>4. RedisLimitTimely'
    BY <2>1 DEF RedisLimitTimely, RedisLimitTypeOK, RedisLimit!Idle
  <2>5. RedisLimitCounted'
    BY <2>1, <2>2 DEF RedisLimitCounted, RedisLimit!Sure
  <2> QED BY <2>1, <2>3, <2>4, <2>5, RedisLimitFewerHold
<1>4. ASSUME NEW r \in RedisLimitRequest, RedisLimit!AskUnanswered(r) PROVE RedisLimitInv'
  <2>1. /\ UNCHANGED <<redisLimitNow, entries, touched, redisLimitAdmitted>>
        /\ redisLimitAsking' = [redisLimitAsking EXCEPT ![r] = RedisLimit!Idle] \/ redisLimitAsking' = [redisLimitAsking EXCEPT ![r].waits = FALSE]
    BY <1>4 DEF RedisLimit!AskUnanswered
  <2>2. RedisLimitTypeOK'
    <3>1. RedisLimit!Idle \in RedisLimitAsked /\ redisLimitAsking[r] \in RedisLimitAsked
      BY DEF RedisLimit!Idle, RedisLimitAsked, RedisLimitTypeOK
    <3>2. [redisLimitAsking[r] EXCEPT !.waits = FALSE] \in RedisLimitAsked
      BY <3>1 DEF RedisLimitAsked
    <3>3. redisLimitAsking' \in [RedisLimitRequest -> RedisLimitAsked]
      BY <2>1, <3>1, <3>2 DEF RedisLimitTypeOK
    <3> QED BY <2>1, <3>3 DEF RedisLimitTypeOK
  <2>3. RedisLimitTimely'
    BY <2>1 DEF RedisLimitTimely, RedisLimitTypeOK, RedisLimit!Idle, RedisLimitAsked
  <2>4. RedisLimitCounted'
    BY <2>1 DEF RedisLimitCounted, RedisLimit!Sure
  <2> QED BY <2>1, <2>2, <2>3, <2>4, RedisLimitFewerHold
<1>5. CASE RedisLimit!Reset
  <2>1. RedisLimitTypeOK' /\ RedisLimitTimely' /\ RedisLimitCounted'
    BY <1>5, FS_EmptySet DEF RedisLimit!Reset, RedisLimitTypeOK, RedisLimitTimely, RedisLimitCounted
  <2> QED BY <1>5, <2>1, RedisLimitFewerHold DEF RedisLimit!Reset
<1>6. CASE RedisLimit!Expire
  <2>1. ASSUME NEW a \in redisLimitAdmitted PROVE FALSE
    <3>1. /\ a.at \in Int /\ a.at <= touched /\ a.at > redisLimitNow - RedisLimit!Sure
          /\ redisLimitNow >= touched + RedisLimitWindow + 1 /\ redisLimitNow \in Int /\ touched \in Int
      BY <1>6 DEF RedisLimit!Expire, RedisLimitTypeOK, RedisLimitCounted
    <3> QED BY <3>1 DEF RedisLimit!Sure, RedisLimitNumbers
  <2>2. RedisLimitTypeOK' /\ RedisLimitTimely' /\ RedisLimitCounted'
    BY <1>6, <2>1, FS_EmptySet DEF RedisLimit!Expire, RedisLimitTypeOK, RedisLimitTimely,
       RedisLimitCounted
  <2> QED BY <1>6, <2>2, RedisLimitFewerHold DEF RedisLimit!Expire
<1>7. CASE RedisLimit!Tick
  <2>1. /\ redisLimitNow' = redisLimitNow + 1 /\ UNCHANGED <<redisLimitAsking, entries, touched>> /\ redisLimitNow \in Int
        /\ \A r \in RedisLimitRequest : redisLimitAsking[r].waits => redisLimitNow < redisLimitAsking[r].began + Delay
        /\ redisLimitAdmitted' = {a \in redisLimitAdmitted : a.at > redisLimitNow' - RedisLimit!Sure}
    BY <1>7 DEF RedisLimit!Tick, RedisLimitTypeOK
  <2>2. RedisLimitTypeOK'
    BY <2>1 DEF RedisLimitTypeOK
  <2>3. RedisLimitTimely'
    <3> SUFFICES ASSUME NEW r \in RedisLimitRequest
                 PROVE  /\ redisLimitAsking[r].sent => /\ redisLimitAsking[r].reading <= redisLimitNow + 1 + Skew
                                                       /\ redisLimitAsking[r].reading >= redisLimitAsking[r].began
                        /\ redisLimitAsking[r].waits => redisLimitAsking[r].sent /\ redisLimitNow + 1 <= redisLimitAsking[r].began + Delay
      BY <2>1 DEF RedisLimitTimely
    <3>1. redisLimitAsking[r] \in RedisLimitAsked /\ redisLimitAsking[r].reading \in Int /\ redisLimitAsking[r].began \in Int
      BY DEF RedisLimitTypeOK, RedisLimitAsked
    <3> QED BY <2>1, <3>1 DEF RedisLimitTimely, RedisLimitNumbers
  <2>4. RedisLimitCounted'
    BY <2>1 DEF RedisLimitCounted, RedisLimitTypeOK, RedisLimit!Sure
  <2> QED BY <2>1, <2>2, <2>3, <2>4, RedisLimitFewerHold
<1>8. CASE UNCHANGED RedisLimit!redisLimitVars
  BY <1>8, RedisLimitCard DEF RedisLimit!redisLimitVars, RedisLimitTypeOK, RedisLimitTimely,
     RedisLimitCounted, RedisLimit!RedisLimitHolds, RedisLimit!Sure
<1> QED BY <1>1, <1>2, <1>3, <1>4, <1>5, <1>6, <1>7, <1>8 DEF RedisLimit!Next

(* From any number of pods, at most MaxRequests readings are admitted in a     *)
(* sliding window less the wait for Redis and the skew of the clocks           *)
(* (redis_rate_limiter.py 100-130).                                          *)
THEOREM RedisLimitIsKept == ASSUME RedisLimitNumbers PROVE RedisLimit!Spec => []RedisLimit!RedisLimitHolds
<1>1. RedisLimitInv => RedisLimit!RedisLimitHolds
  BY DEF RedisLimitInv
<1> QED BY <1>1, RedisLimitInvInit, RedisLimitStepKeeps, PTL DEF RedisLimit!Spec

-----------------------------------------------------------------------------
(***************************************************************************)
(* The windows of one process.                                               *)
(***************************************************************************)
HttpNumbers ==
  MaxRequests \in Nat /\ MaxBurst \in Nat /\ HttpWindow \in Nat \ {0} /\ MaxTracked \in Nat \ {0}

HttpTypeOK ==
  /\ tracked \in Seq(Remote) /\ excused \in SUBSET Remote
  /\ window \in [Remote -> Seq(Nat)] /\ httpAdmitted \in [Remote -> Seq(0..HttpWindow - 1)]

\* The youngest age is the last one: a window is stale when its last age is.
HttpOrdered == \A c \in Remote : Spaced(window[c], 0)

\* The verdict on a client that never lost a window counts what was admitted.
HttpExact == \A c \in Remote \ excused : httpAdmitted[c] = Http!Live(window[c])

\* A client stays excused for as long as its window counts.
HttpRemembered ==
  \A c \in Remote : \A v \in 1..HttpWindow : Inside(window[c], v) # <<>> => Inside(httpAdmitted[c], v) # <<>>

HttpInv == HttpTypeOK /\ HttpOrdered /\ HttpExact /\ HttpRemembered /\ Http!LimitHolds /\ Http!TrackedBounded

\* Ages in HttpRateLimit are those of the lemmas above.
LEMMA HttpWindows ==
  /\ \A s, S : Http!Kept(s, S) = Kept(s, S)
  /\ \A s, w : Http!Inside(s, w) = Inside(s, w) /\ Http!Aged(s, w) = Aged(s, w)
  /\ \A n, w : Http!Older(n, w) = Older(n, w)
  BY DEF Http!Kept, Kept, Http!Inside, Inside, Http!Aged, Aged, Http!Older, Older

LEMMA HttpLiveType ==
  ASSUME HttpNumbers, NEW s \in Seq(Nat)
  PROVE  /\ Http!Live(s) \in Seq(0..HttpWindow - 1) /\ Http!Live(s) \in Seq(Nat)
         /\ Append(Http!Live(s), 0) \in Seq(0..HttpWindow - 1) /\ Append(Http!Live(s), 0) \in Seq(Nat)
         /\ Http!Live(Http!Live(s)) = Http!Live(s) /\ Http!Live(Append(Http!Live(s), 0)) = Append(Http!Live(s), 0)
         /\ <<>> \in Seq(0..HttpWindow - 1) /\ <<>> \in Seq(Nat)
         /\ Http!Live(<<>>) = <<>>
<1>1. HttpWindow \in Nat /\ HttpWindow > 0 /\ 0 \in 0..HttpWindow - 1
  BY DEF HttpNumbers
<1>2. Http!Live(s) \in Seq(0..HttpWindow - 1) /\ Http!Live(s) \in Seq(Nat)
  BY InsideType, HttpWindows DEF Http!Live
<1>3. Append(Http!Live(s), 0) \in Seq(0..HttpWindow - 1) /\ Append(Http!Live(s), 0) \in Seq(Nat)
  BY <1>1, <1>2
<1>4. Http!Live(Http!Live(s)) = Http!Live(s) /\ Http!Live(Append(Http!Live(s), 0)) = Append(Http!Live(s), 0)
  BY <1>1, <1>2, <1>3, InsideAll, HttpWindows DEF Http!Live
<1>5. <<>> \in Seq(0..HttpWindow - 1) /\ <<>> \in Seq(Nat)
  OBVIOUS
<1>6. Http!Live(<<>>) = <<>>
  BY KeptEmpty, HttpWindows DEF Http!Live, Inside
<1> QED BY <1>2, <1>3, <1>4, <1>5, <1>6

LEMMA HttpLiveSpaced ==
  ASSUME NEW s \in Seq(Nat), Spaced(s, 0)
  PROVE  /\ Spaced(Http!Live(s), 0) /\ Spaced(Append(Http!Live(s), 0), 0) /\ Spaced(<<>>, 0)
<1>1. Spaced(Http!Live(s), 0) /\ Http!Live(s) \in Seq(Nat)
  BY KeptSpaced, InsideType, HttpWindows DEF Http!Live, Inside
<1>2. \A i \in DOMAIN Http!Live(s) : Http!Live(s)[i] >= 0 + 0
  BY <1>1
<1>3. Spaced(Append(Http!Live(s), 0), 0)
  BY <1>1, <1>2, SpacedAppend
<1> QED BY <1>1, <1>3 DEF Spaced

\* A sweep drops nothing that counts.
LEMMA HttpStaleIsEmpty ==
  ASSUME HttpNumbers, HttpInv, NEW c \in Remote, Http!Stale(c)
  PROVE  Http!Live(window[c]) = <<>>
<1> DEFINE s == window[c]  Old == {n \in Nat : n >= HttpWindow}
<1>1. s \in Seq(Nat) /\ Spaced(s, 0) /\ HttpWindow \in Nat
  BY DEF HttpInv, HttpTypeOK, HttpOrdered, HttpNumbers
<1>2. CASE s = <<>>
  BY <1>2, KeptEmpty, HttpWindows DEF Http!Live, Inside
<1>3. CASE s # <<>>
  <2>1. Len(s) \in Nat /\ Len(s) > 0 /\ s[Len(s)] >= HttpWindow /\ DOMAIN s = 1..Len(s)
    BY <1>1, <1>3 DEF Http!Stale, Http!Last
  <2>2. \A i \in 1..Len(s) : s[i] \in Nat
    BY <1>1
  <2>3. ASSUME NEW i \in 1..Len(s) PROVE s[i] \in Old
    <3>1. CASE i = Len(s)
      BY <2>1, <2>2, <3>1
    <3>2. CASE i # Len(s)
      <4>1. i < Len(s) /\ Len(s) \in DOMAIN s /\ i \in DOMAIN s
        BY <2>1, <3>2
      <4>2. s[i] >= s[Len(s)] + 0
        BY <1>1, <4>1 DEF Spaced
      <4> QED BY <1>1, <2>1, <2>2, <4>2
    <3> QED BY <3>1, <3>2
  <2>4. s \in Seq(Old)
    <3>1. s \in [1..Len(s) -> Old]
      BY <1>1, <2>3
    <3> QED BY <2>1, <3>1
  <2>5. Old \cap (0..HttpWindow - 1) = {}
    BY <1>1
  <2> QED BY <2>4, <2>5, KeptNone, HttpWindows DEF Http!Live, Inside
<1> QED BY <1>2, <1>3

LEMMA HttpInvInit == ASSUME HttpNumbers, Http!Init PROVE HttpInv
<1>1. <<>> \in Seq(Remote) /\ <<>> \in Seq(Nat) /\ <<>> \in Seq(0..HttpWindow - 1) /\ Len(<<>>) = 0
  OBVIOUS
<1>2. \A w : Inside(<<>>, w) = <<>>
  BY KeptEmpty DEF Inside
<1>3. Spaced(<<>>, 0)
  BY DEF Spaced
<1> QED BY <1>1, <1>2, <1>3, HttpWindows DEF Http!Init, HttpInv, HttpTypeOK, HttpOrdered, HttpExact,
           HttpRemembered, Http!LimitHolds, Http!TrackedBounded, Http!Live, Http!Burst, HttpNumbers

\* What the sweep and the eviction leave of the dictionary has room for one.
LEMMA HttpBoundedType ==
  ASSUME HttpNumbers, HttpInv
  PROVE  Http!Bounded(Http!Swept) \in Seq(Remote) /\ Len(Http!Bounded(Http!Swept)) < MaxTracked
<1>1. MaxTracked \in Nat /\ MaxTracked > 0 /\ tracked \in Seq(Remote)
  BY DEF HttpInv, HttpTypeOK, HttpNumbers
<1>2. Http!Swept \in Seq(Remote)
  <2> DEFINE S == {c \in Remote : ~Http!Stale(c)}
  <2>1. Kept(tracked, S) \in Seq(Remote \cap S)
    BY <1>1, KeptType
  <2>2. Remote \cap S = S /\ S \in SUBSET Remote
    OBVIOUS
  <2>3. \A t \in Seq(S) : t \in Seq(Remote)
    BY <2>2
  <2> HIDE DEF S
  <2>4. Kept(tracked, S) \in Seq(Remote)
    BY <2>1, <2>2, <2>3
  <2> QED BY <1>1, <2>4, HttpWindows DEF Http!Swept, S
<1>3. ASSUME NEW s \in Seq(Remote)
      PROVE  Http!Bounded(s) \in Seq(Remote) /\ Len(Http!Bounded(s)) < MaxTracked
  <2>1. CASE Len(s) < MaxTracked
    BY <2>1 DEF Http!Bounded
  <2>2. CASE ~(Len(s) < MaxTracked)
    <3> DEFINE m == Len(s) - MaxTracked + 2
    <3>1. Http!Bounded(s) = SubSeq(s, m, Len(s))
      BY <2>2 DEF Http!Bounded
    <3>2. Len(s) \in Nat /\ m \in 2..Len(s) + 1 /\ Len(s) - m + 1 = MaxTracked - 1
          /\ \A i \in 1..Len(s) : s[i] \in Remote
      BY <1>1, <2>2
    <3>3. SubSeq(s, m, Len(s)) = [i \in 1..MaxTracked - 1 |-> s[i + m - 1]]
      BY <1>1, <3>2
    <3>4. \A i \in 1..MaxTracked - 1 : i + m - 1 \in 1..Len(s)
      BY <1>1, <3>2
    <3>5. SubSeq(s, m, Len(s)) \in [1..MaxTracked - 1 -> Remote]
      BY <3>2, <3>3, <3>4
    <3>6. MaxTracked - 1 \in Nat
      BY <1>1
    <3> HIDE DEF m
    <3> DEFINE k == MaxTracked - 1  u == SubSeq(s, m, Len(s))
    <3>7. u \in Seq(Remote) /\ Len(u) = k
      <4>1. k \in Nat /\ u \in [1..k -> Remote]
        BY <3>5, <3>6
      <4> HIDE DEF k, u
      <4> QED BY <4>1
    <3> QED BY <1>1, <3>1, <3>7
  <2> QED BY <2>1, <2>2
<1> QED BY <1>2, <1>3

LEMMA HttpAskKeeps ==
  ASSUME HttpNumbers, HttpInv, NEW c \in Remote, Http!Ask(c)
  PROVE  HttpInv'
<1> DEFINE kept == Http!Bounded(Http!Swept)
           mine == IF c \in Http!ToSet(kept) THEN Http!Live(window[c]) ELSE <<>>
           mineNow == IF Http!Admits(mine) THEN Append(mine, 0) ELSE mine
<1>1. /\ tracked' = IF c \in Http!ToSet(kept) THEN kept ELSE Append(kept, c)
      /\ window' = [d \in Remote |-> IF d = c THEN mineNow
                                     ELSE IF d \in Http!ToSet(kept) THEN window[d] ELSE <<>>]
      /\ excused' = excused \cup {d \in Http!ToSet(tracked) \ Http!ToSet(kept) : ~Http!Stale(d)}
      /\ httpAdmitted' = IF Http!Admits(mine) THEN [httpAdmitted EXCEPT ![c] = Http!Noted(@)] ELSE httpAdmitted
  BY DEF Http!Ask
<1>2. kept \in Seq(Remote) /\ Len(kept) < MaxTracked /\ Len(kept) \in Nat
  BY HttpBoundedType
<1> HIDE DEF kept
<1>3. /\ HttpWindow \in Nat /\ HttpWindow > 0 /\ MaxRequests \in Nat /\ MaxBurst \in Nat
      /\ MaxTracked \in Nat
      /\ window \in [Remote -> Seq(Nat)] /\ httpAdmitted \in [Remote -> Seq(0..HttpWindow - 1)]
      /\ tracked \in Seq(Remote) /\ window[c] \in Seq(Nat) /\ httpAdmitted[c] \in Seq(0..HttpWindow - 1)
  BY DEF HttpInv, HttpTypeOK, HttpNumbers
<1>4. /\ mine \in Seq(0..HttpWindow - 1) /\ mine \in Seq(Nat) /\ Append(mine, 0) \in Seq(0..HttpWindow - 1)
      /\ Append(mine, 0) \in Seq(Nat) /\ Http!Live(mine) = mine /\ Http!Live(Append(mine, 0)) = Append(mine, 0)
  <2>1. CASE c \in Http!ToSet(kept)
    BY <1>3, <2>1, HttpLiveType
  <2>2. CASE c \notin Http!ToSet(kept)
    <3>1. <<>> \in Seq(Nat) /\ Http!Live(<<>>) = <<>>
      BY <1>3, HttpLiveType
    <3>2. mine = Http!Live(<<>>)
      BY <2>2, <3>1
    <3> QED BY <3>1, <3>2, HttpLiveType
  <2> QED BY <2>1, <2>2
<1>5. Spaced(mine, 0) /\ Spaced(Append(mine, 0), 0)
  <2>1. Spaced(window[c], 0) /\ <<>> \in Seq(Nat) /\ Spaced(<<>>, 0)
    BY DEF HttpInv, HttpOrdered, Spaced
  <2>2. CASE c \in Http!ToSet(kept)
    BY <1>3, <2>1, <2>2, HttpLiveSpaced
  <2>3. CASE c \notin Http!ToSet(kept)
    <3>1. mine = Http!Live(<<>>)
      BY <1>3, <2>3, HttpLiveType
    <3> QED BY <2>1, <3>1, HttpLiveSpaced
  <2> QED BY <2>2, <2>3
\* A client that is not excused now lost nothing.
<1>6. ASSUME NEW d \in Remote \ excused', d \notin Http!ToSet(kept)
      PROVE  Http!Live(window[d]) = <<>>
  <2>1. CASE d \in Http!ToSet(tracked)
    BY <1>1, <1>6, <2>1, HttpStaleIsEmpty
  <2>2. CASE d \notin Http!ToSet(tracked)
    <3>1. window[d] = <<>>
      BY <2>2 DEF HttpInv, Http!TrackedBounded
    <3> QED BY <1>3, <3>1, HttpLiveType
  <2> QED BY <2>1, <2>2
<1>7. c \notin excused' => mine = Http!Live(window[c]) /\ httpAdmitted[c] = mine
  <2>1. c \notin excused' => mine = Http!Live(window[c])
    BY <1>6
  <2> QED BY <1>1, <2>1 DEF HttpInv, HttpExact
<1> HIDE DEF mine
<1>8. /\ httpAdmitted' \in [Remote -> Seq(0..HttpWindow - 1)]
      /\ (Http!Admits(mine) => \E t \in Seq(0..HttpWindow - 1) : httpAdmitted'[c] = Append(t, 0))
      /\ \A d \in Remote : d # c => httpAdmitted'[d] = httpAdmitted[d]
      /\ (~Http!Admits(mine) => httpAdmitted'[c] = httpAdmitted[c])
  <2>1. CASE Http!Admits(mine)
    <3>1. httpAdmitted' = [httpAdmitted EXCEPT ![c] = Http!Noted(httpAdmitted[c])]
      BY <1>1, <2>1
    <3>2. \E t \in Seq(0..HttpWindow - 1) : Http!Noted(httpAdmitted[c]) = Append(t, 0)
      <4>1. CASE Len(httpAdmitted[c]) > MaxRequests
        <5>1. httpAdmitted[c] # <<>>
          BY <1>3, <4>1
        <5>2. Tail(httpAdmitted[c]) \in Seq(0..HttpWindow - 1)
          BY <1>3, <5>1
        <5> QED BY <4>1, <5>2 DEF Http!Noted
      <4>2. CASE ~(Len(httpAdmitted[c]) > MaxRequests)
        BY <1>3, <4>2 DEF Http!Noted
      <4> QED BY <4>1, <4>2
    <3>3. 0 \in 0..HttpWindow - 1
      BY <1>3
    <3>4. Http!Noted(httpAdmitted[c]) \in Seq(0..HttpWindow - 1)
      BY <3>2, <3>3
    <3> HIDE DEF Http!Noted
    <3> QED BY <1>3, <2>1, <3>1, <3>2, <3>4
  <2>2. CASE ~Http!Admits(mine)
    BY <1>1, <1>3, <2>2
  <2> QED BY <2>1, <2>2
<1>9. mineNow \in Seq(Nat) /\ Spaced(mineNow, 0) /\ Http!Live(mineNow) = mineNow
  BY <1>4, <1>5
<1>10. /\ window'[c] = mineNow
       /\ \A d \in Remote : d # c => window'[d] = IF d \in Http!ToSet(kept) THEN window[d] ELSE <<>>
  BY <1>1
<1>11. HttpTypeOK'
  <2>1. tracked' \in Seq(Remote)
    BY <1>1, <1>2
  <2>2. excused' \in SUBSET Remote
    BY <1>1, <1>3 DEF HttpInv, HttpTypeOK, Http!ToSet
  <2>3. <<>> \in Seq(Nat)
    OBVIOUS
  <2>4. window' \in [Remote -> Seq(Nat)]
    BY <1>1, <1>3, <1>9, <2>3
  <2> QED BY <1>8, <2>1, <2>2, <2>4 DEF HttpTypeOK
<1>12. HttpOrdered'
  <2>1. Spaced(<<>>, 0)
    BY DEF Spaced
  <2>2. ASSUME NEW d \in Remote PROVE Spaced(window'[d], 0)
    BY <1>9, <1>10, <2>1 DEF HttpInv, HttpOrdered
  <2> QED BY <2>2 DEF HttpOrdered
\* The verdict is about what was admitted.
<1>13. c \notin excused' => /\ httpAdmitted'[c] = mineNow /\ Len(mineNow) <= MaxRequests
                            /\ Http!Burst(mineNow) <= MaxBurst
  <2> SUFFICES ASSUME c \notin excused'
               PROVE  /\ httpAdmitted'[c] = mineNow /\ Len(mineNow) <= MaxRequests
                      /\ Http!Burst(mineNow) <= MaxBurst
    OBVIOUS
  <2>1. httpAdmitted[c] = mine /\ c \notin excused
    BY <1>1, <1>7
  <2>2. Len(mine) <= MaxRequests /\ Http!Burst(mine) <= MaxBurst /\ Len(mine) \in Nat
    BY <1>4, <2>1 DEF HttpInv, Http!LimitHolds
  <2>3. CASE Http!Admits(mine)
    <3>1. Http!Noted(httpAdmitted[c]) = Append(mine, 0)
      BY <1>3, <2>1, <2>2 DEF Http!Noted
    <3>2. httpAdmitted'[c] = Append(mine, 0) /\ mineNow = Append(mine, 0)
      BY <1>1, <1>3, <2>3, <3>1
    <3>3. Len(mine) < MaxRequests /\ Len(Append(mine, 0)) = Len(mine) + 1
      BY <1>4, <2>3 DEF Http!Admits
    <3>4. Inside(Append(mine, 0), 1) = Append(Inside(mine, 1), 0) /\ Inside(mine, 1) \in Seq(Nat)
      <4>1. 1 \in Nat /\ 1 > 0 /\ mine \in Seq(Nat)
        BY <1>4
      <4>2. Inside(mine, 1) \in Seq(Nat)
        BY <4>1, InsideType
      <4>3. Inside(Append(mine, 0), 1) = IF 1 > 0 THEN Append(Inside(mine, 1), 0) ELSE Inside(mine, 1)
        BY <4>1, InsideAppend
      <4> QED BY <4>2, <4>3
    <3>5. Http!Burst(Append(mine, 0)) = Http!Burst(mine) + 1 /\ Http!Burst(mine) \in Nat
      BY <3>4, HttpWindows DEF Http!Burst
    <3>6. Http!Burst(mine) < MaxBurst
      BY <2>3 DEF Http!Admits
    <3> QED BY <1>3, <2>2, <3>2, <3>3, <3>5, <3>6
  <2>4. CASE ~Http!Admits(mine)
    <3>1. mineNow = mine
      BY <2>4
    <3> HIDE DEF mineNow
    <3> QED BY <1>8, <2>1, <2>2, <2>4, <3>1
  <2> QED BY <2>3, <2>4
<1>14. ASSUME NEW d \in Remote \ excused', d # c
       PROVE  /\ httpAdmitted'[d] = httpAdmitted[d] /\ d \notin excused /\ Http!Live(window'[d]) = Http!Live(window[d])
  <2>1. d \notin excused /\ httpAdmitted'[d] = httpAdmitted[d]
    BY <1>1, <1>8, <1>14
  <2>2. CASE d \in Http!ToSet(kept)
    BY <1>10, <1>14, <2>1, <2>2
  <2>3. CASE d \notin Http!ToSet(kept)
    BY <1>3, <1>6, <1>10, <1>14, <2>1, <2>3, HttpLiveType
  <2> QED BY <2>2, <2>3
<1> HIDE DEF mineNow
<1>15. HttpExact'
  <2>1. ASSUME NEW d \in Remote \ excused' PROVE httpAdmitted'[d] = Http!Live(window'[d])
    <3>1. CASE d = c
      BY <1>9, <1>10, <1>13, <3>1
    <3>2. CASE d # c
      BY <1>14, <3>2 DEF HttpInv, HttpExact
    <3> QED BY <3>1, <3>2
  <2> QED BY <2>1 DEF HttpExact
<1>16. Http!LimitHolds'
  <2>1. ASSUME NEW d \in Remote \ excused'
        PROVE  Len(httpAdmitted'[d]) <= MaxRequests /\ Http!Burst(httpAdmitted'[d]) <= MaxBurst
    <3>1. CASE d = c
      BY <1>13, <3>1
    <3>2. CASE d # c
      BY <1>14, <3>2 DEF HttpInv, Http!LimitHolds
    <3> QED BY <3>1, <3>2
  <2>2. \A d \in Remote \ excused' : Http!Burst(httpAdmitted[d])' = Http!Burst(httpAdmitted'[d])
    BY HttpWindows DEF Http!Burst
  <2> QED BY <2>1, <2>2 DEF Http!LimitHolds
<1>17. HttpRemembered'
  <2>1. ASSUME NEW d \in Remote, NEW v \in 1..HttpWindow, Inside(window'[d], v) # <<>>
        PROVE  Inside(httpAdmitted'[d], v) # <<>>
    <3>1. v \in Nat /\ v > 0 /\ v \in Int /\ v <= HttpWindow /\ HttpWindow \in Int
      BY <1>3
    <3>2. Inside(<<>>, v) = <<>>
      BY KeptEmpty DEF Inside
    <3>3. CASE d = c /\ Http!Admits(mine)
      <4>1. PICK t \in Seq(0..HttpWindow - 1) : httpAdmitted'[c] = Append(t, 0)
        BY <1>8, <3>3
      <4>2. t \in Seq(Nat)
        <5>1. \A u \in Seq(0..HttpWindow - 1) : u \in Seq(Nat)
          BY <1>3
        <5> QED BY <5>1
      <4>3. Inside(Append(t, 0), v) = Append(Inside(t, v), 0) /\ Inside(t, v) \in Seq(Nat)
        BY <3>1, <4>2, InsideAppend, InsideType
      <4>4. Append(Inside(t, v), 0) # <<>>
        BY <4>3
      <4> QED BY <3>3, <4>1, <4>3, <4>4
    <3>4. CASE d = c /\ ~Http!Admits(mine)
      <4>1. window'[c] = mine /\ httpAdmitted'[c] = httpAdmitted[c]
        <5>1. ~Http!Admits(mine)
          BY <3>4
        <5>2. mineNow = mine
          BY <5>1 DEF mineNow
        <5> QED BY <1>8, <1>10, <5>1, <5>2
      <4>2. CASE c \in Http!ToSet(kept)
        <5>1. Inside(mine, v) = Inside(window[c], v)
          BY <1>3, <3>1, <4>2, InsideInside, HttpWindows DEF mine, Http!Live
        <5> QED BY <2>1, <3>4, <4>1, <5>1 DEF HttpInv, HttpRemembered
      <4>3. CASE c \notin Http!ToSet(kept)
        BY <2>1, <3>2, <3>4, <4>1, <4>3 DEF mine
      <4> QED BY <4>2, <4>3
    <3>5. CASE d # c
      BY <1>8, <1>10, <2>1, <3>2, <3>5 DEF HttpInv, HttpRemembered
    <3> QED BY <3>3, <3>4, <3>5
  <2> QED BY <2>1 DEF HttpRemembered
<1>18. Http!TrackedBounded'
  <2>1. Len(tracked') <= MaxTracked
    BY <1>1, <1>2, <1>3
  <2>2. c \in Http!ToSet(tracked') /\ \A d \in Http!ToSet(kept) : d \in Http!ToSet(tracked')
    BY <1>1, <1>2 DEF Http!ToSet
  <2>3. ASSUME NEW d \in Remote, window'[d] # <<>> PROVE d \in Http!ToSet(tracked')
    BY <1>10, <2>2, <2>3
  <2> QED BY <2>1, <2>3 DEF Http!TrackedBounded, Http!ToSet
<1> QED BY <1>11, <1>12, <1>15, <1>16, <1>17, <1>18 DEF HttpInv

LEMMA HttpTickKeeps ==
  ASSUME HttpNumbers, HttpInv, Http!Tick
  PROVE  HttpInv'
<1>1. /\ window' = [c \in Remote |-> Aged(window[c], HttpWindow)]
      /\ httpAdmitted' = [c \in Remote |-> Http!Live(Aged(httpAdmitted[c], HttpWindow))]
      /\ excused' = {c \in excused : httpAdmitted'[c] # <<>>}
      /\ tracked' = tracked
  BY HttpWindows DEF Http!Tick
<1>2. /\ HttpWindow \in Nat /\ HttpWindow > 0 /\ MaxRequests \in Nat /\ MaxBurst \in Nat
      /\ window \in [Remote -> Seq(Nat)] /\ httpAdmitted \in [Remote -> Seq(0..HttpWindow - 1)]
      /\ tracked \in Seq(Remote) /\ excused \in SUBSET Remote
  BY DEF HttpInv, HttpTypeOK, HttpNumbers
<1>3. ASSUME NEW c \in Remote
      PROVE  /\ window[c] \in Seq(Nat) /\ httpAdmitted[c] \in Seq(Nat) /\ httpAdmitted[c] \in Seq(0..HttpWindow - 1)
             /\ window'[c] = Aged(window[c], HttpWindow) /\ window'[c] \in Seq(Nat)
             /\ Len(window'[c]) = Len(window[c])
             /\ Aged(httpAdmitted[c], HttpWindow) \in Seq(Nat)
             /\ httpAdmitted'[c] = Http!Live(Aged(httpAdmitted[c], HttpWindow))
             /\ httpAdmitted'[c] \in Seq(0..HttpWindow - 1)
             /\ Len(httpAdmitted'[c]) <= Len(httpAdmitted[c]) /\ Len(httpAdmitted[c]) \in Nat
             /\ Len(httpAdmitted'[c]) \in Nat
  <2>1. window[c] \in Seq(Nat) /\ httpAdmitted[c] \in Seq(Nat) /\ httpAdmitted[c] \in Seq(0..HttpWindow - 1)
    BY <1>2
  <2>2. /\ Aged(window[c], HttpWindow) \in Seq(Nat) /\ Len(Aged(window[c], HttpWindow)) = Len(window[c])
        /\ Aged(httpAdmitted[c], HttpWindow) \in Seq(Nat)
        /\ Len(Aged(httpAdmitted[c], HttpWindow)) = Len(httpAdmitted[c])
    BY <1>2, <2>1, AgedType
  <2>3. /\ Http!Live(Aged(httpAdmitted[c], HttpWindow)) \in Seq(0..HttpWindow - 1)
        /\ Len(Http!Live(Aged(httpAdmitted[c], HttpWindow))) <= Len(Aged(httpAdmitted[c], HttpWindow))
        /\ Len(Http!Live(Aged(httpAdmitted[c], HttpWindow))) \in Nat
    BY <2>2, InsideType, HttpWindows DEF Http!Live
  <2> QED BY <1>1, <2>1, <2>2, <2>3
<1>4. HttpTypeOK'
  BY <1>1, <1>2, <1>3 DEF HttpTypeOK
<1>5. HttpOrdered'
  <2>1. ASSUME NEW c \in Remote PROVE Spaced(window'[c], 0)
    BY <1>2, <1>3, AgedSpaced DEF HttpInv, HttpOrdered
  <2> QED BY <2>1 DEF HttpOrdered
<1>6. ASSUME NEW c \in Remote, NEW v \in 1..HttpWindow
      PROVE  /\ Len(Inside(window'[c], v)) = Len(Inside(window[c], v - 1))
             /\ Len(Inside(httpAdmitted'[c], v)) = Len(Inside(httpAdmitted[c], v - 1))
             /\ Inside(window[c], v - 1) \in Seq(Nat) /\ Inside(httpAdmitted[c], v - 1) \in Seq(Nat)
             /\ Inside(window'[c], v) \in Seq(Nat) /\ Inside(httpAdmitted'[c], v) \in Seq(Nat)
  <2>1. v \in Nat /\ v <= HttpWindow /\ v \in Int /\ HttpWindow \in Int
    BY <1>2
  <2>2. Len(Inside(window'[c], v)) = Len(Inside(window[c], v - 1))
    <3>1. window[c] \in Seq(Nat) /\ window'[c] = Aged(window[c], HttpWindow)
      BY <1>3
    <3>2. Len(Inside(Aged(window[c], HttpWindow), v)) = Len(Inside(window[c], v - 1))
      BY <1>2, <2>1, <3>1, AgedInsideLen
    <3> QED BY <3>1, <3>2
  <2>3. Inside(httpAdmitted'[c], v) = Inside(Aged(httpAdmitted[c], HttpWindow), v)
    <3>1. Aged(httpAdmitted[c], HttpWindow) \in Seq(Nat) /\ httpAdmitted'[c] = Inside(Aged(httpAdmitted[c], HttpWindow), HttpWindow)
      BY <1>3, HttpWindows DEF Http!Live
    <3>2. Inside(Inside(Aged(httpAdmitted[c], HttpWindow), HttpWindow), v) = Inside(Aged(httpAdmitted[c], HttpWindow), v)
      BY <2>1, <3>1, InsideInside
    <3> QED BY <3>1, <3>2
  <2>4. Len(Inside(httpAdmitted'[c], v)) = Len(Inside(httpAdmitted[c], v - 1))
    <3>1. httpAdmitted[c] \in Seq(Nat)
      BY <1>3
    <3>2. Len(Inside(Aged(httpAdmitted[c], HttpWindow), v)) = Len(Inside(httpAdmitted[c], v - 1))
      BY <1>2, <2>1, <3>1, AgedInsideLen
    <3> QED BY <2>3, <3>2
  <2>5. Inside(window[c], v - 1) \in Seq(Nat) /\ Inside(httpAdmitted[c], v - 1) \in Seq(Nat)
        /\ Inside(window'[c], v) \in Seq(Nat) /\ Inside(Aged(httpAdmitted[c], HttpWindow), v) \in Seq(Nat)
    BY <1>3, InsideType
  <2> QED BY <2>2, <2>3, <2>4, <2>5
<1>7. HttpRemembered'
  <2>1. ASSUME NEW c \in Remote, NEW v \in 1..HttpWindow, Inside(window'[c], v) # <<>>
        PROVE  Inside(httpAdmitted'[c], v) # <<>>
    <3>1. Len(Inside(window'[c], v)) > 0
      BY <1>6, <2>1
    <3>2. Len(Inside(window[c], v - 1)) > 0
      BY <1>6, <3>1
    <3>3. Inside(window[c], v - 1) # <<>>
      BY <3>2
    <3>4. v - 1 \in 1..HttpWindow
      <4>1. CASE v = 1
        <5>1. v - 1 \in Int /\ v - 1 <= 0
          BY <4>1
        <5> QED BY <1>3, <3>3, <5>1, InsideNone
      <4>2. CASE v # 1
        BY <1>2, <4>2
      <4> QED BY <4>1, <4>2
    <3>5. Inside(httpAdmitted[c], v - 1) # <<>>
      BY <3>3, <3>4 DEF HttpInv, HttpRemembered
    <3>6. Len(Inside(httpAdmitted[c], v - 1)) > 0
      BY <1>6, <3>5
    <3>7. Len(Inside(httpAdmitted'[c], v)) > 0
      BY <1>6, <3>6
    <3> QED BY <3>7
  <2> QED BY <2>1 DEF HttpRemembered
<1>8. HttpExact'
  <2>1. ASSUME NEW c \in Remote \ excused' PROVE httpAdmitted'[c] = Http!Live(window'[c])
    <3>1. CASE c \in excused
      <4>1. httpAdmitted'[c] = <<>>
        BY <1>1, <2>1, <3>1
      <4>2. HttpWindow \in 1..HttpWindow
        BY <1>2
      <4>3. Inside(httpAdmitted'[c], HttpWindow) = <<>>
        BY <4>1, KeptEmpty DEF Inside
      <4>4. Inside(window'[c], HttpWindow) = <<>>
        BY <1>7, <4>2, <4>3 DEF HttpRemembered
      <4> QED BY <4>1, <4>4, HttpWindows DEF Http!Live
    <3>2. CASE c \notin excused
      <4>1. httpAdmitted[c] = Http!Live(window[c])
        BY <3>2 DEF HttpInv, HttpExact
      <4> QED BY <1>2, <1>3, <4>1, AgedPruned, HttpWindows DEF Http!Live
    <3> QED BY <3>1, <3>2
  <2> QED BY <2>1, HttpWindows DEF HttpExact, Http!Live
<1>9. Http!LimitHolds'
  <2>1. ASSUME NEW c \in Remote \ excused'
        PROVE  Len(httpAdmitted'[c]) <= MaxRequests /\ Http!Burst(httpAdmitted'[c]) <= MaxBurst
    <3>1. Http!Burst(httpAdmitted'[c]) <= MaxBurst
      <4>1. 1 \in 1..HttpWindow /\ 1 - 1 \in Int /\ 1 - 1 <= 0
        BY <1>2
      <4>2. Inside(httpAdmitted[c], 1 - 1) = <<>>
        BY <1>3, <4>1, InsideNone
      <4>3. Len(Inside(httpAdmitted'[c], 1)) = Len(Inside(httpAdmitted[c], 1 - 1))
        BY <1>6, <4>1
      <4> QED BY <1>2, <4>2, <4>3, HttpWindows DEF Http!Burst
    <3>2. CASE c \in excused
      <4>1. httpAdmitted'[c] = <<>>
        BY <1>1, <2>1, <3>2
      <4>2. Len(<<>>) = 0
        OBVIOUS
      <4> QED BY <1>2, <3>1, <4>1, <4>2
    <3>3. CASE c \notin excused
      <4>1. Len(httpAdmitted[c]) <= MaxRequests
        BY <3>3 DEF HttpInv, Http!LimitHolds
      <4> QED BY <1>2, <1>3, <3>1, <4>1
    <3> QED BY <3>2, <3>3
  <2> QED BY <2>1, HttpWindows DEF Http!LimitHolds, Http!Burst
<1>10. Http!TrackedBounded'
  <2>1. Len(tracked) <= MaxTracked
    BY DEF HttpInv, Http!TrackedBounded
  <2>2. ASSUME NEW c \in Remote, window'[c] # <<>> PROVE c \in Http!ToSet(tracked)
    <3>1. Len(window'[c]) # 0
      BY <1>3, <2>2
    <3>2. Len(window[c]) # 0
      BY <1>3, <3>1
    <3>3. window[c] # <<>>
      BY <3>2
    <3> QED BY <3>3 DEF HttpInv, Http!TrackedBounded
  <2> QED BY <1>1, <2>1, <2>2 DEF Http!TrackedBounded
<1> QED BY <1>4, <1>5, <1>7, <1>8, <1>9, <1>10 DEF HttpInv

LEMMA HttpStepKeeps == ASSUME HttpNumbers, HttpInv, [Http!Next]_(Http!httpVars) PROVE HttpInv'
<1>1. CASE UNCHANGED Http!httpVars
  BY <1>1, HttpWindows DEF Http!httpVars, HttpInv, HttpTypeOK, HttpOrdered, HttpExact,
     HttpRemembered, Http!LimitHolds, Http!TrackedBounded, Http!Live, Http!Burst
<1> QED BY <1>1, HttpAskKeeps, HttpTickKeeps DEF Http!Next

(* The limit and the burst hold in every sliding window for each client that   *)
(* no eviction gave a fresh window (rate_limit.py 20-28, 177-228).             *)
THEOREM HttpLimitIsKept == ASSUME HttpNumbers PROVE Http!Spec => []Http!LimitHolds
<1>1. HttpInv => Http!LimitHolds
  BY DEF HttpInv
<1> QED BY <1>1, HttpInvInit, HttpStepKeeps, PTL DEF Http!Spec

(* The dictionary stays bounded, and no live window is outside it              *)
(* (rate_limit.py 177-204).                                                    *)
THEOREM HttpWindowsAreBounded == ASSUME HttpNumbers PROVE Http!Spec => []Http!TrackedBounded
<1>1. HttpInv => Http!TrackedBounded
  BY DEF HttpInv
<1> QED BY <1>1, HttpInvInit, HttpStepKeeps, PTL DEF Http!Spec

-----------------------------------------------------------------------------
LEMMA HttpLastKept ==
  ASSUME NEW E, NEW written \in Seq(E), NEW seen \in E, NEW S, seen \in S
  PROVE  /\ Kept(Append(written, seen), S) # <<>>
         /\ Http!Last(Kept(Append(written, seen), S)) = seen
<1>1. Kept(Append(written, seen), S) = Append(Kept(written, S), seen)
  BY KeptAppend
<1>2. Kept(written, S) \in Seq(E \cap S) /\ seen \in E \cap S
  BY KeptType
<1> QED BY <1>1, <1>2 DEF Http!Last

LEMMA HttpLastIsIn ==
  ASSUME NEW E, NEW w \in Seq(E), NEW seen \in E
  PROVE  Append(w, seen) # <<>> /\ seen \in Http!ToSet(Append(w, seen))
<1>1. /\ Len(Append(w, seen)) = Len(w) + 1 /\ Len(w) \in Nat
      /\ Append(w, seen)[Len(w) + 1] = seen
      /\ DOMAIN Append(w, seen) = 1..Len(w) + 1
  OBVIOUS
<1>2. Len(w) + 1 \in 1..Len(w) + 1 /\ Append(w, seen) # <<>>
  BY <1>1
<1> QED BY <1>1, <1>2 DEF Http!ToSet

(* A client cannot choose its bucket by what it writes into the forwarded     *)
(* chain (rate_limit.py 83-152).                                              *)
THEOREM BucketIsTheSeenAddress ==
  ASSUME NEW direct, NEW seen, NEW written \in Seq(STRING), NEW real, NEW trusted,
         seen \in STRING
  PROVE  Http!BucketIsNotChosen(direct, seen, written, real, trusted)
<1>1. ASSUME direct \in trusted, seen \notin trusted \cup {""}
      PROVE  Http!ClientId(direct, Append(written, seen), real, trusted)
               = Http!ClientId(direct, <<seen>>, "", trusted)
  <2> DEFINE Chain(s) == Kept(s, Http!ToSet(s) \ (trusted \cup {""}))
  <2>1. <<>> \in Seq(STRING) /\ <<seen>> = Append(<<>>, seen)
    OBVIOUS
  <2>2. ASSUME NEW w \in Seq(STRING)
        PROVE  /\ Append(w, seen) # <<>> /\ Chain(Append(w, seen)) # <<>>
               /\ Http!Last(Chain(Append(w, seen))) = seen
    <3>1. Append(w, seen) # <<>> /\ seen \in Http!ToSet(Append(w, seen))
      BY HttpLastIsIn
    <3>2. seen \in Http!ToSet(Append(w, seen)) \ (trusted \cup {""})
      BY <1>1, <3>1
    <3> DEFINE S == Http!ToSet(Append(w, seen)) \ (trusted \cup {""})
    <3>3. Kept(Append(w, seen), S) # <<>> /\ Http!Last(Kept(Append(w, seen), S)) = seen
      <4>1. seen \in S
        BY <3>2
      <4> HIDE DEF S
      <4> QED BY <4>1, HttpLastKept
    <3> QED BY <3>1, <3>3
  <2>3. ASSUME NEW w \in Seq(STRING), NEW r
        PROVE  Http!ClientId(direct, Append(w, seen), r, trusted) = IF seen # "bad" THEN seen ELSE direct
    BY <1>1, <2>2, HttpWindows DEF Http!ClientId
  <2> QED BY <2>1, <2>3
<1>2. ASSUME direct \notin trusted
      PROVE  Http!ClientId(direct, written, real, trusted) = Http!ClientId(direct, <<>>, "", trusted)
  BY <1>2, HttpWindows DEF Http!ClientId
<1> QED BY <1>1, <1>2 DEF Http!BucketIsNotChosen

-----------------------------------------------------------------------------
(***************************************************************************)
(* The brake on failed logins.                                               *)
(***************************************************************************)
LoginsNumbers ==
  /\ IsFiniteSet(LoginsLogin) /\ NoLogin \notin Address \X Name
  /\ Limit \in Nat \ {0} /\ IpLimit \in Nat \ {0} /\ LoginsWindow \in Nat \ {0}

LoginsTypeOK ==
  /\ failures \in [Address \X Name -> Seq(0..LoginsWindow - 1)]
  /\ ipFailures \in [Address -> Seq(0..LoginsWindow - 1)]
  /\ verifying \in [LoginsLogin -> (Address \X Name) \cup {NoLogin}]

\* The gate forgets nothing too early: what it counts are the wrong passwords of
\* the window.
LoginsCounted == guessed = failures /\ tried = ipFailures

LoginsInv == LoginsTypeOK /\ LoginsCounted /\ Logins!GuessesBounded

LoginsUnder(pairs) == {l \in LoginsLogin : verifying[l] \in pairs}

\* What the gate and a tick keep of the ages is of the window.
\* The cardinality in LoginGate is the one of the theorems.
\* Ages in LoginGate are those of the lemmas above.
LEMMA LoginsWindows ==
  /\ \A s, S : Logins!Kept(s, S) = Kept(s, S)
  /\ \A s, w : Logins!Inside(s, w) = Inside(s, w) /\ Logins!Aged(s, w) = Aged(s, w)
  /\ \A n, w : Logins!Older(n, w) = Older(n, w)
  BY DEF Logins!Kept, Kept, Logins!Inside, Inside, Logins!Aged, Aged, Logins!Older, Older

LEMMA LoginsCard ==
  \A S : Logins!Cardinality(S) = Cardinality(S) /\ (Logins!IsFiniteSet(S) <=> IsFiniteSet(S))
  BY DEF Logins!Cardinality, Cardinality, Logins!IsFiniteSet, IsFiniteSet

LEMMA LoginsRecentType ==
  ASSUME LoginsNumbers, NEW s \in Seq(0..LoginsWindow - 1)
  PROVE  /\ Logins!Recent(s) = s /\ Append(s, 0) \in Seq(0..LoginsWindow - 1) /\ <<>> \in Seq(0..LoginsWindow - 1)
         /\ Logins!Recent(Aged(s, LoginsWindow)) \in Seq(0..LoginsWindow - 1)
         /\ Len(Logins!Recent(Aged(s, LoginsWindow))) <= Len(s)
         /\ Len(Logins!Recent(Aged(s, LoginsWindow))) \in Nat /\ Len(s) \in Nat
<1>1. LoginsWindow \in Nat /\ s \in Seq(Nat) /\ 0 \in 0..LoginsWindow - 1 /\ <<>> \in Seq(0..LoginsWindow - 1)
      /\ Len(s) \in Nat
  BY DEF LoginsNumbers
<1>2. Logins!Recent(s) = s
  BY <1>1, InsideAll, LoginsWindows DEF Logins!Recent
<1>3. Aged(s, LoginsWindow) \in Seq(Nat) /\ Len(Aged(s, LoginsWindow)) = Len(s)
  BY <1>1, AgedType
<1>4. Append(s, 0) \in Seq(0..LoginsWindow - 1)
  BY <1>1
<1>5. /\ Logins!Recent(Aged(s, LoginsWindow)) \in Seq(0..LoginsWindow - 1)
      /\ Len(Logins!Recent(Aged(s, LoginsWindow))) <= Len(s) /\ Len(Logins!Recent(Aged(s, LoginsWindow))) \in Nat
  BY <1>3, InsideType, LoginsWindows DEF Logins!Recent
<1> QED BY <1>1, <1>2, <1>4, <1>5

LEMMA LoginsUnderNumbers ==
  ASSUME LoginsNumbers, NEW pairs
  PROVE  /\ IsFiniteSet(LoginsUnder(pairs)) /\ Logins!Others(pairs) = Cardinality(LoginsUnder(pairs))
         /\ Logins!Others(pairs) \in Nat /\ Cardinality(LoginsLogin) \in Nat
         /\ Logins!Others(pairs) <= Cardinality(LoginsLogin)
  BY FS_Subset, FS_CardinalityType, LoginsCard DEF LoginsUnder, Logins!Others, LoginsNumbers

\* A login that comes under way counts once, where its pair does.
LEMMA LoginsUnderEnters ==
  ASSUME LoginsNumbers, LoginsInv, NEW l \in LoginsLogin, NEW p \in Address \X Name,
         verifying[l] = NoLogin, verifying' = [verifying EXCEPT ![l] = p],
         NEW pairs \in SUBSET (Address \X Name)
  PROVE  /\ Logins!Others(pairs)' <= Cardinality(LoginsLogin) /\ Logins!Others(pairs)' \in Nat
         /\ p \notin pairs => Logins!Others(pairs)' = Logins!Others(pairs)
<1>1. verifying \in [LoginsLogin -> (Address \X Name) \cup {NoLogin}] /\ NoLogin \notin pairs
  BY DEF LoginsInv, LoginsTypeOK, LoginsNumbers
<1>2. LoginsUnder(pairs)' \in SUBSET LoginsLogin /\ Logins!Others(pairs)' = Cardinality(LoginsUnder(pairs)')
  BY LoginsCard DEF LoginsUnder, Logins!Others
<1>3. p \notin pairs => LoginsUnder(pairs)' = LoginsUnder(pairs)
  BY <1>1 DEF LoginsUnder
<1>4. IsFiniteSet(LoginsLogin)
  BY DEF LoginsNumbers
<1>5. Cardinality(LoginsUnder(pairs)') <= Cardinality(LoginsLogin) /\ IsFiniteSet(LoginsUnder(pairs)')
  BY <1>2, <1>4, FS_Subset
<1> QED BY <1>2, <1>3, <1>5, FS_CardinalityType, LoginsUnderNumbers

\* A login that ends counts no more.
LEMMA LoginsUnderLeaves ==
  ASSUME LoginsNumbers, LoginsInv, NEW l \in LoginsLogin, verifying[l] # NoLogin,
         verifying' = [verifying EXCEPT ![l] = NoLogin],
         NEW pairs \in SUBSET (Address \X Name)
  PROVE  /\ Logins!Others(pairs)' \in Nat
         /\ Logins!Others(pairs)' = IF verifying[l] \in pairs THEN Logins!Others(pairs) - 1 ELSE Logins!Others(pairs)
<1>1. verifying \in [LoginsLogin -> (Address \X Name) \cup {NoLogin}] /\ NoLogin \notin pairs
  BY DEF LoginsInv, LoginsTypeOK, LoginsNumbers
<1>2. LoginsUnder(pairs)' = LoginsUnder(pairs) \ {l} /\ (l \in LoginsUnder(pairs) <=> verifying[l] \in pairs)
  BY <1>1 DEF LoginsUnder
<1>3. /\ IsFiniteSet(LoginsUnder(pairs)) /\ Logins!Others(pairs) = Cardinality(LoginsUnder(pairs))
      /\ Logins!Others(pairs)' = Cardinality(LoginsUnder(pairs)') /\ Logins!Others(pairs) \in Nat
  BY LoginsUnderNumbers, LoginsCard DEF Logins!Others, LoginsUnder
<1>4. /\ IsFiniteSet(LoginsUnder(pairs) \ {l})
      /\ Cardinality(LoginsUnder(pairs) \ {l})
           = IF l \in LoginsUnder(pairs) THEN Cardinality(LoginsUnder(pairs)) - 1 ELSE Cardinality(LoginsUnder(pairs))
  BY <1>3, FS_RemoveElement
<1>5. Cardinality(LoginsUnder(pairs)') \in Nat
  BY <1>2, <1>4, FS_CardinalityType
<1> QED BY <1>2, <1>3, <1>4, <1>5

LEMMA LoginsInvInit == ASSUME LoginsNumbers, Logins!Init PROVE LoginsInv
<1>1. <<>> \in Seq(0..LoginsWindow - 1) /\ Len(<<>>) = 0
  OBVIOUS
<1>2. ASSUME NEW pairs \in SUBSET (Address \X Name) PROVE Logins!Others(pairs) = 0
  <2>1. \A l \in LoginsLogin : verifying[l] \notin pairs
    BY DEF Logins!Init, LoginsNumbers
  <2>2. {l \in LoginsLogin : verifying[l] \in pairs} = {}
    BY <2>1
  <2> QED BY <2>2, FS_EmptySet, LoginsCard DEF Logins!Others
<1>3. Cardinality(LoginsLogin) \in Nat
  BY FS_CardinalityType DEF LoginsNumbers
<1>4. LoginsTypeOK /\ LoginsCounted
  BY <1>1 DEF Logins!Init, LoginsTypeOK, LoginsCounted, Logins!Pair
<1>5. ASSUME NEW p \in Address \X Name
      PROVE  Len(guessed[p]) + Logins!Others({p}) < Limit + Cardinality(LoginsLogin)
  <2>1. Logins!Others({p}) = 0 /\ guessed[p] = <<>>
    BY <1>2 DEF Logins!Init, Logins!Pair
  <2> QED BY <1>1, <1>3, <2>1 DEF LoginsNumbers
<1>6. ASSUME NEW a \in Address
      PROVE  Len(tried[a]) + Logins!Others({a} \X Name) < IpLimit + Cardinality(LoginsLogin)
  <2>1. Logins!Others({a} \X Name) = 0 /\ tried[a] = <<>>
    BY <1>2 DEF Logins!Init
  <2> QED BY <1>1, <1>3, <2>1 DEF LoginsNumbers
<1> QED BY <1>4, <1>5, <1>6, LoginsCard DEF LoginsInv, Logins!GuessesBounded, Logins!Pair

\* The gate prunes nothing that counts.
LEMMA LoginsGatePrunes ==
  ASSUME LoginsNumbers, LoginsInv, NEW p \in Address \X Name
  PROVE  /\ [failures EXCEPT ![p] = Logins!Recent(@)] = failures
         /\ [ipFailures EXCEPT ![p[1]] = Logins!Recent(@)] = ipFailures
<1>1. /\ failures \in [Address \X Name -> Seq(0..LoginsWindow - 1)] /\ p[1] \in Address
      /\ ipFailures \in [Address -> Seq(0..LoginsWindow - 1)]
  BY DEF LoginsInv, LoginsTypeOK
<1>2. Logins!Recent(failures[p]) = failures[p] /\ Logins!Recent(ipFailures[p[1]]) = ipFailures[p[1]]
  BY <1>1, LoginsRecentType
<1> QED BY <1>1, <1>2

LEMMA LoginsGateKeeps ==
  ASSUME LoginsNumbers, LoginsInv, NEW l \in LoginsLogin, NEW p \in Address \X Name, Logins!Gate(l, p)
  PROVE  LoginsInv'
<1>1. /\ failures' = failures /\ ipFailures' = ipFailures /\ guessed' = guessed /\ tried' = tried
      /\ verifying[l] = NoLogin
      /\ verifying' = IF Logins!Open(p) THEN [verifying EXCEPT ![l] = p] ELSE verifying
  BY LoginsGatePrunes DEF Logins!Gate
<1>2. CASE ~Logins!Open(p)
  BY <1>1, <1>2, LoginsCard DEF LoginsInv, LoginsTypeOK, LoginsCounted, Logins!GuessesBounded,
     Logins!Others
<1>3. CASE Logins!Open(p)
  <2>1. verifying' = [verifying EXCEPT ![l] = p]
    BY <1>1, <1>3
  <2>2. LoginsTypeOK' /\ LoginsCounted'
    BY <1>1, <2>1 DEF LoginsInv, LoginsTypeOK, LoginsCounted
  <2>3. /\ Len(Logins!Recent(failures[p])) < Limit /\ Logins!Recent(failures[p]) = failures[p]
        /\ Len(Logins!Recent(ipFailures[p[1]])) < IpLimit /\ Logins!Recent(ipFailures[p[1]]) = ipFailures[p[1]]
        /\ p[1] \in Address
    BY <1>3, LoginsRecentType DEF Logins!Open, LoginsInv, LoginsTypeOK
  <2>4. Cardinality(LoginsLogin) \in Nat /\ Limit \in Nat /\ IpLimit \in Nat
    BY FS_CardinalityType DEF LoginsNumbers
  <2>5. ASSUME NEW q \in Address \X Name
        PROVE  (Len(guessed[q]) + Logins!Others({q}) < Limit + Cardinality(LoginsLogin))'
    <3>1. Logins!Others({q})' <= Cardinality(LoginsLogin) /\ Logins!Others({q})' \in Nat
          /\ (p # q => Logins!Others({q})' = Logins!Others({q}))
      BY <1>1, <2>1, LoginsUnderEnters
    <3>2. CASE q = p
      <4>1. Len(guessed'[q]) < Limit /\ Len(guessed'[q]) \in Nat
        BY <1>1, <2>3, <3>2 DEF LoginsInv, LoginsTypeOK, LoginsCounted
      <4> QED BY <2>4, <3>1, <4>1
    <3>3. CASE q # p
      BY <1>1, <3>1, <3>3, LoginsCard DEF LoginsInv, Logins!GuessesBounded, Logins!Pair
    <3> QED BY <3>2, <3>3
  <2>6. ASSUME NEW a \in Address
        PROVE  (Len(tried[a]) + Logins!Others({a} \X Name) < IpLimit + Cardinality(LoginsLogin))'
    <3>1. {a} \X Name \in SUBSET (Address \X Name) /\ (p \in {a} \X Name <=> p[1] = a)
      OBVIOUS
    <3>2. /\ Logins!Others({a} \X Name)' <= Cardinality(LoginsLogin) /\ Logins!Others({a} \X Name)' \in Nat
          /\ (p[1] # a => Logins!Others({a} \X Name)' = Logins!Others({a} \X Name))
      BY <1>1, <2>1, <3>1, LoginsUnderEnters
    <3>3. CASE a = p[1]
      <4>1. Len(tried'[a]) < IpLimit /\ Len(tried'[a]) \in Nat
        BY <1>1, <2>3, <3>3 DEF LoginsInv, LoginsTypeOK, LoginsCounted
      <4> QED BY <2>4, <3>2, <4>1
    <3>4. CASE a # p[1]
      BY <1>1, <3>2, <3>4, LoginsCard DEF LoginsInv, Logins!GuessesBounded
    <3> QED BY <3>3, <3>4
  <2> QED BY <2>2, <2>5, <2>6, LoginsCard DEF LoginsInv, Logins!GuessesBounded, Logins!Pair
<1> QED BY <1>2, <1>3

LEMMA LoginsRecordFailureKeeps ==
  ASSUME LoginsNumbers, LoginsInv, NEW l \in LoginsLogin, Logins!RecordFailure(l)
  PROVE  LoginsInv'
<1> DEFINE p == verifying[l]
<1>1. /\ p # NoLogin /\ verifying' = [verifying EXCEPT ![l] = NoLogin]
      /\ failures' = [failures EXCEPT ![p] = Append(@, 0)]
      /\ ipFailures' = [ipFailures EXCEPT ![p[1]] = Append(@, 0)]
      /\ guessed' = failures' /\ tried' = ipFailures'
  BY DEF Logins!RecordFailure, LoginsInv, LoginsCounted
<1>2. /\ p \in Address \X Name /\ p[1] \in Address
      /\ failures \in [Address \X Name -> Seq(0..LoginsWindow - 1)]
      /\ ipFailures \in [Address -> Seq(0..LoginsWindow - 1)]
      /\ verifying \in [LoginsLogin -> (Address \X Name) \cup {NoLogin}]
  BY <1>1 DEF LoginsInv, LoginsTypeOK
<1>3. /\ Append(failures[p], 0) \in Seq(0..LoginsWindow - 1)
      /\ Append(ipFailures[p[1]], 0) \in Seq(0..LoginsWindow - 1)
  BY <1>2, LoginsRecentType
<1>4. Cardinality(LoginsLogin) \in Nat /\ Limit \in Nat /\ IpLimit \in Nat
  BY FS_CardinalityType DEF LoginsNumbers
<1> HIDE DEF p
<1>5. LoginsTypeOK' /\ LoginsCounted'
  BY <1>1, <1>2, <1>3 DEF LoginsTypeOK, LoginsCounted
<1>6. ASSUME NEW q \in Address \X Name
      PROVE  (Len(guessed[q]) + Logins!Others({q}) < Limit + Cardinality(LoginsLogin))'
  <2>1. /\ Logins!Others({q})' \in Nat /\ Logins!Others({q}) \in Nat
        /\ Logins!Others({q})' = IF p \in {q} THEN Logins!Others({q}) - 1 ELSE Logins!Others({q})
    BY <1>1, LoginsUnderLeaves, LoginsUnderNumbers DEF p
  <2>2. Len(guessed[q]) + Logins!Others({q}) < Limit + Cardinality(LoginsLogin) /\ guessed[q] = failures[q]
    BY LoginsCard DEF LoginsInv, Logins!GuessesBounded, LoginsCounted, Logins!Pair
  <2>3. Len(failures'[q]) = IF p = q THEN Len(failures[q]) + 1 ELSE Len(failures[q])
    <3>1. failures'[q] = IF p = q THEN Append(failures[q], 0) ELSE failures[q]
      BY <1>1, <1>2
    <3>2. failures[q] \in Seq(0..LoginsWindow - 1)
      BY <1>2
    <3> QED BY <3>1, <3>2
  <2>4. Len(failures[q]) \in Nat
    BY <1>2
  <2>5. CASE p = q
    BY <1>1, <1>4, <2>1, <2>2, <2>3, <2>4, <2>5
  <2>6. CASE p # q
    BY <1>1, <1>4, <2>1, <2>2, <2>3, <2>4, <2>6
  <2> QED BY <2>5, <2>6
<1>7. ASSUME NEW a \in Address
      PROVE  (Len(tried[a]) + Logins!Others({a} \X Name) < IpLimit + Cardinality(LoginsLogin))'
  <2>1. {a} \X Name \in SUBSET (Address \X Name) /\ (p \in {a} \X Name <=> p[1] = a)
    BY <1>2
  <2>2. /\ Logins!Others({a} \X Name)' \in Nat /\ Logins!Others({a} \X Name) \in Nat
        /\ Logins!Others({a} \X Name)' = IF p \in {a} \X Name THEN Logins!Others({a} \X Name) - 1
                                         ELSE Logins!Others({a} \X Name)
    BY <1>1, <2>1, LoginsUnderLeaves, LoginsUnderNumbers DEF p
  <2>3. /\ Len(tried[a]) + Logins!Others({a} \X Name) < IpLimit + Cardinality(LoginsLogin)
        /\ tried[a] = ipFailures[a]
    BY LoginsCard DEF LoginsInv, Logins!GuessesBounded, LoginsCounted
  <2>4. Len(ipFailures'[a]) = IF p[1] = a THEN Len(ipFailures[a]) + 1 ELSE Len(ipFailures[a])
    BY <1>1, <1>2
  <2>5. Len(ipFailures[a]) \in Nat
    BY <1>2
  <2>6. CASE p[1] = a
    BY <1>1, <1>4, <2>1, <2>2, <2>3, <2>4, <2>5, <2>6
  <2>7. CASE p[1] # a
    BY <1>1, <1>4, <2>1, <2>2, <2>3, <2>4, <2>5, <2>7
  <2> QED BY <2>6, <2>7
<1> QED BY <1>5, <1>6, <1>7, LoginsCard DEF LoginsInv, Logins!GuessesBounded, Logins!Pair

LEMMA LoginsRecordSuccessKeeps ==
  ASSUME LoginsNumbers, LoginsInv, NEW l \in LoginsLogin, Logins!RecordSuccess(l)
  PROVE  LoginsInv'
<1> DEFINE p == verifying[l]
<1>1. /\ p # NoLogin /\ verifying' = [verifying EXCEPT ![l] = NoLogin]
      /\ failures' = [failures EXCEPT ![p] = <<>>] /\ guessed' = failures'
      /\ ipFailures' = ipFailures /\ tried' = tried
  BY DEF Logins!RecordSuccess, LoginsInv, LoginsCounted
<1>2. /\ p \in Address \X Name /\ <<>> \in Seq(0..LoginsWindow - 1) /\ Len(<<>>) = 0
      /\ failures \in [Address \X Name -> Seq(0..LoginsWindow - 1)]
      /\ verifying \in [LoginsLogin -> (Address \X Name) \cup {NoLogin}]
  BY <1>1 DEF LoginsInv, LoginsTypeOK
<1>3. Cardinality(LoginsLogin) \in Nat /\ Limit \in Nat /\ IpLimit \in Nat
  BY FS_CardinalityType DEF LoginsNumbers
<1> HIDE DEF p
<1>4. LoginsTypeOK' /\ LoginsCounted'
  BY <1>1, <1>2 DEF LoginsInv, LoginsTypeOK, LoginsCounted
<1>5. ASSUME NEW pairs \in SUBSET (Address \X Name)
      PROVE  Logins!Others(pairs)' \in Nat /\ Logins!Others(pairs) \in Nat /\ Logins!Others(pairs)' <= Logins!Others(pairs)
  <2>1. /\ Logins!Others(pairs)' \in Nat
        /\ Logins!Others(pairs)' = IF p \in pairs THEN Logins!Others(pairs) - 1 ELSE Logins!Others(pairs)
    BY <1>1, LoginsUnderLeaves DEF p
  <2>2. Logins!Others(pairs) \in Nat
    BY LoginsUnderNumbers
  <2> QED BY <2>1, <2>2
<1>6. ASSUME NEW q \in Address \X Name
      PROVE  (Len(guessed[q]) + Logins!Others({q}) < Limit + Cardinality(LoginsLogin))'
  <2>1. Logins!Others({q})' \in Nat /\ Logins!Others({q}) \in Nat /\ Logins!Others({q})' <= Logins!Others({q})
    BY <1>5
  <2>2. Len(guessed[q]) + Logins!Others({q}) < Limit + Cardinality(LoginsLogin) /\ guessed[q] = failures[q]
    BY LoginsCard DEF LoginsInv, Logins!GuessesBounded, LoginsCounted, Logins!Pair
  <2>3. Len(failures'[q]) <= Len(failures[q]) /\ Len(failures'[q]) \in Nat
        /\ Len(failures[q]) \in Nat
    BY <1>1, <1>2
  <2> QED BY <1>1, <1>3, <2>1, <2>2, <2>3
<1>7. ASSUME NEW a \in Address
      PROVE  (Len(tried[a]) + Logins!Others({a} \X Name) < IpLimit + Cardinality(LoginsLogin))'
  <2>1. {a} \X Name \in SUBSET (Address \X Name)
    OBVIOUS
  <2>2. /\ Logins!Others({a} \X Name)' \in Nat /\ Logins!Others({a} \X Name) \in Nat
        /\ Logins!Others({a} \X Name)' <= Logins!Others({a} \X Name)
    BY <1>5, <2>1
  <2>3. Len(tried[a]) + Logins!Others({a} \X Name) < IpLimit + Cardinality(LoginsLogin)
    BY LoginsCard DEF LoginsInv, Logins!GuessesBounded
  <2>4. Len(tried[a]) \in Nat
    BY DEF LoginsInv, LoginsTypeOK, LoginsCounted
  <2> QED BY <1>1, <1>3, <2>2, <2>3, <2>4
<1> QED BY <1>4, <1>6, <1>7, LoginsCard DEF LoginsInv, Logins!GuessesBounded, Logins!Pair

LEMMA LoginsTickKeeps ==
  ASSUME LoginsNumbers, LoginsInv, Logins!Tick
  PROVE  LoginsInv'
<1>1. /\ failures' = [p \in Address \X Name |-> Logins!Recent(Aged(failures[p], LoginsWindow))]
      /\ ipFailures' = [a \in Address |-> Logins!Recent(Aged(ipFailures[a], LoginsWindow))]
      /\ guessed' = failures' /\ tried' = ipFailures' /\ verifying' = verifying
  BY LoginsWindows DEF Logins!Tick, LoginsInv, LoginsCounted, Logins!Pair
<1>2. /\ failures \in [Address \X Name -> Seq(0..LoginsWindow - 1)]
      /\ ipFailures \in [Address -> Seq(0..LoginsWindow - 1)]
      /\ guessed = failures /\ tried = ipFailures
  BY DEF LoginsInv, LoginsTypeOK, LoginsCounted
<1>3. LoginsTypeOK' /\ LoginsCounted'
  BY <1>1, <1>2, LoginsRecentType DEF LoginsInv, LoginsTypeOK, LoginsCounted
<1>4. Cardinality(LoginsLogin) \in Nat /\ Limit \in Nat /\ IpLimit \in Nat
  BY FS_CardinalityType DEF LoginsNumbers
<1>5. \A pairs : Logins!Others(pairs)' = Logins!Others(pairs) /\ Logins!Others(pairs) \in Nat
  BY <1>1, LoginsUnderNumbers, LoginsCard DEF Logins!Others
<1>6. ASSUME NEW q \in Address \X Name
      PROVE  (Len(guessed[q]) + Logins!Others({q}) < Limit + Cardinality(LoginsLogin))'
  <2>1. /\ guessed'[q] = Logins!Recent(Aged(failures[q], LoginsWindow))
        /\ Len(guessed'[q]) <= Len(failures[q]) /\ Len(guessed'[q]) \in Nat
        /\ Len(failures[q]) \in Nat
    BY <1>1, <1>2, LoginsRecentType
  <2>2. Len(failures[q]) + Logins!Others({q}) < Limit + Cardinality(LoginsLogin)
    BY <1>2, LoginsCard DEF LoginsInv, Logins!GuessesBounded, Logins!Pair
  <2> QED BY <1>4, <1>5, <2>1, <2>2
<1>7. ASSUME NEW a \in Address
      PROVE  (Len(tried[a]) + Logins!Others({a} \X Name) < IpLimit + Cardinality(LoginsLogin))'
  <2>1. /\ tried'[a] = Logins!Recent(Aged(ipFailures[a], LoginsWindow))
        /\ Len(tried'[a]) <= Len(ipFailures[a]) /\ Len(tried'[a]) \in Nat
        /\ Len(ipFailures[a]) \in Nat
    BY <1>1, <1>2, LoginsRecentType
  <2>2. Len(ipFailures[a]) + Logins!Others({a} \X Name) < IpLimit + Cardinality(LoginsLogin)
    BY <1>2, LoginsCard DEF LoginsInv, Logins!GuessesBounded
  <2> QED BY <1>4, <1>5, <2>1, <2>2
<1> QED BY <1>3, <1>6, <1>7, LoginsCard DEF LoginsInv, Logins!GuessesBounded, Logins!Pair

LEMMA LoginsStepKeeps == ASSUME LoginsNumbers, LoginsInv, [Logins!Next]_(Logins!gateVars) PROVE LoginsInv'
<1>1. ASSUME NEW l \in LoginsLogin, NEW p \in Logins!Pair, Logins!Gate(l, p) PROVE LoginsInv'
  BY <1>1, LoginsGateKeeps DEF Logins!Pair
<1>2. ASSUME NEW l \in LoginsLogin, Logins!RecordFailure(l) PROVE LoginsInv'
  BY <1>2, LoginsRecordFailureKeeps
<1>3. ASSUME NEW l \in LoginsLogin, Logins!RecordSuccess(l) PROVE LoginsInv'
  BY <1>3, LoginsRecordSuccessKeeps
<1>4. CASE Logins!Tick
  BY <1>4, LoginsTickKeeps
<1>5. CASE Logins!Restart
  <2>1. /\ failures' = [p \in Address \X Name |-> <<>>] /\ ipFailures' = [a \in Address |-> <<>>]
        /\ verifying' = [l \in LoginsLogin |-> NoLogin]
        /\ guessed' = [p \in Address \X Name |-> <<>>] /\ tried' = [a \in Address |-> <<>>]
    BY <1>5 DEF Logins!Restart, Logins!Pair
  <2>2. <<>> \in Seq(0..LoginsWindow - 1) /\ Len(<<>>) = 0
    OBVIOUS
  <2>3. Cardinality(LoginsLogin) \in Nat /\ Limit \in Nat \ {0} /\ IpLimit \in Nat \ {0}
    BY FS_CardinalityType DEF LoginsNumbers
  <2>4. LoginsTypeOK' /\ LoginsCounted'
    BY <2>1, <2>2 DEF LoginsTypeOK, LoginsCounted
  <2>5. ASSUME NEW pairs \in SUBSET (Address \X Name) PROVE Logins!Others(pairs)' = 0
    <3>1. \A l \in LoginsLogin : verifying'[l] \notin pairs
      BY <2>1 DEF LoginsNumbers
    <3>2. {l \in LoginsLogin : verifying'[l] \in pairs} = {}
      BY <3>1
    <3> QED BY <3>2, FS_EmptySet, LoginsCard DEF Logins!Others
  <2>6. ASSUME NEW q \in Address \X Name
        PROVE  (Len(guessed[q]) + Logins!Others({q}) < Limit + Cardinality(LoginsLogin))'
    BY <2>1, <2>2, <2>3, <2>5
  <2>7. ASSUME NEW a \in Address
        PROVE  (Len(tried[a]) + Logins!Others({a} \X Name) < IpLimit + Cardinality(LoginsLogin))'
    <3>1. {a} \X Name \in SUBSET (Address \X Name)
      OBVIOUS
    <3>2. Logins!Others({a} \X Name)' = 0
      BY <2>5, <3>1
    <3> QED BY <2>1, <2>2, <2>3, <3>2
  <2> QED BY <2>4, <2>6, <2>7, LoginsCard DEF LoginsInv, Logins!GuessesBounded, Logins!Pair
<1>6. CASE UNCHANGED Logins!gateVars
  BY <1>6, LoginsCard DEF Logins!gateVars, LoginsInv, LoginsTypeOK, LoginsCounted,
     Logins!GuessesBounded, Logins!Others
<1> QED BY <1>1, <1>2, <1>3, <1>4, <1>5, <1>6 DEF Logins!Next

(* However many logins run at the same time, a name is guessed at from an       *)
(* address at most Limit times in a window, and an address guesses IpLimit      *)
(* times, but for the logins that had passed the gate (main.py 724-800).       *)
THEOREM GuessesAreBounded == ASSUME LoginsNumbers PROVE Logins!Spec => []Logins!GuessesBounded
<1>1. LoginsInv => Logins!GuessesBounded
  BY DEF LoginsInv
<1> QED BY <1>1, LoginsInvInit, LoginsStepKeeps, PTL DEF Logins!Spec

-----------------------------------------------------------------------------
(***************************************************************************)
(* What the remediation actions choose.                                      *)
(***************************************************************************)
\* What kubectl lists: a finite number of jobs, of which no two failed together.
TargetsListing(jobs) ==
  /\ IsFiniteSet(DOMAIN jobs)
  /\ \A n \in DOMAIN jobs : jobs[n].age \in Nat
  /\ \A m, n \in DOMAIN jobs : jobs[m].age = jobs[n].age => m = n

TargetsRank(jobs, old, n) == Cardinality(Targets!YoungerThan(jobs, old, n))
TargetsYoungest(jobs, old, k) == {n \in old : TargetsRank(jobs, old, n) < k}

\* A job that is not younger has no fewer that are younger than it.
\* The cardinality in RemediationTargets is the one of the theorems.
LEMMA TargetsCard ==
  \A S : Targets!Cardinality(S) = Cardinality(S) /\ (Targets!IsFiniteSet(S) <=> IsFiniteSet(S))
  BY DEF Targets!Cardinality, Cardinality, Targets!IsFiniteSet, IsFiniteSet

LEMMA TargetsRankGrows ==
  ASSUME NEW jobs, TargetsListing(jobs), NEW old \in SUBSET DOMAIN jobs, NEW m \in old, NEW n \in old,
         jobs[m].age <= jobs[n].age
  PROVE  /\ TargetsRank(jobs, old, m) <= TargetsRank(jobs, old, n)
         /\ TargetsRank(jobs, old, m) \in Nat /\ TargetsRank(jobs, old, n) \in Nat
<1>1. IsFiniteSet(old) /\ \A k \in old : jobs[k].age \in Nat
  BY FS_Subset DEF TargetsListing
<1>2. Targets!YoungerThan(jobs, old, n) \in SUBSET old /\ Targets!YoungerThan(jobs, old, m) \in SUBSET old
  BY DEF Targets!YoungerThan
<1>3. Targets!YoungerThan(jobs, old, m) \subseteq Targets!YoungerThan(jobs, old, n)
  BY <1>1 DEF Targets!YoungerThan
<1>4. IsFiniteSet(Targets!YoungerThan(jobs, old, n)) /\ IsFiniteSet(Targets!YoungerThan(jobs, old, m))
  BY <1>1, <1>2, FS_Subset
<1> QED BY <1>3, <1>4, FS_Subset, FS_CardinalityType DEF TargetsRank

\* The job with the lowest rank that is at least k is the next youngest one.
LEMMA TargetsNextYoungest ==
  ASSUME NEW jobs, TargetsListing(jobs), NEW old \in SUBSET DOMAIN jobs, NEW k \in Nat,
         Cardinality(TargetsYoungest(jobs, old, k)) = k, k < Cardinality(old)
  PROVE  Cardinality(TargetsYoungest(jobs, old, k + 1)) = k + 1
<1> DEFINE S == TargetsYoungest(jobs, old, k)
           rest == old \ S
<1>1. IsFiniteSet(old) /\ \A n \in old : jobs[n].age \in Nat
  BY FS_Subset DEF TargetsListing
<1>2. S \in SUBSET old /\ IsFiniteSet(S) /\ Cardinality(S) = k
  BY <1>1, FS_Subset DEF TargetsYoungest
<1>3. rest # {}
  BY <1>2
<1>4. PICK m \in rest : \A q \in rest : jobs[m].age <= jobs[q].age
  <2> DEFINE ages == {jobs[q].age : q \in rest}
  <2>1. ages \in SUBSET Nat /\ ages # {}
    BY <1>1, <1>3
  <2> HIDE DEF ages
  <2>2. PICK a \in ages : \A b \in ages : a <= b
    BY <2>1, LeastNumber
  <2> QED BY <2>2 DEF ages
<1>5. ASSUME NEW n \in S, NEW q \in rest PROVE jobs[n].age < jobs[q].age
  <2>1. TargetsRank(jobs, old, n) < k /\ ~(TargetsRank(jobs, old, q) < k) /\ n \in old /\ q \in old
    BY DEF TargetsYoungest
  <2>2. TargetsRank(jobs, old, n) \in Nat /\ TargetsRank(jobs, old, q) \in Nat
    BY <1>1, <2>1, TargetsRankGrows
  <2>3. ~(jobs[q].age <= jobs[n].age)
    BY <2>1, <2>2, TargetsRankGrows
  <2> QED BY <1>1, <2>1, <2>3
<1>6. Targets!YoungerThan(jobs, old, m) = S
  <2>1. ASSUME NEW n \in old PROVE n \in S <=> jobs[n].age < jobs[m].age
    <3>1. n \in S => jobs[n].age < jobs[m].age
      BY <1>4, <1>5
    <3>2. n \notin S => jobs[m].age <= jobs[n].age
      BY <1>4
    <3> QED BY <1>1, <1>4, <3>1, <3>2
  <2> QED BY <1>2, <2>1 DEF Targets!YoungerThan
<1>7. TargetsRank(jobs, old, m) = k
  BY <1>2, <1>6 DEF TargetsRank
<1>8. ASSUME NEW q \in rest, q # m PROVE ~(TargetsRank(jobs, old, q) < k + 1)
  <2>1. jobs[m].age < jobs[q].age
    <3>1. jobs[m].age <= jobs[q].age /\ m \in DOMAIN jobs /\ q \in DOMAIN jobs
      BY <1>4
    <3>2. jobs[m].age # jobs[q].age
      BY <1>8, <3>1 DEF TargetsListing
    <3> QED BY <1>1, <1>4, <3>1, <3>2
  <2>2. S \cup {m} \subseteq Targets!YoungerThan(jobs, old, q)
    BY <1>2, <1>4, <1>5, <2>1 DEF Targets!YoungerThan
  <2>3. IsFiniteSet(Targets!YoungerThan(jobs, old, q))
    BY <1>1, FS_Subset DEF Targets!YoungerThan
  <2>4. Cardinality(S \cup {m}) = k + 1
    BY <1>2, <1>4, FS_AddElement
  <2>5. k + 1 <= Cardinality(Targets!YoungerThan(jobs, old, q)) /\ Cardinality(Targets!YoungerThan(jobs, old, q)) \in Nat
    BY <2>2, <2>3, <2>4, FS_Subset, FS_CardinalityType
  <2> QED BY <2>5 DEF TargetsRank
<1>9. TargetsYoungest(jobs, old, k + 1) = S \cup {m}
  <2>1. ASSUME NEW n \in old PROVE TargetsRank(jobs, old, n) < k + 1 <=> n \in S \cup {m}
    <3>1. CASE n \in S
      <4>1. TargetsRank(jobs, old, n) < k
        BY <3>1 DEF TargetsYoungest
      <4>2. TargetsRank(jobs, old, n) \in Nat
        BY <1>1, TargetsRankGrows
      <4> QED BY <3>1, <4>1, <4>2
    <3>2. CASE n = m
      BY <1>7, <3>2
    <3>3. CASE n \notin S /\ n # m
      BY <1>8, <3>3
    <3> QED BY <3>1, <3>2, <3>3
  <2> HIDE DEF S
  <2>2. TargetsYoungest(jobs, old, k + 1) = {n \in old : n \in S \cup {m}}
    BY <2>1 DEF TargetsYoungest
  <2> QED BY <1>2, <1>4, <2>2
<1> QED BY <1>2, <1>4, <1>9, FS_AddElement

LEMMA TargetsYoungestCount ==
  ASSUME NEW jobs, TargetsListing(jobs), NEW old \in SUBSET DOMAIN jobs
  PROVE  \A k \in Nat : k <= Cardinality(old) => Cardinality(TargetsYoungest(jobs, old, k)) = k
<1> DEFINE T == {k \in Nat : k <= Cardinality(old) => Cardinality(TargetsYoungest(jobs, old, k)) = k}
<1>1. Cardinality(old) \in Nat
  BY FS_Subset, FS_CardinalityType DEF TargetsListing
<1>2. 0 \in T
  <2>1. ASSUME NEW n \in old PROVE ~(TargetsRank(jobs, old, n) < 0)
    <3>1. jobs[n].age \in Nat
      BY DEF TargetsListing
    <3>2. TargetsRank(jobs, old, n) \in Nat
      BY <3>1, TargetsRankGrows
    <3> QED BY <3>2
  <2>2. TargetsYoungest(jobs, old, 0) = {}
    BY <2>1 DEF TargetsYoungest
  <2> QED BY <2>2, FS_EmptySet
<1>3. \A k \in Nat : k \in T => k + 1 \in T
  BY <1>1, TargetsNextYoungest
<1> HIDE DEF T
<1>4. \A k \in Nat : k \in T
  BY <1>2, <1>3, SetInduction
<1> QED BY <1>4 DEF T

(* The clean-up spares the youngest failed jobs, exactly as many as it was     *)
(* told to keep (remediation_actions.py 577-666).                              *)
THEOREM CleanupSparesYoungest ==
  ASSUME NEW jobs, NEW hours, NEW keep \in Nat, TargetsListing(jobs)
  PROVE  Targets!CleanupKeepsYoungest(jobs, hours, keep)
<1> DEFINE old == Targets!OldFailures(jobs, hours)
           gone == Targets!JobsToDelete(jobs, hours, keep)
           stay == old \ gone
<1>1. old \in SUBSET DOMAIN jobs /\ gone \in SUBSET old
  BY TargetsCard DEF Targets!OldFailures, Targets!JobsToDelete
<1>2. \A n \in gone : jobs[n].failed /\ jobs[n].age > hours
  BY <1>1 DEF Targets!OldFailures
<1>3. CASE keep = 0
  <2>1. gone = {}
    BY <1>3, TargetsCard DEF Targets!JobsToDelete
  <2> QED BY <2>1, TargetsCard DEF Targets!CleanupKeepsYoungest
<1>4. CASE keep # 0
  <2>1. gone = {n \in old : TargetsRank(jobs, old, n) >= keep}
    BY <1>4, TargetsCard DEF Targets!JobsToDelete, TargetsRank
  <2>2. \A n \in old : TargetsRank(jobs, old, n) \in Nat /\ jobs[n].age \in Nat
    <3>1. \A n \in old : jobs[n].age \in Nat /\ jobs[n].age <= jobs[n].age
      BY <1>1 DEF TargetsListing
    <3> HIDE DEF old
    <3> QED BY <1>1, <3>1, TargetsRankGrows
  <2>3. stay = TargetsYoungest(jobs, old, keep)
    BY <2>1, <2>2 DEF TargetsYoungest
  <2>4. ASSUME NEW n \in gone, NEW k \in stay PROVE jobs[n].age > jobs[k].age
    <3>1. n \in old /\ k \in old /\ TargetsRank(jobs, old, n) >= keep /\ ~(TargetsRank(jobs, old, k) >= keep)
      BY <2>1
    <3> HIDE DEF old
    <3>2. ~(jobs[n].age <= jobs[k].age)
      BY <1>1, <2>2, <3>1, TargetsRankGrows
    <3> QED BY <2>2, <3>1, <3>2
  <2>5. ASSUME gone # {} PROVE Cardinality(stay) = keep
    <3>1. PICK n \in old : TargetsRank(jobs, old, n) >= keep
      BY <2>1, <2>5
    <3> HIDE DEF old
    <3>2. IsFiniteSet(old) /\ Targets!YoungerThan(jobs, old, n) \in SUBSET old
      BY <1>1, FS_Subset DEF TargetsListing, Targets!YoungerThan
    <3>3. TargetsRank(jobs, old, n) <= Cardinality(old) /\ Cardinality(old) \in Nat
      BY <3>2, FS_Subset, FS_CardinalityType DEF TargetsRank
    <3>4. keep <= Cardinality(old)
      BY <2>2, <3>1, <3>3
    <3> QED BY <1>1, <2>3, <3>4, TargetsYoungestCount
  <2> QED BY <1>2, <2>4, <2>5, TargetsCard DEF Targets!CleanupKeepsYoungest
<1> QED BY <1>3, <1>4

(* Scaling ends inside its limits, and a repeated request does not turn back   *)
(* (remediation_actions.py 346-354).                                          *)
THEOREM ScalingIsLimited ==
  ASSUME NEW current \in Int, NEW asked \in [relative : BOOLEAN, by : Int],
         NEW low \in Int, NEW high \in Int
  PROVE  Targets!ScalingStaysInLimits(current, asked, low, high)
<1>1. asked.by \in Int /\ asked.relative \in BOOLEAN
  OBVIOUS
<1>2. ASSUME low <= high, NEW raw \in Int
      PROVE  LET cut == IF raw > high THEN high ELSE raw
             IN  /\ (IF cut < low THEN low ELSE cut) \in low..high
                 /\ raw <= low => (IF cut < low THEN low ELSE cut) = low
                 /\ raw >= high => (IF cut < low THEN low ELSE cut) = high
                 /\ raw \in low..high => (IF cut < low THEN low ELSE cut) = raw
  BY <1>2
<1>3. CASE asked.relative /\ low <= high
  <2> DEFINE Target(c) == Targets!ScaleTarget(c, asked, low, high)
  <2>1. ASSUME NEW c \in Int
        PROVE  /\ Target(c) \in low..high
               /\ c + asked.by <= low => Target(c) = low
               /\ c + asked.by >= high => Target(c) = high
               /\ c + asked.by \in low..high => Target(c) = c + asked.by
    <3>1. c + asked.by \in Int
      BY <1>1
    <3> QED BY <1>2, <1>3, <3>1 DEF Targets!ScaleTarget
  <2> HIDE DEF Target
  <2>2. Target(current) \in low..high /\ Target(current) \in Int
    BY <2>1
  <2>3. Target(Target(current)) \in low..high
    BY <2>1, <2>2
  <2>4. asked.by >= 0 => Target(Target(current)) >= Target(current)
    BY <1>1, <2>1, <2>2, <2>3
  <2>5. asked.by <= 0 => Target(Target(current)) <= Target(current)
    BY <1>1, <2>1, <2>2, <2>3
  <2> QED BY <1>3, <2>2, <2>3, <2>4, <2>5 DEF Target, Targets!ScalingStaysInLimits
<1>4. CASE ~asked.relative /\ low <= high
  <2>1. \A c : Targets!ScaleTarget(c, asked, low, high) \in low..high
    BY <1>1, <1>2, <1>4 DEF Targets!ScaleTarget
  <2>2. \A c, d : Targets!ScaleTarget(c, asked, low, high) = Targets!ScaleTarget(d, asked, low, high)
    BY <1>4 DEF Targets!ScaleTarget
  <2> QED BY <1>4, <2>1, <2>2 DEF Targets!ScalingStaysInLimits
<1> QED BY <1>1, <1>3, <1>4 DEF Targets!ScalingStaysInLimits

-----------------------------------------------------------------------------
(***************************************************************************)
(* No secret is shown and no incomplete project is valid, whatever the        *)
(* configuration.                                                            *)
(***************************************************************************)
\* The leaves of a configuration, of which none is the word that hides others.
ChecksKey == [class : STRING, index : BOOLEAN]
ChecksLeafType == [path : Seq(ChecksKey), value : [is : STRING, wraps : Nat]]
ChecksLeaves == {leaf \in ChecksLeafType : leaf.path # <<>> /\ leaf.value # Checks!Redacted}

\* What the functions on configurations do to one leaf.
ChecksLocked(leaf) == IF Checks!Encrypts(leaf) THEN [leaf EXCEPT !.value.wraps = @ + 1] ELSE leaf
ChecksUnlocked(leaf) ==
  IF Checks!Encrypts(leaf) /\ Checks!IsToken(leaf.value) THEN [leaf EXCEPT !.value.wraps = @ - 1] ELSE leaf

LEMMA ChecksLeafOf ==
  ASSUME NEW leaf \in ChecksLeaves
  PROVE  /\ leaf.path \in Seq(ChecksKey) /\ Len(leaf.path) \in Nat \ {0}
         /\ DOMAIN leaf.path = 1..Len(leaf.path) /\ Len(leaf.path) \in DOMAIN leaf.path
         /\ leaf.value \in [is : STRING, wraps : Nat] /\ leaf.value # Checks!Redacted
<1>1. leaf.path \in Seq(ChecksKey) /\ leaf.path # <<>> /\ leaf.value # Checks!Redacted
      /\ leaf.value \in [is : STRING, wraps : Nat]
  BY DEF ChecksLeaves, ChecksLeafType
<1>2. Len(leaf.path) \in Nat /\ DOMAIN leaf.path = 1..Len(leaf.path) /\ Len(leaf.path) # 0
  BY <1>1
<1> QED BY <1>1, <1>2

\* A path is hidden from the first key on that hides what is under it.
LEMMA ChecksFirstHidden ==
  ASSUME NEW path \in Seq(ChecksKey), NEW level
  PROVE  \/ /\ Checks!HiddenAt(path, level) = 0
            /\ \A i \in 1..Len(path) : ~Checks!Hides(path[i], level)
         \/ /\ Checks!HiddenAt(path, level) \in 1..Len(path)
            /\ Checks!Hides(path[Checks!HiddenAt(path, level)], level)
            /\ \A i \in 1..Len(path) : Checks!Hides(path[i], level) => Checks!HiddenAt(path, level) <= i
<1> DEFINE I == {i \in 1..Len(path) : Checks!Hides(path[i], level)}
<1>1. Checks!HiddenAt(path, level) = IF I # {} THEN Checks!Min(I) ELSE 0
  BY DEF Checks!HiddenAt, Checks!SelectInSeq
<1>2. CASE I = {}
  BY <1>1, <1>2
<1>3. CASE I # {}
  <2>1. I \in SUBSET Nat
    OBVIOUS
  <2> HIDE DEF I
  <2>2. \E x \in I : \A y \in I : x <= y
    BY <1>3, <2>1, LeastNumber
  <2>3. Checks!Min(I) \in I /\ \A y \in I : Checks!Min(I) <= y
    BY <2>2 DEF Checks!Min
  <2>4. Checks!HiddenAt(path, level) \in I /\ \A y \in I : Checks!HiddenAt(path, level) <= y
    BY <1>1, <1>3, <2>3
  <2> QED BY <2>4 DEF I
<1> QED BY <1>2, <1>3

\* What is cut after the first key that hides is hidden by its last one.
LEMMA ChecksCutHidden ==
  ASSUME NEW path \in Seq(ChecksKey), NEW level, NEW at, at = Checks!HiddenAt(path, level), at # 0
  PROVE  /\ SubSeq(path, 1, at) \in Seq(ChecksKey) /\ Len(SubSeq(path, 1, at)) = at
         /\ at \in 1..Len(path) /\ \A i \in 1..at : SubSeq(path, 1, at)[i] = path[i]
         /\ Checks!HiddenAt(SubSeq(path, 1, at), level) = at
         /\ SubSeq(SubSeq(path, 1, at), 1, at) = SubSeq(path, 1, at)
<1> DEFINE cut == SubSeq(path, 1, at)
<1>1. /\ at \in 1..Len(path) /\ Checks!Hides(path[at], level)
      /\ \A i \in 1..Len(path) : Checks!Hides(path[i], level) => at <= i
  BY ChecksFirstHidden
<1>2. cut \in Seq(ChecksKey) /\ Len(cut) = at /\ \A i \in 1..at : cut[i] = path[i]
  BY <1>1
<1>3. SubSeq(cut, 1, at) = cut
  BY <1>1, <1>2
<1> HIDE DEF cut
<1>4. Len(path) \in Nat /\ at \in Nat /\ at \in 1..at /\ \A i \in 1..at : i \in 1..Len(path)
  BY <1>1
<1>5. Checks!HiddenAt(cut, level) = at
  <2> DEFINE new == Checks!HiddenAt(cut, level)
  <2>1. Checks!Hides(cut[at], level)
    BY <1>1, <1>2, <1>4
  <2>2. new \in 1..at /\ Checks!Hides(cut[new], level) /\ new <= at
    BY <1>2, <1>4, <2>1, ChecksFirstHidden
  <2> HIDE DEF new
  <2>3. Checks!Hides(path[new], level) /\ new \in 1..Len(path)
    BY <1>2, <1>4, <2>2
  <2>4. at <= new
    BY <1>1, <2>3
  <2>5. new = at
    BY <1>4, <2>2, <2>4
  <2> QED BY <2>5 DEF new
<1> QED BY <1>1, <1>2, <1>3, <1>5 DEF cut

-----------------------------------------------------------------------------
LEMMA ChecksSecretsGo ==
  ASSUME NEW config \in SUBSET ChecksLeaves, NEW level, NEW leaf \in Checks!Sanitize(config, level),
         \E i \in DOMAIN leaf.path : Checks!IsSecret(leaf.path[i])
  PROVE  leaf.value = Checks!Redacted
<1>1. PICK old \in config : leaf = Checks!SanitizeLeaf(old, level)
  BY DEF Checks!Sanitize
<1>2. CASE Checks!HiddenAt(old.path, level) = 0
  <2>1. leaf = old /\ old.path \in Seq(ChecksKey) /\ DOMAIN old.path = 1..Len(old.path)
    BY <1>1, <1>2, ChecksLeafOf DEF Checks!SanitizeLeaf
  <2>2. \A i \in 1..Len(old.path) : ~Checks!Hides(old.path[i], level)
    BY <1>2, <2>1, ChecksFirstHidden
  <2> QED BY <2>1, <2>2 DEF Checks!Hides
<1>3. CASE Checks!HiddenAt(old.path, level) # 0
  BY <1>1, <1>3 DEF Checks!SanitizeLeaf
<1> QED BY <1>2, <1>3

LEMMA ChecksTwiceIsOnce ==
  ASSUME NEW config \in SUBSET ChecksLeaves, NEW level
  PROVE  Checks!Sanitize(Checks!Sanitize(config, level), level) = Checks!Sanitize(config, level)
<1>1. ASSUME NEW leaf \in config
      PROVE  Checks!SanitizeLeaf(Checks!SanitizeLeaf(leaf, level), level) = Checks!SanitizeLeaf(leaf, level)
  <2> DEFINE at == Checks!HiddenAt(leaf.path, level)
             cut == SubSeq(leaf.path, 1, at)
             new == [path |-> cut, value |-> Checks!Redacted]
  <2>1. CASE at = 0
    BY <2>1 DEF Checks!SanitizeLeaf
  <2>2. CASE at # 0
    <3>1. Checks!SanitizeLeaf(leaf, level) = new
      BY <2>2 DEF Checks!SanitizeLeaf
    <3>2. Checks!HiddenAt(cut, level) = at /\ SubSeq(cut, 1, at) = cut
      BY <2>2, ChecksLeafOf, ChecksCutHidden
    <3> HIDE DEF at, cut
    <3>3. Checks!SanitizeLeaf(new, level) = new
      BY <2>2, <3>2 DEF Checks!SanitizeLeaf
    <3> QED BY <3>1, <3>3
  <2> QED BY <2>1, <2>2
<1> QED BY <1>1 DEF Checks!Sanitize

\* Encrypted and plain leaves differ under secret keys only.
LEMMA ChecksLockedSame ==
  ASSUME NEW leaf \in ChecksLeaves
  PROVE  /\ ChecksLocked(leaf).path = leaf.path
         /\ ~Checks!Encrypts(leaf) => ChecksLocked(leaf) = leaf
         /\ Checks!Encrypts(leaf) =>
              /\ ChecksLocked(leaf).value = [is |-> leaf.value.is, wraps |-> leaf.value.wraps + 1]
              /\ Checks!Encrypts(ChecksLocked(leaf)) /\ Checks!IsToken(ChecksLocked(leaf).value)
              /\ ChecksUnlocked(ChecksLocked(leaf)) = leaf
<1>1. leaf \in ChecksLeafType /\ leaf.value.wraps \in Nat
  BY DEF ChecksLeaves, ChecksLeafType
<1>2. CASE ~Checks!Encrypts(leaf)
  BY <1>2 DEF ChecksLocked
<1>3. CASE Checks!Encrypts(leaf)
  <2> DEFINE new == ChecksLocked(leaf)
  <2>1. new = [path |-> leaf.path, value |-> [is |-> leaf.value.is, wraps |-> leaf.value.wraps + 1]]
    BY <1>1, <1>3 DEF ChecksLocked, ChecksLeafType
  <2>2. new.path = leaf.path /\ new.value.is = leaf.value.is /\ new.value.wraps = leaf.value.wraps + 1
    BY <2>1
  <2>3. Checks!Encrypts(new) /\ Checks!IsToken(new.value)
    BY <1>1, <1>3, <2>2 DEF Checks!Encrypts, Checks!IsString, Checks!IsToken
  <2>4. ChecksUnlocked(new) = [path |-> leaf.path,
                         value |-> [is |-> leaf.value.is, wraps |-> (leaf.value.wraps + 1) - 1]]
    BY <2>1, <2>3 DEF ChecksUnlocked
  <2>5. (leaf.value.wraps + 1) - 1 = leaf.value.wraps
    BY <1>1
  <2>6. leaf = [path |-> leaf.path, value |-> [is |-> leaf.value.is, wraps |-> leaf.value.wraps]]
    BY <1>1 DEF ChecksLeafType
  <2>7. ChecksUnlocked(new) = leaf
    BY <2>4, <2>5, <2>6
  <2> QED BY <1>3, <2>1, <2>2, <2>3, <2>7
<1> QED BY <1>2, <1>3

LEMMA ChecksEncryptedLooksSame ==
  ASSUME NEW config \in SUBSET ChecksLeaves, NEW level
  PROVE  Checks!Sanitize(Checks!Encrypt(config), level) = Checks!Sanitize(config, level)
<1>1. ASSUME NEW leaf \in config
      PROVE  Checks!SanitizeLeaf(ChecksLocked(leaf), level) = Checks!SanitizeLeaf(leaf, level)
  <2>1. CASE ~Checks!Encrypts(leaf)
    BY <2>1 DEF ChecksLocked
  <2>2. CASE Checks!Encrypts(leaf)
    <3>1. Checks!Hides(leaf.path[Len(leaf.path)], level)
      BY <2>2 DEF Checks!Encrypts, Checks!Hides, Checks!Last
    <3>2. Checks!HiddenAt(leaf.path, level) # 0
      BY <3>1, ChecksLeafOf, ChecksFirstHidden
    <3>3. ChecksLocked(leaf).path = leaf.path
      BY ChecksLockedSame
    <3> QED BY <3>2, <3>3 DEF Checks!SanitizeLeaf
  <2> QED BY <2>1, <2>2
<1>2. Checks!Encrypt(config) = {ChecksLocked(leaf) : leaf \in config}
  BY DEF Checks!Encrypt, ChecksLocked
<1> QED BY <1>1, <1>2 DEF Checks!Sanitize

LEMMA ChecksDecryptedIsBack ==
  ASSUME NEW config \in SUBSET ChecksLeaves, \A leaf \in config : ~Checks!IsToken(leaf.value)
  PROVE  Checks!Decrypt(Checks!Encrypt(config)) = config
<1>1. ASSUME NEW leaf \in config PROVE ChecksUnlocked(ChecksLocked(leaf)) = leaf
  <2>1. CASE Checks!Encrypts(leaf)
    BY <2>1, ChecksLockedSame
  <2>2. CASE ~Checks!Encrypts(leaf)
    BY <2>2 DEF ChecksLocked, ChecksUnlocked
  <2> QED BY <2>1, <2>2
<1>2. Checks!Encrypt(config) = {ChecksLocked(leaf) : leaf \in config}
  BY DEF Checks!Encrypt, ChecksLocked
<1>3. Checks!Decrypt(Checks!Encrypt(config)) = {ChecksUnlocked(leaf) : leaf \in Checks!Encrypt(config)}
  BY DEF Checks!Decrypt, ChecksUnlocked
<1>4. Checks!Decrypt(Checks!Encrypt(config)) = {ChecksUnlocked(ChecksLocked(leaf)) : leaf \in config}
  BY <1>2, <1>3
<1> QED BY <1>1, <1>4

LEMMA ChecksHiddenIsFound ==
  ASSUME NEW config \in SUBSET ChecksLeaves, NEW leaf \in Checks!Sanitize(config, "secret"),
         leaf.value = Checks!Redacted, \A i \in DOMAIN leaf.path : ~leaf.path[i].index
  PROVE  leaf.path \in Checks!Scan(config)
<1>1. PICK old \in config : leaf = Checks!SanitizeLeaf(old, "secret")
  BY DEF Checks!Sanitize
<1> DEFINE at == Checks!HiddenAt(old.path, "secret")
<1>2. at # 0
  <2>1. old.value # Checks!Redacted
    BY ChecksLeafOf
  <2> QED BY <1>1, <2>1 DEF Checks!SanitizeLeaf
<1>3. leaf.path = SubSeq(old.path, 1, at)
  <2> DEFINE cut == SubSeq(old.path, 1, at)
  <2>1. leaf = [path |-> cut, value |-> Checks!Redacted]
    BY <1>1, <1>2 DEF Checks!SanitizeLeaf
  <2> HIDE DEF cut
  <2>2. leaf.path = cut
    BY <2>1
  <2> QED BY <2>2 DEF cut
<1>4. /\ at \in 1..Len(old.path) /\ Len(leaf.path) = at /\ at \in Nat
      /\ leaf.path[at] = old.path[at] /\ DOMAIN old.path = 1..Len(old.path)
  BY <1>2, <1>3, ChecksLeafOf, ChecksCutHidden
<1>5. Checks!Hides(old.path[at], "secret")
  BY <1>2, ChecksLeafOf, ChecksFirstHidden
<1> HIDE DEF at
<1>6. Checks!IsSecret(Checks!Last(leaf.path))
  BY <1>4, <1>5 DEF Checks!Last, Checks!Hides
<1>7. leaf.path \in UNION {{SubSeq(l.path, 1, n) : n \in DOMAIN l.path} : l \in config}
  <2> DEFINE Cuts(l) == {SubSeq(l.path, 1, n) : n \in DOMAIN l.path}
  <2>1. leaf.path \in Cuts(old)
    BY <1>3, <1>4
  <2> HIDE DEF Cuts
  <2>2. leaf.path \in UNION {Cuts(l) : l \in config}
    BY <2>1
  <2> QED BY <2>2 DEF Cuts
<1> QED BY <1>6, <1>7 DEF Checks!Scan

\* What is logged or shown never holds a secret, however deep it lies
\* (security.py 70-105, 138-237, 333-369).
THEOREM SecretsAreHidden ==
  ASSUME NEW config \in SUBSET ChecksLeaves, NEW level
  PROVE  Checks!SecretsStayHidden(config, level)
<1>1. \A leaf \in Checks!Sanitize(config, level) :
        (\E i \in DOMAIN leaf.path : Checks!IsSecret(leaf.path[i])) => leaf.value = Checks!Redacted
  BY ChecksSecretsGo
<1>2. \A leaf \in Checks!Sanitize(config, "secret") :
        leaf.value = Checks!Redacted /\ (\A i \in DOMAIN leaf.path : ~leaf.path[i].index)
          => leaf.path \in Checks!Scan(config)
  BY ChecksHiddenIsFound
<1> QED BY <1>1, <1>2, ChecksTwiceIsOnce, ChecksEncryptedLooksSame, ChecksDecryptedIsBack DEF
           Checks!SecretsStayHidden

\* A valid project has all it needs (validation.py 286-381).
THEOREM ValidProjectsAreComplete ==
  ASSUME NEW config, NEW rules
  PROVE  Checks!ValidIsComplete(config, rules)
<1> SUFFICES ASSUME Checks!ProjectVerdict(config, rules) = "valid"
             PROVE  Checks!ValidIsComplete(config, rules)
  BY DEF Checks!ValidIsComplete
<1>1. /\ Checks!Section(config, "project").kind = "object" /\ Checks!Section(config, "monitoring").kind = "object"
      /\ Checks!FieldErrors(config, rules) = {} /\ Checks!NestedErrors(config, rules) = {}
      /\ Checks!Section(config, "monitoring").n > 0
  BY DEF Checks!ProjectVerdict
<1>2. "monitoring" \in DOMAIN config
  BY <1>1 DEF Checks!Section
<1>3. \A f \in DOMAIN config \cap {"project", "monitoring"} : config[f].kind = "object"
  BY <1>1 DEF Checks!Section
<1>4. /\ \A f \in DOMAIN rules : rules[f].required => f \in DOMAIN config
      /\ \A f \in DOMAIN rules \cap DOMAIN config : Checks!Fits(config[f], rules[f])
  BY <1>1 DEF Checks!FieldErrors
<1>5. ASSUME NEW f \in DOMAIN rules \cap DOMAIN config,
             config[f].kind = "object", rules[f].type = "object", NEW g \in DOMAIN rules[f].fields
      PROVE  /\ rules[f].fields[g].required => g \in DOMAIN config[f].fields
             /\ g \in DOMAIN config[f].fields => Checks!Fits(config[f].fields[g], rules[f].fields[g])
  <2>1. \A h \in Checks!FieldErrors(config[f].fields, rules[f].fields) : <<f, h>> \in Checks!NestedErrors(config, rules)
    BY <1>5 DEF Checks!NestedErrors
  <2>2. Checks!FieldErrors(config[f].fields, rules[f].fields) = {}
    BY <1>1, <2>1
  <2> QED BY <1>5, <2>2 DEF Checks!FieldErrors
<1> QED BY <1>2, <1>3, <1>4, <1>5 DEF Checks!ValidIsComplete

-----------------------------------------------------------------------------
(***************************************************************************)
(* Health is no better than the probes, for any services.                    *)
(***************************************************************************)
\* The two critical services of the service itself are told by their names to
\* be a database and one of authentication.
HealthServiceType == [external : BOOLEAN, database : BOOLEAN, auth : BOOLEAN, primary : BOOLEAN,
                answer : STRING, slow : BOOLEAN]
HealthServices == {s \in HealthServiceType : s.primary => s.database \/ s.auth}

\* The cardinality in ServiceHealth is the one of the theorems.
LEMMA HealthCard ==
  \A S : Health!Cardinality(S) = Cardinality(S) /\ (Health!IsFiniteSet(S) <=> IsFiniteSet(S))
  BY DEF Health!Cardinality, Cardinality, Health!IsFiniteSet, IsFiniteSet

LEMMA HealthQuotientGrows ==
  ASSUME NEW a \in Nat, NEW b \in Nat, a <= b, NEW h \in Nat \ {0}
  PROVE  a \div h \in Nat /\ b \div h \in Nat /\ a \div h <= b \div h
<1> DEFINE p == a \div h
           q == b \div h
           r == a % h
           s == b % h
<1>1. p \in Nat /\ q \in Nat /\ r \in 0..h - 1 /\ s \in 0..h - 1
  OBVIOUS
<1>2. a = h * p + r /\ b = h * q + s
  OBVIOUS
<1> HIDE DEF p, q, r, s
<1>3. ASSUME q < p PROVE FALSE
  <2>1. PICK k \in Nat : p = q + 1 + k
    <3>1. p - q - 1 \in Nat /\ p = q + 1 + (p - q - 1)
      BY <1>1, <1>3
    <3> QED BY <3>1
  <2>2. h * p = h * q + h + h * k /\ h * k >= 0
    BY <1>1, <2>1
  <2> QED BY <1>1, <1>2, <2>2
<1>4. p <= q
  BY <1>1, <1>3
<1> QED BY <1>1, <1>4 DEF p, q

LEMMA HealthStatusIsThatOfTheProbes ==
  ASSUME NEW configured \in SUBSET Health!Source, NEW ends, NEW sources, sources = Health!Status(configured, ends)
  PROVE  /\ (Health!StatusCode(sources) = 503) <=>
              configured # {} /\ \A s \in configured : ends[s] # "answers"
         /\ (Health!Overall(sources) = "ok") <=> \A s \in configured : ends[s] = "answers"
<1>1. Health!Checked(sources) = configured
  BY DEF Health!Checked, Health!Status, Health!Probed
<1>2. Health!Down(sources) = {s \in configured : ends[s] # "answers"}
  BY DEF Health!Down, Health!Status, Health!Probed
<1>3. /\ (Health!Overall(sources) = "ok") <=> Health!Down(sources) = {}
      /\ (Health!Overall(sources) = "down") <=> Health!Down(sources) # {} /\ Health!Down(sources) = Health!Checked(sources)
  <2>1. Health!Down(sources) \subseteq Health!Checked(sources)
    BY <1>1, <1>2
  <2>2. CASE Health!Checked(sources) = {} \/ Health!Down(sources) = {}
    BY <2>1, <2>2 DEF Health!Overall
  <2>3. CASE Health!Down(sources) # {} /\ Health!Down(sources) = Health!Checked(sources)
    BY <2>3 DEF Health!Overall
  <2>4. CASE Health!Down(sources) # {} /\ Health!Down(sources) # Health!Checked(sources)
    <3>1. Health!Overall(sources) = "degraded"
      BY <2>1, <2>4 DEF Health!Overall
    <3> QED BY <2>4, <3>1
  <2> QED BY <2>2, <2>3, <2>4
<1>4. Health!StatusCode(sources) = 503 <=> Health!Overall(sources) = "down"
  BY DEF Health!StatusCode
<1> QED BY <1>1, <1>2, <1>3, <1>4

HealthNoBetter(worse, services) ==
  /\ DOMAIN worse = DOMAIN services
  /\ \A i \in DOMAIN services :
       /\ Health!Healthy(worse[i]) => Health!Healthy(services[i])
       /\ Health!Critical(worse[i]) <=> Health!Critical(services[i])
       /\ Health!Kind(worse[i]) = Health!Kind(services[i])
  /\ Health!HealthScore(worse) <= Health!HealthScore(services)
  /\ Health!HealthScore(worse) \in Nat /\ Health!HealthScore(services) \in Nat

\* One more failure: no more services are healthy, and no other changes.
LEMMA HealthFailureLowers ==
  ASSUME NEW services \in Seq(HealthServices), NEW failing \in DOMAIN services,
         NEW worse, worse = [services EXCEPT ![failing].answer = "error"]
  PROVE  HealthNoBetter(worse, services)
<1> DEFINE n == Cardinality(DOMAIN services)
           old == {i \in DOMAIN services : Health!Healthy(services[i])}
           new == {i \in DOMAIN services : Health!Healthy(worse[i])}
<1>1. \A i \in DOMAIN services : services[i] \in HealthServices
  OBVIOUS
<1>2. PICK m \in Nat : DOMAIN services = 1..m /\ m # 0
  <2>1. DOMAIN services = 1..Len(services) /\ Len(services) \in Nat
    OBVIOUS
  <2>2. Len(services) # 0
    BY <2>1
  <2> QED BY <2>1, <2>2
<1>3. /\ DOMAIN worse = DOMAIN services
      /\ \A i \in DOMAIN services : i # failing => worse[i] = services[i]
      /\ worse[failing] = [services[failing] EXCEPT !.answer = "error"]
  OBVIOUS
<1>4. /\ ~Health!Healthy(worse[failing])
      /\ Health!Critical(worse[failing]) <=> Health!Critical(services[failing])
      /\ Health!Kind(worse[failing]) = Health!Kind(services[failing])
  <2> DEFINE s == services[failing]
             t == worse[failing]
  <2>1. s \in HealthServiceType /\ t = [s EXCEPT !.answer = "error"]
    BY <1>1, <1>3 DEF HealthServices
  <2> HIDE DEF s, t
  <2>2. /\ t.answer = "error" /\ t.external = s.external
        /\ t.database = s.database /\ t.auth = s.auth /\ t.primary = s.primary
    BY <2>1 DEF HealthServiceType
  <2>3. ~Health!Healthy(t) /\ (Health!Critical(t) <=> Health!Critical(s)) /\ Health!Kind(t) = Health!Kind(s)
    BY <2>2 DEF Health!Healthy, Health!Critical, Health!Kind
  <2> QED BY <2>3 DEF s, t
<1>5. \A i \in DOMAIN services :
        /\ Health!Healthy(worse[i]) => Health!Healthy(services[i])
        /\ Health!Critical(worse[i]) <=> Health!Critical(services[i])
        /\ Health!Kind(worse[i]) = Health!Kind(services[i])
  BY <1>3, <1>4
<1>6. n \in Nat \ {0} /\ IsFiniteSet(DOMAIN services)
  <2>1. IsFiniteSet(1..m) /\ Cardinality(1..m) = m
    BY <1>2, FS_Interval
  <2> QED BY <1>2, <2>1
<1>7. Health!Count(worse) \in Nat /\ Health!Count(services) \in Nat /\ Health!Count(worse) <= Health!Count(services)
  <2>1. Health!Count(worse) = Cardinality(new) /\ Health!Count(services) = Cardinality(old)
    BY <1>3, HealthCard DEF Health!Count
  <2>2. new \subseteq old /\ old \subseteq DOMAIN services
    BY <1>5
  <2> HIDE DEF new, old
  <2>3. IsFiniteSet(old) /\ IsFiniteSet(new)
    BY <1>6, <2>2, FS_Subset
  <2>4. Cardinality(new) <= Cardinality(old) /\ Cardinality(new) \in Nat /\ Cardinality(old) \in Nat
    BY <2>2, <2>3, FS_Subset, FS_CardinalityType
  <2> QED BY <2>1, <2>4
<1>8. /\ Health!HealthScore(worse) = (100 * Health!Count(worse)) \div n
      /\ Health!HealthScore(services) = (100 * Health!Count(services)) \div n
  <2>1. services # <<>> /\ worse # <<>>
    BY <1>2, <1>3
  <2> QED BY <1>3, <2>1, HealthCard DEF Health!HealthScore
<1>9. Health!HealthScore(worse) <= Health!HealthScore(services) /\ Health!HealthScore(worse) \in Nat /\ Health!HealthScore(services) \in Nat
  <2> HIDE DEF n
  <2>1. 100 * Health!Count(worse) \in Nat /\ 100 * Health!Count(services) \in Nat
        /\ 100 * Health!Count(worse) <= 100 * Health!Count(services)
    BY <1>7
  <2> QED BY <1>6, <1>8, <2>1, HealthQuotientGrows
<1> QED BY <1>3, <1>5, <1>9 DEF HealthNoBetter

\* The pod is taken out when it reaches nothing it watches; a failure never makes
\* the report look better, and a critical one is always an issue with a
\* recommendation (main.py 548-652, dependency_health.py 143-440).
THEOREM HealthIsTruthful ==
  ASSUME NEW configured \in SUBSET Health!Source, NEW ends, NEW services \in Seq(HealthServices), NEW failing
  PROVE  Health!HealthIsHonest(configured, ends, services, failing)
<1> DEFINE sources == Health!Status(configured, ends)
           worse == IF failing \in DOMAIN services
                    THEN [services EXCEPT ![failing].answer = "error"] ELSE services
<1>1. /\ (Health!StatusCode(sources) = 503) <=>
           configured # {} /\ \A s \in configured : ends[s] # "answers"
      /\ (Health!Overall(sources) = "ok") <=> \A s \in configured : ends[s] = "answers"
  <2>1. sources = Health!Status(configured, ends)
    OBVIOUS
  <2> HIDE DEF sources
  <2> QED BY <2>1, HealthStatusIsThatOfTheProbes
<1>2. /\ Health!HealthScore(worse) <= Health!HealthScore(services)
      /\ Health!Recommended(services) \subseteq Health!Recommended(worse)
  <2>1. CASE failing \in DOMAIN services
    <3> DEFINE fails == [services EXCEPT ![failing].answer = "error"]
    <3>0. fails = [services EXCEPT ![failing].answer = "error"]
      OBVIOUS
    <3> HIDE DEF fails
    <3>1. HealthNoBetter(fails, services)
      BY <2>1, <3>0, HealthFailureLowers
    <3>2. Health!CriticalIssues(services) \subseteq Health!CriticalIssues(fails)
      BY <3>1 DEF Health!CriticalIssues, HealthNoBetter
    <3>3. Health!HealthScore(services) < 80 => Health!HealthScore(fails) < 80
      BY <3>1 DEF HealthNoBetter
    <3>4. Health!Recommended(services) \subseteq Health!Recommended(fails)
      BY <3>2, <3>3 DEF Health!Recommended
    <3> QED BY <2>1, <3>1, <3>4 DEF fails, HealthNoBetter
  <2>2. CASE failing \notin DOMAIN services
    <3>1. Health!HealthScore(services) \in Int
      <4>1. CASE services = <<>>
        BY <4>1, HealthCard DEF Health!HealthScore
      <4>2. CASE services # <<>>
        <5>1. 1 \in DOMAIN services
          BY <4>2
        <5> DEFINE fails == [services EXCEPT ![1].answer = "error"]
        <5>2. fails = [services EXCEPT ![1].answer = "error"]
          OBVIOUS
        <5> HIDE DEF fails
        <5> QED BY <5>1, <5>2, HealthFailureLowers DEF HealthNoBetter
      <4> QED BY <4>1, <4>2
    <3> QED BY <2>2, <3>1
  <2> QED BY <2>1, <2>2
<1>3. \A i \in DOMAIN services :
        Health!Critical(services[i]) /\ ~Health!Healthy(services[i]) => [fix |-> i] \in Health!Recommended(services)
  <2> SUFFICES ASSUME NEW i \in DOMAIN services, Health!Critical(services[i]), ~Health!Healthy(services[i])
               PROVE  [fix |-> i] \in Health!Recommended(services)
    OBVIOUS
  <2>1. services[i] \in HealthServices
    OBVIOUS
  <2>2. Health!Kind(services[i]) \in {"upstream", "database", "external"}
    <3> DEFINE s == services[i]
    <3>1. s \in HealthServices /\ Health!Critical(s)
      BY <2>1
    <3> HIDE DEF s
    <3>2. Health!Kind(s) \in {"upstream", "database", "external"}
      BY <3>1 DEF HealthServices, HealthServiceType, Health!Critical, Health!Kind
    <3> QED BY <3>2 DEF s
  <2>3. i \in Health!CriticalIssues(services)
    BY <2>2 DEF Health!CriticalIssues
  <2> QED BY <2>3 DEF Health!Recommended
<1> HIDE DEF sources, worse
<1>4. Health!HealthIsHonest(configured, ends, services, failing) <=>
        /\ (Health!StatusCode(sources) = 503) <=>
             configured # {} /\ \A s \in configured : ends[s] # "answers"
        /\ (Health!Overall(sources) = "ok") <=> \A s \in configured : ends[s] = "answers"
        /\ Health!HealthScore(worse) <= Health!HealthScore(services)
        /\ Health!Recommended(services) \subseteq Health!Recommended(worse)
        /\ \A i \in DOMAIN services :
             Health!Critical(services[i]) /\ ~Health!Healthy(services[i]) => [fix |-> i] \in Health!Recommended(services)
  BY DEF Health!HealthIsHonest, sources, worse
<1> QED BY <1>1, <1>2, <1>3, <1>4

-----------------------------------------------------------------------------
(***************************************************************************)
(* What the model is shown of alerts and logs.                                *)
(***************************************************************************)
TriageNumbers == MaxEntries \in Nat /\ MaxGroups \in Nat \ {0}

\* The cardinality in TriageInput is the one of the theorems.
\* Ages in TriageInput are those of the lemmas above.
LEMMA TriageWindows ==
  /\ \A s, S : Triage!Kept(s, S) = Kept(s, S)
  /\ \A s, w : Triage!Inside(s, w) = Inside(s, w) /\ Triage!Aged(s, w) = Aged(s, w)
  /\ \A n, w : Triage!Older(n, w) = Older(n, w)
  BY DEF Triage!Kept, Kept, Triage!Inside, Inside, Triage!Aged, Aged, Triage!Older, Older

LEMMA TriageCard ==
  \A S : Triage!Cardinality(S) = Cardinality(S) /\ (Triage!IsFiniteSet(S) <=> IsFiniteSet(S))
  BY DEF Triage!Cardinality, Cardinality, Triage!IsFiniteSet, IsFiniteSet

LEMMA TriageMinIsLeast ==
  ASSUME NEW S \in SUBSET Nat, S # {}
  PROVE  Triage!Min(S) \in S /\ \A x \in S : Triage!Min(S) <= x
BY LeastNumber DEF Triage!Min

\* An injective function keeps the size of a set.
LEMMA TriageSameSize ==
  ASSUME NEW S, IsFiniteSet(S), NEW f, \A i, j \in S : f[i] = f[j] => i = j
  PROVE  /\ IsFiniteSet({f[i] : i \in S})
         /\ Cardinality({f[i] : i \in S}) = Cardinality(S)
<1> DEFINE g == [i \in S |-> f[i]]
           T == {f[i] : i \in S}
<1>1. g \in Bijection(S, T)
  <2>1. g \in [S -> T] /\ \A t \in T : \E i \in S : g[i] = t
    OBVIOUS
  <2>2. \A i, j \in S : g[i] = g[j] => i = j
    OBVIOUS
  <2> QED BY <2>1, <2>2 DEF Bijection, Injection, Surjection, IsInjective
<1>2. ExistsBijection(S, T)
  BY <1>1 DEF ExistsBijection
<1> QED BY <1>2, FS_Bijection

\* As many elements are kept as there are places with one of them.
LEMMA TriageKeptCount ==
  ASSUME NEW E, NEW S
  PROVE  \A s \in Seq(E) : Len(Kept(s, S)) = Cardinality({i \in DOMAIN s : s[i] \in S})
<1> DEFINE At(s) == {i \in DOMAIN s : s[i] \in S}
           Good == {s \in Seq(E) : Len(Kept(s, S)) = Cardinality(At(s)) /\ IsFiniteSet(At(s))}
<1>1. <<>> \in Good
  <2>1. At(<<>>) = {} /\ <<>> \in Seq(E) /\ Len(<<>>) = 0
    OBVIOUS
  <2>2. Kept(<<>>, S) = <<>>
    BY KeptEmpty
  <2> HIDE DEF At
  <2> QED BY <2>1, <2>2, FS_EmptySet
<1>2. ASSUME NEW s \in Seq(E), NEW e \in E, s \in Good PROVE Append(s, e) \in Good
  <2> DEFINE t == Append(s, e)
             n == Len(s) + 1
  <2>1. /\ t \in Seq(E) /\ DOMAIN t = 1..n /\ DOMAIN s = 1..Len(s) /\ Len(s) \in Nat /\ t[n] = e
        /\ \A i \in DOMAIN s : t[i] = s[i]
    OBVIOUS
  <2>2. Kept(t, S) = IF e \in S THEN Append(Kept(s, S), e) ELSE Kept(s, S)
    BY KeptAppend
  <2>3. Kept(s, S) \in Seq(E \cap S)
    BY KeptType
  <2> HIDE DEF t
  <2>4. ASSUME e \in S PROVE t \in Good
    <3>1. At(t) = At(s) \cup {n} /\ n \notin At(s)
      BY <2>1, <2>4
    <3>2. Len(Kept(t, S)) = Len(Kept(s, S)) + 1
      BY <2>2, <2>3, <2>4
    <3>3. Cardinality(At(t)) = Cardinality(At(s)) + 1 /\ IsFiniteSet(At(t))
      <4> HIDE DEF At
      <4> QED BY <1>2, <3>1, FS_AddElement
    <3> HIDE DEF At
    <3> QED BY <1>2, <2>1, <3>2, <3>3
  <2>5. ASSUME e \notin S PROVE t \in Good
    <3>1. At(t) = At(s)
      BY <2>1, <2>5
    <3>2. Kept(t, S) = Kept(s, S)
      BY <2>2, <2>5
    <3> HIDE DEF At
    <3> QED BY <1>2, <2>1, <3>1, <3>2
  <2> QED BY <2>4, <2>5 DEF t
<1>3. \A s \in Seq(E) : s \in Good
  <2> HIDE DEF Good
  <2> QED BY <1>1, <1>2, SequenceInduction
<1> QED BY <1>3

-----------------------------------------------------------------------------
(* The first k of a finite set of numbers                                     *)

TriageUpTo(F, i) == {f \in F : f <= i}
TriageFirstOnes(F, k) == {i \in F : Cardinality(TriageUpTo(F, i)) <= k}

LEMMA TriageUpToGrows ==
  ASSUME NEW F \in SUBSET Nat, IsFiniteSet(F), NEW i \in Nat, NEW j \in Nat, i <= j
  PROVE  /\ Cardinality(TriageUpTo(F, i)) <= Cardinality(TriageUpTo(F, j))
         /\ Cardinality(TriageUpTo(F, i)) \in Nat /\ Cardinality(TriageUpTo(F, j)) \in Nat
         /\ IsFiniteSet(TriageUpTo(F, j)) /\ Cardinality(TriageUpTo(F, j)) <= Cardinality(F)
<1>1. TriageUpTo(F, i) \in SUBSET TriageUpTo(F, j) /\ TriageUpTo(F, j) \in SUBSET F
  <2>1. ASSUME NEW f \in F, f <= i PROVE f <= j
    BY <2>1
  <2> QED BY <2>1 DEF TriageUpTo
<1>2. IsFiniteSet(TriageUpTo(F, j)) /\ Cardinality(TriageUpTo(F, j)) <= Cardinality(F)
  BY <1>1, FS_Subset
<1>3. IsFiniteSet(TriageUpTo(F, i)) /\ Cardinality(TriageUpTo(F, i)) <= Cardinality(TriageUpTo(F, j))
  BY <1>1, <1>2, FS_Subset
<1> QED BY <1>2, <1>3, FS_CardinalityType

LEMMA TriageNextOne ==
  ASSUME NEW F \in SUBSET Nat, IsFiniteSet(F), NEW k \in Nat, k < Cardinality(F),
         Cardinality(TriageFirstOnes(F, k)) = k
  PROVE  Cardinality(TriageFirstOnes(F, k + 1)) = k + 1
<1> DEFINE S == TriageFirstOnes(F, k)
           rest == F \ S
           C(i) == Cardinality(TriageUpTo(F, i))
<1>1. S \in SUBSET F /\ IsFiniteSet(S) /\ Cardinality(S) = k
  BY FS_Subset DEF TriageFirstOnes
<1>2. rest # {} /\ rest \in SUBSET Nat
  <2>1. S # F
    BY <1>1, FS_CardinalityType
  <2> HIDE DEF S
  <2> QED BY <1>1, <2>1
<1>3. PICK m \in rest : \A q \in rest : m <= q
  <2> HIDE DEF rest
  <2> QED BY <1>2, LeastNumber
<1>4. \A i \in F : C(i) \in Nat /\ (i \in S <=> C(i) <= k)
  <2>1. ASSUME NEW i \in F PROVE C(i) \in Nat
    BY TriageUpToGrows
  <2> QED BY <2>1 DEF TriageFirstOnes
<1>5. ASSUME NEW i \in S, NEW q \in rest PROVE i < q
  <2>1. i \in Nat /\ q \in Nat /\ C(i) <= k /\ ~(C(q) <= k) /\ C(i) \in Nat /\ C(q) \in Nat
    BY <1>1, <1>4
  <2>2. ASSUME q <= i PROVE C(q) <= C(i)
    BY <2>1, <2>2, TriageUpToGrows
  <2> HIDE DEF C
  <2> QED BY <2>1, <2>2
<1>6. TriageUpTo(F, m) = S \cup {m}
  <2>1. ASSUME NEW f \in F PROVE f <= m <=> f \in S \cup {m}
    <3>1. f \in S => f < m
      BY <1>3, <1>5
    <3>2. f \notin S => m <= f
      BY <1>3
    <3>3. m \in Nat /\ f \in Nat
      BY <1>2, <1>3
    <3> QED BY <3>1, <3>2, <3>3
  <2>2. S \cup {m} \subseteq F
    BY <1>1, <1>3
  <2> HIDE DEF S
  <2> QED BY <2>1, <2>2 DEF TriageUpTo
<1>7. Cardinality(S \cup {m}) = k + 1 /\ IsFiniteSet(S \cup {m})
  <2>1. m \notin S
    BY <1>3
  <2> HIDE DEF S
  <2> QED BY <1>1, <2>1, FS_AddElement
<1>8. ASSUME NEW q \in rest, q # m PROVE ~(C(q) <= k + 1)
  <2>1. m < q /\ q \in F /\ q \in Nat /\ m \in Nat
    BY <1>2, <1>3, <1>8
  <2>2. (S \cup {m}) \cup {q} \in SUBSET TriageUpTo(F, q) /\ q \notin S \cup {m}
    <3>1. \A i \in S : i < q /\ i \in F
      BY <1>1, <1>5
    <3>2. q \notin S /\ m \in F
      BY <1>3
    <3>3. m # q /\ \A i \in S \cup {m} \cup {q} : i \in F /\ i <= q
      <4> HIDE DEF S
      <4>1. ASSUME NEW i \in S PROVE i \in F /\ i <= q
        <5>1. i \in F /\ i < q /\ i \in Nat /\ q \in Nat
          BY <2>1, <3>1
        <5> QED BY <5>1
      <4> QED BY <1>8, <2>1, <3>2, <4>1
    <3> HIDE DEF S, rest
    <3> QED BY <3>2, <3>3 DEF TriageUpTo
  <2>3. Cardinality((S \cup {m}) \cup {q}) = k + 2
    <3> HIDE DEF S
    <3>1. Cardinality((S \cup {m}) \cup {q}) = Cardinality(S \cup {m}) + 1
      BY <1>7, <2>2, FS_AddElement
    <3> QED BY <1>7, <3>1
  <2>4. IsFiniteSet(TriageUpTo(F, q)) /\ C(q) \in Nat
    BY <2>1, TriageUpToGrows
  <2>5. k + 2 <= C(q)
    <3> HIDE DEF S
    <3> QED BY <2>2, <2>3, <2>4, FS_Subset
  <2> HIDE DEF C
  <2> QED BY <2>4, <2>5
<1>9. TriageFirstOnes(F, k + 1) = S \cup {m}
  <2>1. ASSUME NEW i \in F PROVE C(i) <= k + 1 <=> i \in S \cup {m}
    <3>1. CASE i \in S
      <4>1. C(i) <= k /\ C(i) \in Nat
        BY <1>4, <3>1
      <4> HIDE DEF C
      <4> QED BY <3>1, <4>1
    <3>2. CASE i = m
      BY <1>6, <1>7, <3>2
    <3>3. CASE i \notin S /\ i # m
      BY <1>8, <3>3
    <3> QED BY <3>1, <3>2, <3>3
  <2>2. S \cup {m} \subseteq F
    BY <1>1, <1>3
  <2>3. TriageFirstOnes(F, k + 1) = {i \in F : C(i) <= k + 1}
    BY DEF TriageFirstOnes
  <2> HIDE DEF S, C
  <2> QED BY <2>1, <2>2, <2>3
<1> QED BY <1>7, <1>9

LEMMA TriageFirstOnesCount ==
  ASSUME NEW F \in SUBSET Nat, IsFiniteSet(F), NEW k \in Nat
  PROVE  Cardinality(TriageFirstOnes(F, k)) = Triage!Min({k, Cardinality(F)})
<1> DEFINE T == {n \in Nat : n <= Cardinality(F) => Cardinality(TriageFirstOnes(F, n)) = n}
<1>1. Cardinality(F) \in Nat
  BY FS_CardinalityType
<1>2. 0 \in T
  <2>1. ASSUME NEW i \in F PROVE ~(Cardinality(TriageUpTo(F, i)) <= 0)
    <3>1. i \in TriageUpTo(F, i) /\ IsFiniteSet(TriageUpTo(F, i)) /\ Cardinality(TriageUpTo(F, i)) \in Nat
      BY TriageUpToGrows DEF TriageUpTo
    <3>2. Cardinality(TriageUpTo(F, i)) # 0
      BY <3>1, FS_EmptySet
    <3> QED BY <3>1, <3>2
  <2>2. TriageFirstOnes(F, 0) = {}
    BY <2>1 DEF TriageFirstOnes
  <2> QED BY <2>2, FS_EmptySet
<1>3. \A n \in Nat : n \in T => n + 1 \in T
  BY <1>1, TriageNextOne
<1> HIDE DEF T
<1>4. \A n \in Nat : n \in T
  BY <1>2, <1>3, SetInduction
<1>5. CASE k <= Cardinality(F)
  <2>1. Cardinality(TriageFirstOnes(F, k)) = k
    BY <1>4, <1>5 DEF T
  <2>2. Triage!Min({k, Cardinality(F)}) \in {k, Cardinality(F)} /\ Triage!Min({k, Cardinality(F)}) <= k
    BY <1>1, TriageMinIsLeast
  <2>3. Triage!Min({k, Cardinality(F)}) = k
    BY <1>1, <1>5, <2>2
  <2> QED BY <2>1, <2>3
<1>6. CASE ~(k <= Cardinality(F))
  <2>1. ASSUME NEW i \in F PROVE Cardinality(TriageUpTo(F, i)) <= k
    <3>1. Cardinality(TriageUpTo(F, i)) <= Cardinality(F) /\ Cardinality(TriageUpTo(F, i)) \in Nat
      BY TriageUpToGrows
    <3> QED BY <1>1, <1>6, <3>1
  <2>2. TriageFirstOnes(F, k) = F
    BY <2>1 DEF TriageFirstOnes
  <2>3. Triage!Min({k, Cardinality(F)}) \in {k, Cardinality(F)} /\ Triage!Min({k, Cardinality(F)}) <= Cardinality(F)
    BY <1>1, TriageMinIsLeast
  <2>4. Triage!Min({k, Cardinality(F)}) = Cardinality(F)
    BY <1>1, <1>6, <2>3
  <2> QED BY <2>2, <2>4
<1> QED BY <1>5, <1>6

-----------------------------------------------------------------------------
(* Alerts                                                                    *)

\* The first alert of each group stands for its rule.
LEMMA TriageGroupsHaveFirsts ==
  ASSUME NEW E, NEW alerts \in Seq(E)
  PROVE  /\ Triage!Firsts(alerts) \in SUBSET Nat /\ IsFiniteSet(Triage!Firsts(alerts))
         /\ Triage!Firsts(alerts) \in SUBSET DOMAIN alerts
         /\ \A i, j \in Triage!Firsts(alerts) : alerts[i].rule = alerts[j].rule => i = j
         /\ \A i \in DOMAIN alerts : \E j \in Triage!Firsts(alerts) : alerts[j].rule = alerts[i].rule
         /\ alerts # <<>> => 1 \in Triage!Firsts(alerts)
<1> DEFINE n == Len(alerts)
<1>1. n \in Nat /\ DOMAIN alerts = 1..n
  OBVIOUS
<1>2. Triage!Firsts(alerts) \in SUBSET (1..n)
  BY <1>1 DEF Triage!Firsts
<1>3. IsFiniteSet(Triage!Firsts(alerts))
  <2>1. IsFiniteSet(1..n)
    BY <1>1, FS_Interval
  <2> QED BY <1>2, <2>1, FS_Subset
<1>4. \A i \in 1..n : i \in Triage!GroupOf(alerts, i) /\ Triage!GroupOf(alerts, i) \in SUBSET (1..n)
  BY <1>1 DEF Triage!GroupOf
<1>5. ASSUME NEW i \in 1..n
      PROVE  /\ Triage!Min(Triage!GroupOf(alerts, i)) \in Triage!GroupOf(alerts, i)
             /\ \A x \in Triage!GroupOf(alerts, i) : Triage!Min(Triage!GroupOf(alerts, i)) <= x
  <2>1. Triage!GroupOf(alerts, i) \in SUBSET Nat /\ Triage!GroupOf(alerts, i) # {}
    BY <1>1, <1>4
  <2> QED BY <2>1, TriageMinIsLeast
<1>6. ASSUME NEW i \in 1..n, NEW j \in 1..n, alerts[i].rule = alerts[j].rule
      PROVE  Triage!GroupOf(alerts, i) = Triage!GroupOf(alerts, j)
  BY <1>6 DEF Triage!GroupOf
<1>7. \A i, j \in Triage!Firsts(alerts) : alerts[i].rule = alerts[j].rule => i = j
  <2> SUFFICES ASSUME NEW i \in Triage!Firsts(alerts), NEW j \in Triage!Firsts(alerts),
                      alerts[i].rule = alerts[j].rule
               PROVE  i = j
    OBVIOUS
  <2>1. Triage!GroupOf(alerts, i) = Triage!GroupOf(alerts, j)
    BY <1>2, <1>6
  <2> QED BY <2>1 DEF Triage!Firsts
<1>8. ASSUME NEW i \in DOMAIN alerts
      PROVE  \E j \in Triage!Firsts(alerts) : alerts[j].rule = alerts[i].rule
  <2> DEFINE j == Triage!Min(Triage!GroupOf(alerts, i))
  <2>1. j \in Triage!GroupOf(alerts, i)
    BY <1>1, <1>5
  <2> HIDE DEF j
  <2>2. j \in DOMAIN alerts /\ alerts[j].rule = alerts[i].rule
    BY <2>1 DEF Triage!GroupOf
  <2>3. Triage!GroupOf(alerts, j) = Triage!GroupOf(alerts, i)
    BY <1>1, <1>6, <2>2
  <2>4. j = Triage!Min(Triage!GroupOf(alerts, j))
    BY <2>3 DEF j
  <2> QED BY <2>2, <2>4 DEF Triage!Firsts
<1>9. alerts # <<>> => 1 \in Triage!Firsts(alerts)
  <2> SUFFICES ASSUME alerts # <<>> PROVE 1 \in Triage!Firsts(alerts)
    OBVIOUS
  <2>1. 1 \in 1..n
    BY <1>1
  <2>2. /\ Triage!Min(Triage!GroupOf(alerts, 1)) \in 1..n /\ Triage!Min(Triage!GroupOf(alerts, 1)) <= 1
    BY <1>4, <1>5, <2>1
  <2>3. 1 = Triage!Min(Triage!GroupOf(alerts, 1))
    BY <1>1, <2>2
  <2> QED BY <1>1, <2>1, <2>3 DEF Triage!Firsts
<1> QED BY <1>1, <1>2, <1>3, <1>7, <1>8, <1>9

\* What StormIsCounted says of one list of alerts.
TriageCounted(alerts) ==
  LET groups == Triage!DedupeAlerts(alerts)
      rules == {alerts[i].rule : i \in DOMAIN alerts}
  IN  /\ Cardinality(groups) = Triage!Min({MaxGroups, Cardinality(rules)})
      /\ Cardinality({g.rule : g \in groups}) = Cardinality(groups)
      /\ \A g \in groups :
           g.occurrences = Len(Kept(alerts, {e \in Triage!ToSet(alerts) : e.rule = g.rule}))
      /\ alerts # <<>> => \E g \in groups : g.rule = alerts[1].rule

LEMMA TriageAlertsAreCounted ==
  ASSUME TriageNumbers, NEW E, NEW alerts \in Seq(E)
  PROVE  TriageCounted(alerts)
<1> DEFINE F == Triage!Firsts(alerts)
           S == TriageFirstOnes(F, MaxGroups)
           rule == [i \in DOMAIN alerts |-> alerts[i].rule]
           entry == [i \in DOMAIN alerts |->
                       [rule |-> alerts[i].rule,
                        occurrences |-> Cardinality(Triage!GroupOf(alerts, i)),
                        shown |-> alerts[Triage!Max(Triage!GroupOf(alerts, i))]]]
           groups == Triage!DedupeAlerts(alerts)
           rules == {alerts[i].rule : i \in DOMAIN alerts}
           shownRules == {g.rule : g \in groups}
<1>1. /\ F \in SUBSET Nat /\ IsFiniteSet(F) /\ F \in SUBSET DOMAIN alerts
      /\ \A i, j \in F : alerts[i].rule = alerts[j].rule => i = j
      /\ \A i \in DOMAIN alerts : \E j \in F : alerts[j].rule = alerts[i].rule
      /\ alerts # <<>> => 1 \in F
  BY TriageGroupsHaveFirsts
<1>2. S \in SUBSET F /\ IsFiniteSet(S)
  BY <1>1, FS_Subset DEF TriageFirstOnes
<1>3. groups = {entry[i] : i \in S}
  <2>1. groups = {[rule |-> alerts[i].rule,
                   occurrences |-> Cardinality(Triage!GroupOf(alerts, i)),
                   shown |-> alerts[Triage!Max(Triage!GroupOf(alerts, i))]] : i \in S}
    BY TriageCard DEF Triage!DedupeAlerts, TriageFirstOnes, TriageUpTo
  <2>2. S \in SUBSET DOMAIN alerts
    BY <1>1, <1>2
  <2> HIDE DEF S, groups
  <2> QED BY <2>1, <2>2
<1>4. \A i \in DOMAIN alerts : entry[i].rule = alerts[i].rule /\ rule[i] = alerts[i].rule
  OBVIOUS
<1>5. \A i \in DOMAIN alerts : entry[i].occurrences = Cardinality(Triage!GroupOf(alerts, i))
  OBVIOUS
<1> HIDE DEF F, S, entry, rule
<1>6. Cardinality({rule[i] : i \in F}) = Cardinality(F) /\ {rule[i] : i \in F} = rules
  <2>1. \A i, j \in F : rule[i] = rule[j] => i = j
    BY <1>1, <1>4
  <2>2. \A i \in F : rule[i] \in rules
    BY <1>1, <1>4
  <2>3. ASSUME NEW r \in rules PROVE \E i \in F : r = rule[i]
    <3>1. PICK i \in DOMAIN alerts : r = alerts[i].rule
      OBVIOUS
    <3>2. PICK j \in F : alerts[j].rule = alerts[i].rule
      BY <1>1
    <3>3. rule[j] = alerts[j].rule
      BY <1>1, <1>4, <3>2
    <3> QED BY <3>1, <3>2, <3>3
  <2> HIDE DEF rules
  <2>4. {rule[i] : i \in F} = rules
    BY <2>2, <2>3
  <2>5. IsFiniteSet(F)
    BY <1>1
  <2>6. Cardinality({rule[i] : i \in F}) = Cardinality(F)
    BY <2>1, <2>5, TriageSameSize
  <2> QED BY <2>4, <2>6
<1>7. Cardinality(groups) = Cardinality(S)
  <2>1. ASSUME NEW i \in S, NEW j \in S, entry[i] = entry[j] PROVE i = j
    <3>1. i \in F /\ j \in F /\ i \in DOMAIN alerts /\ j \in DOMAIN alerts
      BY <1>1, <1>2
    <3>2. alerts[i].rule = alerts[j].rule
      BY <1>4, <2>1, <3>1
    <3> QED BY <1>1, <3>1, <3>2
  <2>2. Cardinality({entry[i] : i \in S}) = Cardinality(S)
    BY <1>2, <2>1, TriageSameSize
  <2> QED BY <1>3, <2>2
<1>8. Cardinality(S) = Triage!Min({MaxGroups, Cardinality(F)})
  BY <1>1, TriageFirstOnesCount DEF S, TriageNumbers
<1>9. Cardinality(shownRules) = Cardinality(S)
  <2>1. ASSUME NEW i \in S, NEW j \in S, rule[i] = rule[j] PROVE i = j
    <3>1. i \in F /\ j \in F /\ i \in DOMAIN alerts /\ j \in DOMAIN alerts
      BY <1>1, <1>2
    <3>2. alerts[i].rule = alerts[j].rule
      BY <1>4, <2>1, <3>1
    <3> QED BY <1>1, <3>1, <3>2
  <2>2. Cardinality({rule[i] : i \in S}) = Cardinality(S)
    BY <1>2, <2>1, TriageSameSize
  <2>3. shownRules = {rule[i] : i \in S}
    <3> HIDE DEF groups
    <3> QED BY <1>1, <1>2, <1>3, <1>4
  <2> QED BY <2>2, <2>3
<1>10. ASSUME NEW g \in groups
       PROVE  g.occurrences = Len(Kept(alerts, {e \in Triage!ToSet(alerts) : e.rule = g.rule}))
  <2>1. PICK i \in S : g = entry[i]
    BY <1>3
  <2>2. i \in DOMAIN alerts /\ g.rule = alerts[i].rule /\ g.occurrences = Cardinality(Triage!GroupOf(alerts, i))
    BY <1>1, <1>2, <1>4, <1>5, <2>1
  <2> DEFINE R == {e \in Triage!ToSet(alerts) : e.rule = g.rule}
  <2>3. {j \in DOMAIN alerts : alerts[j] \in R} = Triage!GroupOf(alerts, i)
    BY <2>2 DEF Triage!GroupOf, Triage!ToSet
  <2> HIDE DEF R
  <2>4. Len(Kept(alerts, R)) = Cardinality({j \in DOMAIN alerts : alerts[j] \in R})
    BY TriageKeptCount
  <2> QED BY <2>2, <2>3, <2>4 DEF R
<1>11. ASSUME alerts # <<>> PROVE \E g \in groups : g.rule = alerts[1].rule
  <2>1. 1 \in F /\ 1 \in DOMAIN alerts
    BY <1>1, <1>11
  <2>2. TriageUpTo(F, 1) = {1}
    <3>1. \A f \in F : f \in Nat /\ f # 0
      BY <1>1
    <3> QED BY <2>1, <3>1 DEF TriageUpTo
  <2>3. Cardinality(TriageUpTo(F, 1)) <= MaxGroups
    <3>1. Cardinality({1}) = 1
      BY FS_Singleton
    <3>2. Cardinality(TriageUpTo(F, 1)) = 1
      BY <2>2, <3>1
    <3>3. 1 <= MaxGroups
      BY DEF TriageNumbers
    <3> QED BY <3>2, <3>3
  <2>4. 1 \in S
    BY <2>1, <2>3 DEF S, TriageFirstOnes
  <2> QED BY <1>3, <1>4, <2>1, <2>4
<1> QED BY <1>6, <1>7, <1>8, <1>9, <1>10, <1>11 DEF TriageCounted

TriageEntries == [rule : Rule, status : {"firing", "resolved"}, at : Int]
TriageTypeOK == events \in Nat /\ triageHistory \in Seq(TriageEntries)

LEMMA TriageTypeNext == ASSUME TriageNumbers, TriageTypeOK, [Triage!Next]_(Triage!triageVars) PROVE TriageTypeOK'
<1>1. ASSUME NEW rule \in Rule, NEW status \in {"firing", "resolved"}, Triage!Happens(rule, status)
      PROVE  TriageTypeOK'
  <2> DEFINE event == [rule |-> rule, status |-> status, at |-> events + 1]
             longer == <<event>> \o triageHistory
             n == Triage!Min({Len(longer), MaxEntries})
  <2>1. event \in TriageEntries
    BY DEF TriageTypeOK, TriageEntries
  <2> HIDE DEF event
  <2>2. longer \in Seq(TriageEntries) /\ Len(longer) \in Nat
    BY <2>1 DEF TriageTypeOK
  <2>3. triageHistory' = SubSeq(longer, 1, n) /\ events' = events + 1
    BY <1>1 DEF Triage!Happens, Triage!Add, event
  <2> HIDE DEF longer
  <2>4. n \in Nat /\ n <= Len(longer)
    BY <2>2, TriageMinIsLeast DEF TriageNumbers
  <2> HIDE DEF n
  <2>5. SubSeq(longer, 1, n) \in Seq(TriageEntries)
    BY <2>2, <2>4
  <2> QED BY <2>3, <2>5 DEF TriageTypeOK
<1>2. ASSUME NEW rule \in Rule, Triage!FireAlert(rule) PROVE TriageTypeOK'
  BY <1>1, <1>2 DEF Triage!FireAlert
<1>3. ASSUME NEW rule \in Rule, Triage!ResolveAlert(rule) PROVE TriageTypeOK'
  BY <1>1, <1>3 DEF Triage!ResolveAlert
<1>4. CASE UNCHANGED Triage!triageVars
  BY <1>4 DEF Triage!triageVars, TriageTypeOK
<1> QED BY <1>2, <1>3, <1>4 DEF Triage!Next

(* An alert storm is shown whole (llm_input.py 124-164): each rule once, with  *)
(* all its occurrences, up to the limit, the newest alert's rule included.     *)
THEOREM StormsAreCounted == ASSUME TriageNumbers PROVE Triage!Spec => []Triage!StormIsCounted
<1>1. Triage!Init => TriageTypeOK
  <2>1. <<>> \in Seq(TriageEntries)
    OBVIOUS
  <2> QED BY <2>1 DEF Triage!Init, TriageTypeOK
<1>2. TriageTypeOK /\ [Triage!Next]_(Triage!triageVars) => TriageTypeOK'
  BY TriageTypeNext
<1>3. TriageTypeOK => Triage!StormIsCounted
  <2> SUFFICES ASSUME TriageTypeOK, NEW since \in 0..TriageMaxEvents
               PROVE  TriageCounted(Triage!InScope(since, {rule.severity : rule \in Rule}))
    BY TriageCard, TriageWindows DEF Triage!StormIsCounted, TriageCounted
  <2> DEFINE severities == {rule.severity : rule \in Rule}
             scope == {e \in Triage!ToSet(triageHistory) : e.at >= since /\ e.rule.severity \in severities}
  <2>1. Triage!InScope(since, severities) = Kept(triageHistory, scope)
    BY TriageWindows DEF Triage!InScope
  <2> HIDE DEF scope
  <2>2. Kept(triageHistory, scope) \in Seq(TriageEntries \cap scope)
    BY KeptType DEF TriageTypeOK
  <2> QED BY <2>1, <2>2, TriageAlertsAreCounted
<1> QED BY <1>1, <1>2, <1>3, PTL DEF Triage!Spec

-----------------------------------------------------------------------------
(* Logs                                                                      *)

TriageLogs == Seq([level : STRING, size : Nat])

\* What Estimate has summed up after n lines, as a recursive function.
TriageSums(f, part, n) ==
  /\ f = [i \in 0..n |-> f[i]]
  /\ f[0] = 0
  /\ \A i \in 1..n : f[i] = f[i - 1] + part[i]

LEMMA TriageSumsExist ==
  ASSUME NEW m \in Nat, NEW part \in [1..m -> Int]
  PROVE  \E f \in [0..m -> Int] : TriageSums(f, part, m)
<1> DEFINE Good == {n \in Nat : n <= m => \E f \in [0..n -> Int] : TriageSums(f, part, n)}
<1>1. 0 \in Good
  <2> DEFINE f == [i \in 0..0 |-> 0]
  <2>1. TriageSums(f, part, 0) /\ f \in [0..0 -> Int]
    BY DEF TriageSums
  <2> QED BY <2>1
<1>2. ASSUME NEW n \in Nat, n \in Good PROVE n + 1 \in Good
  <2> SUFFICES ASSUME n + 1 <= m PROVE \E f \in [0..n + 1 -> Int] : TriageSums(f, part, n + 1)
    OBVIOUS
  <2>1. PICK f \in [0..n -> Int] : TriageSums(f, part, n)
    BY <1>2
  <2> DEFINE last == f[n] + part[n + 1]
             g == [i \in 0..n + 1 |-> IF i = n + 1 THEN last ELSE f[i]]
  <2>2. \A i \in 0..n : g[i] = f[i]
    OBVIOUS
  <2>3. g[n + 1] = last /\ last \in Int
    OBVIOUS
  <2>4. \A i \in 1..n + 1 : g[i] = g[i - 1] + part[i]
    <3> SUFFICES ASSUME NEW i \in 1..n + 1 PROVE g[i] = g[i - 1] + part[i]
      OBVIOUS
    <3>1. i - 1 \in 0..n /\ g[i - 1] = f[i - 1]
      BY <2>2
    <3>2. CASE i = n + 1
      BY <2>3, <3>1, <3>2
    <3>3. CASE i # n + 1
      <4>1. i \in 1..n /\ i \in 0..n
        BY <3>3
      <4>2. f[i] = f[i - 1] + part[i] /\ g[i] = f[i]
        BY <2>1, <2>2, <4>1 DEF TriageSums
      <4> QED BY <3>1, <4>2
    <3> QED BY <3>2, <3>3
  <2>5. g = [i \in 0..n + 1 |-> g[i]] /\ g[0] = 0 /\ g \in [0..n + 1 -> Int]
    BY <2>1, <2>3 DEF TriageSums
  <2> QED BY <2>4, <2>5 DEF TriageSums
<1>3. \A n \in Nat : n \in Good
  <2> HIDE DEF Good
  <2> QED BY <1>1, <1>2, SetInduction
<1> QED BY <1>3

\* The size of a line as far as it is shown.
LEMMA TriagePartType ==
  ASSUME NEW logs \in TriageLogs, NEW kept, NEW cap \in Nat, NEW i \in 1..Len(logs)
  PROVE  (IF i \in kept THEN Triage!Min({logs[i].size, cap}) ELSE 0) \in Int
<1>1. logs[i].size \in Nat
  <2> DEFINE L == [level : STRING, size : Nat]
  <2>1. logs \in Seq(L)
    BY DEF TriageLogs
  <2>2. \A l \in L : l.size \in Nat
    OBVIOUS
  <2> HIDE DEF L
  <2>3. logs[i] \in L
    BY <2>1
  <2> QED BY <2>2, <2>3
<1>2. Triage!Min({logs[i].size, cap}) \in {logs[i].size, cap}
  BY <1>1, TriageMinIsLeast
<1> QED BY <1>1, <1>2

LEMMA TriageEstimateType ==
  ASSUME NEW logs \in TriageLogs, NEW kept, NEW cap \in Nat
  PROVE  Triage!Estimate(logs, kept, cap) \in Int
<1> DEFINE n == Len(logs)
           size(i) == IF i \in kept THEN Triage!Min({logs[i].size, cap}) ELSE 0
           part == [i \in 1..n |-> size(i)]
           Step(f) == [i \in 0..n |-> IF i = 0 THEN 0 ELSE f[i - 1] + size(i)]
           upto == CHOOSE f : f = Step(f)
<1>1. n \in Nat
  BY DEF TriageLogs
<1>2. \A i \in 1..n : size(i) \in Int
  BY TriagePartType
<1> HIDE DEF size
<1>3. part \in [1..n -> Int] /\ \A i \in 1..n : part[i] = size(i)
  BY <1>2
<1> HIDE DEF part
<1>4. PICK f \in [0..n -> Int] : TriageSums(f, part, n)
  BY <1>1, <1>3, TriageSumsExist
<1>5. f = Step(f)
  <2>1. ASSUME NEW i \in 0..n PROVE f[i] = Step(f)[i]
    <3>1. CASE i = 0
      BY <1>4, <3>1 DEF TriageSums
    <3>2. CASE i # 0
      <4>1. i \in 1..n
        BY <1>1, <3>2
      <4>2. f[i] = f[i - 1] + size(i)
        BY <1>3, <1>4, <4>1 DEF TriageSums
      <4> QED BY <3>2, <4>2
    <3> QED BY <3>1, <3>2
  <2>2. f = [i \in 0..n |-> f[i]]
    BY <1>4 DEF TriageSums
  <2>3. [i \in 0..n |-> f[i]] = Step(f)
    BY <2>1
  <2> QED BY <2>2, <2>3
<1>6. upto = Step(upto)
  <2> HIDE DEF Step
  <2> QED BY <1>5
<1> HIDE DEF upto
<1>7. \A i \in 0..n : upto[i] = IF i = 0 THEN 0 ELSE upto[i - 1] + size(i)
  BY <1>6
<1>8. upto[n] \in Int
  <2> DEFINE Good == {i \in Nat : i <= n => upto[i] \in Int}
  <2>1. 0 \in Good
    BY <1>1, <1>7
  <2>2. ASSUME NEW i \in Nat, i \in Good PROVE i + 1 \in Good
    <3> SUFFICES ASSUME i + 1 <= n PROVE upto[i + 1] \in Int
      OBVIOUS
    <3>1. i + 1 \in 0..n /\ i + 1 \in 1..n /\ i + 1 # 0 /\ (i + 1) - 1 = i /\ upto[i] \in Int
      BY <1>1, <2>2
    <3>2. upto[i + 1] = upto[i] + size(i + 1)
      BY <1>7, <3>1
    <3>3. size(i + 1) \in Int
      BY <1>2, <3>1
    <3> QED BY <3>1, <3>2, <3>3
  <2>3. \A i \in Nat : i \in Good
    <3> HIDE DEF Good
    <3> QED BY <2>1, <2>2, SetInduction
  <2> QED BY <1>1, <2>3
<1>9. Triage!Estimate(logs, kept, cap) = upto[n]
  BY DEF Triage!Estimate, upto, Step, size
<1> QED BY <1>8, <1>9

\* Each rung of the ladder takes fewer lines of each bucket.
TriageRungs == [trigger : Int, quota : [{"critical", "error", "warning", "info"} -> Int]]
TriageTightens(ladder) ==
  /\ ladder \in Seq(TriageRungs)
  /\ \A k, l \in DOMAIN ladder : k <= l =>
       /\ ladder[l].trigger <= ladder[k].trigger
       /\ \A b \in {"critical", "error", "warning", "info"} :
            ladder[l].quota[b] <= ladder[k].quota[b]

LEMMA TriageBucketType ==
  ASSUME NEW level
  PROVE  Triage!Bucket(level) \in {"critical", "error", "warning", "info"}
BY DEF Triage!Bucket

LEMMA TriageRankGrows ==
  ASSUME NEW logs \in TriageLogs, NEW i \in DOMAIN logs, NEW j \in DOMAIN logs, i <= j,
         Triage!Bucket(logs[i].level) = Triage!Bucket(logs[j].level)
  PROVE  Triage!RankInBucket(logs, i) <= Triage!RankInBucket(logs, j)
<1> DEFINE R(k) == {l \in 1..k : Triage!Bucket(logs[l].level) = Triage!Bucket(logs[k].level)}
<1>1. i \in Nat /\ j \in Nat
  BY DEF TriageLogs
<1>2. R(i) \in SUBSET R(j) /\ R(j) \in SUBSET (1..j)
  BY <1>1
<1>3. IsFiniteSet(1..j)
  BY <1>1, FS_Interval
<1>4. IsFiniteSet(R(j))
  BY <1>2, <1>3, FS_Subset
<1>5. Cardinality(R(i)) <= Cardinality(R(j))
  BY <1>2, <1>4, FS_Subset
<1> QED BY <1>5, TriageCard DEF Triage!RankInBucket

LEMMA TriageRankType ==
  ASSUME NEW logs \in TriageLogs, NEW i \in DOMAIN logs
  PROVE  Triage!RankInBucket(logs, i) \in Nat
<1> DEFINE R == {l \in 1..i : Triage!Bucket(logs[l].level) = Triage!Bucket(logs[i].level)}
<1>1. i \in Nat
  BY DEF TriageLogs
<1>2. IsFiniteSet(1..i)
  BY <1>1, FS_Interval
<1>3. IsFiniteSet(R)
  BY <1>2, FS_Subset
<1>4. Cardinality(R) \in Nat
  BY <1>3, FS_CardinalityType
<1> QED BY <1>4, TriageCard DEF Triage!RankInBucket

\* A tighter rung keeps no line that a wider one drops.
LEMMA TriageSampleShrinks ==
  ASSUME NEW logs \in TriageLogs, NEW ladder, TriageTightens(ladder),
         NEW k \in DOMAIN ladder, NEW l \in DOMAIN ladder, k <= l
  PROVE  Triage!SampleLogsBySeverity(logs, ladder[l]) \subseteq Triage!SampleLogsBySeverity(logs, ladder[k])
<1>1. /\ ladder[k] \in TriageRungs /\ ladder[l] \in TriageRungs
      /\ ladder[l].trigger <= ladder[k].trigger
      /\ \A b \in {"critical", "error", "warning", "info"} : ladder[l].quota[b] <= ladder[k].quota[b]
  BY DEF TriageTightens
<1>2. Len(logs) \in Nat
  BY DEF TriageLogs
<1>3. CASE Len(logs) <= ladder[k].trigger
  BY <1>3 DEF Triage!SampleLogsBySeverity
<1>4. CASE ~(Len(logs) <= ladder[k].trigger)
  <2>1. ~(Len(logs) <= ladder[l].trigger)
    BY <1>1, <1>2, <1>4 DEF TriageRungs
  <2>2. ASSUME NEW i \in DOMAIN logs,
               Triage!RankInBucket(logs, i) <= ladder[l].quota[Triage!Bucket(logs[i].level)]
        PROVE  Triage!RankInBucket(logs, i) <= ladder[k].quota[Triage!Bucket(logs[i].level)]
    <3> DEFINE b == Triage!Bucket(logs[i].level)
    <3>1. b \in {"critical", "error", "warning", "info"}
      BY TriageBucketType
    <3> HIDE DEF b
    <3>2. ladder[l].quota[b] \in Int /\ ladder[k].quota[b] \in Int
      BY <1>1, <3>1 DEF TriageRungs
    <3>3. Triage!RankInBucket(logs, i) \in Nat
      BY TriageRankType
    <3>4. Triage!RankInBucket(logs, i) <= ladder[l].quota[b]
      BY <2>2 DEF b
    <3>5. ladder[l].quota[b] <= ladder[k].quota[b]
      BY <1>1, <3>1
    <3>6. Triage!RankInBucket(logs, i) <= ladder[k].quota[b]
      BY <3>2, <3>3, <3>4, <3>5
    <3> QED BY <3>6 DEF b
  <2> QED BY <1>4, <2>1, <2>2 DEF Triage!SampleLogsBySeverity
<1> QED BY <1>3, <1>4

(* A larger budget never shows less, what is shown fits, and of two lines in   *)
(* one bucket the newer one stays (llm_client.py 294-350, llm_input.py 59-98). *)
THEOREM BudgetsAreMonotone ==
  ASSUME NEW logs \in TriageLogs, NEW ladder, TriageTightens(ladder), NEW cap \in Nat,
         NEW low \in Int, NEW high \in Int
  PROVE  Triage!BudgetIsMonotone(logs, ladder, cap, low, high)
<1> DEFINE kept(k) == Triage!SampleLogsBySeverity(logs, ladder[k])
           fits(b) == {k \in DOMAIN ladder : kept(k) # {} /\ Triage!Estimate(logs, kept(k), cap) <= b}
           shown(b) == Triage!FitLogsSection(logs, ladder, cap, b)
<1>1. \A b : shown(b) = IF fits(b) = {} THEN {} ELSE kept(Triage!Min(fits(b)))
  BY DEF Triage!FitLogsSection
<1>2. \A b : fits(b) \in SUBSET DOMAIN ladder
  OBVIOUS
<1>3. DOMAIN ladder \in SUBSET Nat
  BY DEF TriageTightens
<1>4. ASSUME NEW b \in Int, fits(b) # {}
      PROVE  /\ Triage!Min(fits(b)) \in fits(b) /\ \A k \in fits(b) : Triage!Min(fits(b)) <= k
  <2> HIDE DEF fits
  <2>1. fits(b) \in SUBSET Nat
    BY <1>2, <1>3
  <2> QED BY <1>4, <2>1, TriageMinIsLeast
<1>5. \A k \in DOMAIN ladder : Triage!Estimate(logs, kept(k), cap) \in Int
  BY TriageEstimateType
<1>6. \A b : \A k \in fits(b) :
        k \in DOMAIN ladder /\ kept(k) # {} /\ Triage!Estimate(logs, kept(k), cap) <= b
  OBVIOUS
<1>7. low <= high => fits(low) \subseteq fits(high)
  <2> SUFFICES ASSUME low <= high, NEW k \in fits(low) PROVE k \in fits(high)
    OBVIOUS
  <2> DEFINE e == Triage!Estimate(logs, kept(k), cap)
  <2>1. k \in DOMAIN ladder /\ kept(k) # {} /\ e <= low
    OBVIOUS
  <2>2. e \in Int
    BY <1>5, <2>1
  <2> HIDE DEF e
  <2>3. e <= high
    BY <2>1, <2>2
  <2> QED BY <2>1, <2>3 DEF e
<1>8. \A k, l \in DOMAIN ladder : k <= l => kept(l) \subseteq kept(k)
  BY TriageSampleShrinks
<1> HIDE DEF fits
<1>9. low <= high => shown(low) \subseteq shown(high)
  <2> SUFFICES ASSUME low <= high, fits(low) # {} PROVE shown(low) \subseteq shown(high)
    BY <1>1
  <2> DEFINE k == Triage!Min(fits(high))
             l == Triage!Min(fits(low))
  <2>1. fits(high) # {} /\ l \in fits(low)
    BY <1>4, <1>7
  <2>2. k \in fits(high) /\ k <= l /\ k \in DOMAIN ladder /\ l \in DOMAIN ladder
    BY <1>2, <1>4, <1>7, <2>1
  <2> HIDE DEF k, l, kept
  <2>3. kept(l) \subseteq kept(k)
    BY <1>8, <2>2
  <2>4. shown(low) = kept(l) /\ shown(high) = kept(k)
    BY <1>1, <2>1 DEF k, l
  <2> QED BY <2>3, <2>4
<1>10. ASSUME shown(high) # {}
       PROVE  /\ Triage!Estimate(logs, shown(high), cap) <= high
              /\ \A i \in shown(high), j \in DOMAIN logs \ shown(high) :
                   Triage!Bucket(logs[i].level) = Triage!Bucket(logs[j].level) => i < j
  <2> DEFINE k == Triage!Min(fits(high))
  <2>1. k \in fits(high) /\ shown(high) = kept(k)
    BY <1>1, <1>4, <1>10
  <2>2. k \in DOMAIN ladder /\ Triage!Estimate(logs, kept(k), cap) <= high
    BY <1>6, <2>1
  <2> HIDE DEF k
  <2>3. ASSUME NEW i \in kept(k), NEW j \in DOMAIN logs \ kept(k),
               Triage!Bucket(logs[i].level) = Triage!Bucket(logs[j].level)
        PROVE  i < j
    <3> DEFINE q == ladder[k].quota[Triage!Bucket(logs[i].level)]
    <3>1. /\ i \in DOMAIN logs /\ Triage!RankInBucket(logs, i) <= q /\ ~(Triage!RankInBucket(logs, j) <= q)
      BY <2>3 DEF Triage!SampleLogsBySeverity
    <3>2. i \in Nat /\ j \in Nat
      BY <3>1 DEF TriageLogs
    <3>3. q \in Int
      <4>1. ladder[k] \in TriageRungs
        BY <2>2 DEF TriageTightens
      <4>2. Triage!Bucket(logs[i].level) \in {"critical", "error", "warning", "info"}
        BY TriageBucketType
      <4> QED BY <4>1, <4>2 DEF TriageRungs
    <3> HIDE DEF q
    <3>4. ASSUME j <= i PROVE FALSE
      <4>1. Triage!RankInBucket(logs, j) <= Triage!RankInBucket(logs, i)
        BY <2>3, <3>1, <3>4, TriageRankGrows
      <4>2. Triage!RankInBucket(logs, i) \in Nat /\ Triage!RankInBucket(logs, j) \in Nat
        BY <3>1, TriageRankType
      <4> QED BY <3>1, <3>3, <4>1, <4>2
    <3> QED BY <3>2, <3>4
  <2> HIDE DEF kept, shown
  <2> QED BY <2>1, <2>2, <2>3
<1> HIDE DEF shown
<1>11. low <= high =>
         /\ shown(low) \subseteq shown(high)
         /\ shown(high) # {} => Triage!Estimate(logs, shown(high), cap) <= high
         /\ \A i \in shown(high), j \in DOMAIN logs \ shown(high) :
              Triage!Bucket(logs[i].level) = Triage!Bucket(logs[j].level) => i < j
  BY <1>9, <1>10
<1> QED BY <1>11 DEF Triage!BudgetIsMonotone, shown

-----------------------------------------------------------------------------
(***************************************************************************)
(* What the caller of an analysis is told of the answer.                      *)
(***************************************************************************)
AnswersTokenLines == {Answers!TokenLine(t) : t \in Token}
AnswersLine == AnswersTokenLines \cup [type : {"complete"}, text : Seq(Token)]
          \cup [type : {"error"}, text : Seq(Token)]

\* The lines mirror the tokens, a "complete" line comes when no token can follow
\* it, and only errors do.
AnswersInv ==
  /\ text \in Seq(Token) /\ lines \in Seq(AnswersLine)
  /\ mode = "card" => lines = <<>>
  /\ mode # "card" => Kept(lines, AnswersTokenLines) = [i \in DOMAIN text |-> Answers!TokenLine(text[i])]
  /\ \A i \in DOMAIN lines : lines[i].type = "complete" =>
       /\ provider # "tokens"
       /\ lines[i].text = text
       /\ \A j \in i + 1..Len(lines) : lines[j].type = "error"

\* Ages in TriageAnswer are those of the lemmas above.
LEMMA AnswersWindows ==
  /\ \A s, S : Answers!Kept(s, S) = Kept(s, S)
  /\ \A s, w : Answers!Inside(s, w) = Inside(s, w) /\ Answers!Aged(s, w) = Aged(s, w)
  /\ \A n, w : Answers!Older(n, w) = Older(n, w)
  BY DEF Answers!Kept, Kept, Answers!Inside, Inside, Answers!Aged, Aged, Answers!Older, Older

LEMMA AnswersInvInit == Answers!Init => AnswersInv
<1> SUFFICES ASSUME Answers!Init PROVE AnswersInv
  OBVIOUS
<1>1. Kept(lines, AnswersTokenLines) = <<>>
  BY KeptEmpty DEF Answers!Init
<1>2. text = <<>> /\ lines = <<>> /\ <<>> \in Seq(Token) /\ <<>> \in Seq(AnswersLine) /\ DOMAIN <<>> = {}
  BY DEF Answers!Init
<1>3. [i \in DOMAIN text |-> Answers!TokenLine(text[i])] = <<>>
  BY <1>2
<1> QED BY <1>1, <1>2, <1>3 DEF AnswersInv

\* A line at the end that is no token and does not complete the answer.
LEMMA AnswersErrorKeeps ==
  ASSUME AnswersInv, lines' = Append(lines, Answers!ErrorLine), mode # "card", mode' = mode, text' = text,
         provider' = provider \/ provider' # "tokens"
  PROVE  AnswersInv'
<1>1. Answers!ErrorLine \in AnswersLine /\ Answers!ErrorLine \notin AnswersTokenLines /\ Answers!ErrorLine.type = "error"
  <2>1. <<>> \in Seq(Token)
    OBVIOUS
  <2>2. \A l \in AnswersTokenLines : l.type = "token"
    BY DEF AnswersTokenLines, Answers!TokenLine
  <2> QED BY <2>1, <2>2 DEF Answers!ErrorLine, AnswersLine
<1>2. lines \in Seq(AnswersLine) /\ text \in Seq(Token)
  BY DEF AnswersInv
<1>3. Kept(Append(lines, Answers!ErrorLine), AnswersTokenLines) = Kept(lines, AnswersTokenLines)
  BY <1>1, <1>2, KeptAppend
<1>4. /\ lines' \in Seq(AnswersLine) /\ Len(lines') = Len(lines) + 1 /\ lines'[Len(lines) + 1] = Answers!ErrorLine
      /\ \A i \in DOMAIN lines : lines'[i] = lines[i] /\ i \in 1..Len(lines)
      /\ DOMAIN lines' = 1..Len(lines) + 1 /\ Len(lines) \in Nat
  BY <1>1, <1>2
<1>5. ASSUME NEW i \in DOMAIN lines', lines'[i].type = "complete"
      PROVE  /\ provider' # "tokens" /\ lines'[i].text = text'
             /\ \A j \in i + 1..Len(lines') : lines'[j].type = "error"
  <2>1. i \in DOMAIN lines /\ lines[i].type = "complete"
    BY <1>1, <1>2, <1>4, <1>5
  <2>2. /\ provider # "tokens" /\ lines[i].text = text
        /\ \A j \in i + 1..Len(lines) : lines[j].type = "error"
    BY <2>1 DEF AnswersInv
  <2>3. ASSUME NEW j \in i + 1..Len(lines') PROVE lines'[j].type = "error"
    <3>1. CASE j = Len(lines) + 1
      BY <1>1, <1>4, <3>1
    <3>2. CASE j # Len(lines) + 1
      <4>1. j \in i + 1..Len(lines) /\ j \in DOMAIN lines
        BY <1>2, <1>4, <2>1, <3>2
      <4> QED BY <1>4, <2>2, <4>1
    <3> QED BY <3>1, <3>2
  <2> QED BY <1>4, <2>1, <2>2, <2>3
<1>6. Kept(lines', AnswersTokenLines) = [i \in DOMAIN text' |-> Answers!TokenLine(text'[i])]
  BY <1>3 DEF AnswersInv
<1>7. /\ text' \in Seq(Token) /\ lines' \in Seq(AnswersLine) /\ mode' # "card"
  BY <1>2, <1>4
<1> QED BY <1>5, <1>6, <1>7 DEF AnswersInv

LEMMA AnswersTokenKeeps ==
  ASSUME AnswersInv, NEW t \in Token, Answers!StreamToken(t)
  PROVE  AnswersInv'
<1>1. /\ text \in Seq(Token) /\ lines \in Seq(AnswersLine) /\ provider = "tokens" /\ provider' = provider
      /\ mode' = mode /\ text' = Append(text, t)
      /\ \A i \in DOMAIN lines : lines[i].type # "complete"
  BY DEF AnswersInv, Answers!StreamToken
<1>2. text' \in Seq(Token) /\ DOMAIN text' = 1..Len(text) + 1 /\ DOMAIN text = 1..Len(text)
  BY <1>1
<1>3. CASE mode = "card"
  <2>1. lines' = lines /\ lines = <<>> /\ mode' = "card"
    BY <1>1, <1>3 DEF Answers!StreamToken, AnswersInv
  <2> QED BY <1>1, <1>2, <2>1 DEF AnswersInv
<1>4. CASE mode # "card"
  <2>1. lines' = Append(lines, Answers!TokenLine(t)) /\ Answers!TokenLine(t) \in AnswersTokenLines /\ Answers!TokenLine(t) \in AnswersLine
    BY <1>4 DEF Answers!StreamToken, AnswersTokenLines, AnswersLine
  <2>2. Answers!TokenLine(t).type = "token"
    BY DEF Answers!TokenLine
  <2>3. Kept(lines', AnswersTokenLines) = Append(Kept(lines, AnswersTokenLines), Answers!TokenLine(t))
    BY <1>1, <2>1, KeptAppend
  <2>4. Kept(lines, AnswersTokenLines) = [i \in DOMAIN text |-> Answers!TokenLine(text[i])]
    BY <1>4 DEF AnswersInv
  <2>5. Kept(lines', AnswersTokenLines) = [i \in DOMAIN text' |-> Answers!TokenLine(text'[i])]
    <3> DEFINE old == [i \in DOMAIN text |-> Answers!TokenLine(text[i])]
               new == [i \in DOMAIN text' |-> Answers!TokenLine(text'[i])]
    <3>1. old \in Seq(AnswersTokenLines) /\ Len(old) = Len(text)
      BY <1>1 DEF AnswersTokenLines
    <3>2. new \in Seq(AnswersTokenLines) /\ Len(new) = Len(text) + 1
      BY <1>1, <1>2 DEF AnswersTokenLines
    <3>3. /\ Append(old, Answers!TokenLine(t)) \in Seq(AnswersTokenLines) /\ Len(Append(old, Answers!TokenLine(t))) = Len(text) + 1
      BY <2>1, <3>1
    <3>4. ASSUME NEW i \in 1..Len(text) + 1 PROVE new[i] = Append(old, Answers!TokenLine(t))[i]
      <4>1. CASE i = Len(text) + 1
        BY <1>1, <1>2, <3>1, <4>1
      <4>2. CASE i # Len(text) + 1
        <5>1. i \in 1..Len(text) /\ text'[i] = text[i]
          BY <1>1, <4>2
        <5>2. new[i] = Answers!TokenLine(text[i]) /\ old[i] = Answers!TokenLine(text[i])
          BY <1>2, <5>1
        <5>3. Append(old, Answers!TokenLine(t))[i] = old[i]
          <6> HIDE DEF old
          <6> QED BY <3>1, <5>1
        <5> QED BY <5>2, <5>3
      <4> QED BY <4>1, <4>2
    <3>5. new = Append(old, Answers!TokenLine(t))
      <4> HIDE DEF old, new
      <4> QED BY <3>2, <3>3, <3>4
    <3> QED BY <2>3, <2>4, <3>5
  <2>6. ASSUME NEW i \in DOMAIN lines' PROVE lines'[i].type # "complete"
    BY <1>1, <2>1, <2>2
  <2>7. lines' \in Seq(AnswersLine)
    BY <1>1, <2>1
  <2> QED BY <1>1, <1>2, <1>4, <2>5, <2>6, <2>7 DEF AnswersInv
<1> QED BY <1>3, <1>4

LEMMA AnswersStopKeeps ==
  ASSUME AnswersInv, Answers!StreamStop
  PROVE  AnswersInv'
<1>1. /\ text \in Seq(Token) /\ lines \in Seq(AnswersLine) /\ provider = "tokens" /\ provider' = "stopped"
      /\ mode # "card" /\ mode' = mode /\ text' = text /\ lines' = Append(lines, Answers!CompleteLine)
      /\ \A i \in DOMAIN lines : lines[i].type # "complete"
  BY DEF AnswersInv, Answers!StreamStop
<1>2. Answers!CompleteLine \in AnswersLine /\ Answers!CompleteLine \notin AnswersTokenLines /\ Answers!CompleteLine.text = text
  <2>1. \A l \in AnswersTokenLines : l.type = "token"
    BY DEF AnswersTokenLines, Answers!TokenLine
  <2> QED BY <1>1, <2>1 DEF Answers!CompleteLine, AnswersLine
<1>3. Kept(lines', AnswersTokenLines) = Kept(lines, AnswersTokenLines)
  BY <1>1, <1>2, KeptAppend
<1>4. lines' \in Seq(AnswersLine) /\ Len(lines') = Len(lines) + 1
  BY <1>1, <1>2
<1>5. ASSUME NEW i \in DOMAIN lines', lines'[i].type = "complete"
      PROVE  /\ provider' # "tokens" /\ lines'[i].text = text'
             /\ \A j \in i + 1..Len(lines') : lines'[j].type = "error"
  <2>1. i = Len(lines) + 1 /\ lines'[i] = Answers!CompleteLine
    BY <1>1, <1>5
  <2>2. i + 1..Len(lines') = {}
    BY <1>1, <1>4, <2>1
  <2> QED BY <1>1, <1>2, <2>1, <2>2
<1>6. Kept(lines', AnswersTokenLines) = [i \in DOMAIN text' |-> Answers!TokenLine(text'[i])]
  BY <1>1, <1>3 DEF AnswersInv
<1> QED BY <1>1, <1>4, <1>5, <1>6 DEF AnswersInv

\* Nothing changes but the provider, which closes.
LEMMA AnswersSilentKeeps ==
  ASSUME AnswersInv, lines' = lines, mode' = mode, text' = text,
         provider' = provider \/ provider' # "tokens"
  PROVE  AnswersInv'
BY DEF AnswersInv

LEMMA AnswersFinishKeeps ==
  ASSUME AnswersInv, Answers!Finish(Answers!Failure), mode' = mode, text' = text,
         provider' = provider \/ provider' # "tokens"
  PROVE  AnswersInv'
<1>1. CASE mode = "card"
  BY <1>1, AnswersSilentKeeps DEF Answers!Finish
<1>2. CASE mode # "card"
  BY <1>2, AnswersErrorKeeps DEF Answers!Finish
<1> QED BY <1>1, <1>2

LEMMA AnswersInvNext == AnswersInv /\ [Answers!Next]_(Answers!answerVars) => AnswersInv'
<1> SUFFICES ASSUME AnswersInv, [Answers!Next]_(Answers!answerVars) PROVE AnswersInv'
  OBVIOUS
<1>1. ASSUME NEW s \in AnswersSource, Answers!Collect(s) PROVE AnswersInv'
  BY <1>1, AnswersSilentKeeps DEF Answers!Collect
<1>2. ASSUME NEW t \in Token, Answers!StreamToken(t) PROVE AnswersInv'
  BY <1>2, AnswersTokenKeeps
<1>3. CASE Answers!NotConfigured
  BY <1>3, AnswersFinishKeeps DEF Answers!NotConfigured
<1>4. CASE Answers!StreamStop
  BY <1>4, AnswersStopKeeps
<1>5. CASE Answers!StreamEnd
  BY <1>5, AnswersSilentKeeps DEF Answers!StreamEnd
<1>6. CASE Answers!ProviderFails
  BY <1>6, AnswersFinishKeeps DEF Answers!ProviderFails
<1>7. CASE Answers!CardAnswer
  BY <1>7, AnswersSilentKeeps DEF Answers!CardAnswer
<1>8. CASE Answers!CallerLeaves
  BY <1>8, AnswersSilentKeeps DEF Answers!CallerLeaves
<1>9. CASE UNCHANGED Answers!answerVars
  BY <1>9, AnswersSilentKeeps DEF Answers!answerVars
<1>10. CASE Answers!StreamCut
  BY <1>10, AnswersSilentKeeps DEF Answers!StreamCut
<1> QED BY <1>1, <1>2, <1>3, <1>4, <1>5, <1>6, <1>7, <1>8, <1>9, <1>10 DEF Answers!Next

LEMMA AnswersInvTells == AnswersInv => Answers!StreamTellsTheTruth
<1> SUFFICES ASSUME AnswersInv, NEW i \in DOMAIN lines, lines[i].type = "complete"
             PROVE  /\ lines[i].text = Answers!Streamed
                    /\ \A j \in i + 1..Len(lines) : lines[j].type = "error"
  BY DEF Answers!StreamTellsTheTruth
<1>1. mode # "card" /\ text \in Seq(Token)
  BY DEF AnswersInv
<1>2. lines[i].text = text /\ \A j \in i + 1..Len(lines) : lines[j].type = "error"
  BY DEF AnswersInv
<1> DEFINE shown == Kept(lines, AnswersTokenLines)
<1>3. shown = [k \in DOMAIN text |-> Answers!TokenLine(text[k])]
  BY <1>1 DEF AnswersInv
<1>4. Answers!Streamed = [k \in DOMAIN shown |-> shown[k].text[1]]
  BY AnswersWindows DEF Answers!Streamed, AnswersTokenLines
<1> HIDE DEF shown
<1>5. DOMAIN shown = DOMAIN text /\ \A k \in DOMAIN text : shown[k].text[1] = text[k]
  BY <1>3 DEF Answers!TokenLine
<1>6. Answers!Streamed = [k \in DOMAIN text |-> text[k]]
  BY <1>4, <1>5
<1>7. text = [k \in DOMAIN text |-> text[k]]
  BY <1>1
<1> QED BY <1>2, <1>6, <1>7

(* The complete answer is what was streamed before it, and only errors follow  *)
(* it (llm_client.py 565-768).                                               *)
THEOREM AnswersAreTrue == Answers!Spec => []Answers!StreamTellsTheTruth
<1> QED BY AnswersInvInit, AnswersInvNext, AnswersInvTells, PTL DEF Answers!Spec

-----------------------------------------------------------------------------
(***************************************************************************)
(* What is decided about a command before it runs.                            *)
(***************************************************************************)
\* The first element that is kept.
\* Ages in CommandPolicy are those of the lemmas above.
LEMMA CommandsWindows ==
  /\ \A s, S : Commands!Kept(s, S) = Kept(s, S)
  /\ \A s, w : Commands!Inside(s, w) = Inside(s, w) /\ Commands!Aged(s, w) = Aged(s, w)
  /\ \A n, w : Commands!Older(n, w) = Older(n, w)
  BY DEF Commands!Kept, Kept, Commands!Inside, Inside, Commands!Aged, Aged, Commands!Older, Older

LEMMA CommandsKeptFirst ==
  ASSUME NEW E, NEW S
  PROVE  \A s \in Seq(E) : \A m \in DOMAIN s :
           s[m] \in S /\ (\A i \in 1..m - 1 : s[i] \notin S) =>
             Kept(s, S) # <<>> /\ Kept(s, S)[1] = s[m]
<1> DEFINE First(s, m) == s[m] \in S /\ \A i \in 1..m - 1 : s[i] \notin S
           Found(s, m) == Kept(s, S) # <<>> /\ Kept(s, S)[1] = s[m]
           Good == {s \in Seq(E) : \A m \in DOMAIN s : First(s, m) => Found(s, m)}
<1>1. <<>> \in Good
  OBVIOUS
<1>2. ASSUME NEW s \in Seq(E), NEW e \in E, s \in Good PROVE Append(s, e) \in Good
  <2> DEFINE t == Append(s, e)
  <2>1. /\ t \in Seq(E) /\ DOMAIN t = 1..Len(s) + 1 /\ DOMAIN s = 1..Len(s) /\ Len(s) \in Nat
        /\ t[Len(s) + 1] = e /\ \A i \in DOMAIN s : t[i] = s[i]
    OBVIOUS
  <2>2. Kept(t, S) = IF e \in S THEN Append(Kept(s, S), e) ELSE Kept(s, S)
    BY KeptAppend
  <2>3. Kept(s, S) \in Seq(E \cap S)
    BY KeptType
  <2> HIDE DEF t
  <2>4. ASSUME NEW m \in DOMAIN t, First(t, m) PROVE Found(t, m)
    <3>1. CASE m \in DOMAIN s
      <4>1. First(s, m) /\ t[m] = s[m]
        BY <2>1, <2>4, <3>1
      <4>2. Found(s, m)
        BY <1>2, <3>1, <4>1
      <4>3. Append(Kept(s, S), e) # <<>> /\ Append(Kept(s, S), e)[1] = Kept(s, S)[1]
        BY <2>3, <4>2
      <4> QED BY <2>2, <4>1, <4>2, <4>3
    <3>2. CASE m = Len(s) + 1
      <4>1. e \in S /\ \A i \in DOMAIN s : s[i] \notin S
        BY <2>1, <2>4, <3>2
      <4>2. Kept(s, S) = <<>>
        <5>1. ASSUME Kept(s, S) # <<>> PROVE FALSE
          <6>1. 1 \in DOMAIN Kept(s, S) /\ Kept(s, S)[1] \in S
            BY <2>3, <5>1
          <6>2. PICK j \in DOMAIN s : Kept(s, S)[1] = s[j]
            BY <6>1, KeptFrom
          <6> QED BY <4>1, <6>1, <6>2
        <5> QED BY <5>1
      <4>3. Kept(t, S) = <<e>>
        BY <2>2, <4>1, <4>2
      <4>4. t[m] = e
        BY <2>1, <3>2
      <4>5. <<e>> # <<>> /\ <<e>>[1] = e
        OBVIOUS
      <4> QED BY <4>3, <4>4, <4>5
    <3> QED BY <2>1, <2>4, <3>1, <3>2
  <2> HIDE DEF First, Found
  <2>5. t \in Good
    BY <2>1, <2>4
  <2> QED BY <2>5 DEF t
<1>3. \A s \in Seq(E) : s \in Good
  <2> HIDE DEF Good
  <2> QED BY <1>1, <1>2, SequenceInduction
<1> QED BY <1>3

-----------------------------------------------------------------------------
(* Commands are sequences of tokens; the provers do not know that a literal    *)
(* is a text.                                                                *)
CommandsToken == STRING \cup {"kubectl", "helm", "argocd"}

\* Between the binary and the token m there are flags and their values only.
CommandsFirstWord(tokens, m, takes) ==
  /\ tokens \in Seq(CommandsToken) /\ m \in DOMAIN tokens /\ m > 1
  /\ \A i \in 2..m - 1 : Commands!IsFlag(tokens[i]) \/ (i > 2 /\ tokens[i - 1] \in takes)
  /\ ~Commands!IsFlag(tokens[m]) /\ (m > 2 => tokens[m - 1] \notin takes)

\* What a command does by its first words.
CommandsVerb(binary, words) == IF binary = "argocd" THEN words[2] ELSE words[1]

LEMMA CommandsNoVerbIsFlag ==
  /\ \A w \in Commands!KubectlVerbs \cup Commands!HelmVerbs \cup Commands!ArgoTypes : ~Commands!IsFlag(w) /\ w # Commands!NoWord
  /\ ~Commands!IsFlag("kubectl") /\ ~Commands!IsFlag("helm") /\ ~Commands!IsFlag("argocd")
BY DEF Commands!KubectlVerbs, Commands!HelmVerbs, Commands!ArgoTypes, Commands!IsFlag,
   Commands!Flags, Commands!NoWord

LEMMA CommandsSkipFindsFirst ==
  ASSUME NEW tokens, NEW m, NEW takes, CommandsFirstWord(tokens, m, takes)
  PROVE  Commands!SkipGlobalFlags(tokens, 2, takes) = m
<1> DEFINE at == {i \in 2..Len(tokens) : ~Commands!IsFlag(tokens[i]) /\ (i > 2 => tokens[i - 1] \notin takes)}
<1>1. /\ tokens \in Seq(CommandsToken) /\ Len(tokens) \in Nat /\ m \in 2..Len(tokens) /\ m \in Nat
  BY DEF CommandsFirstWord
<1>2. m \in at
  BY <1>1 DEF CommandsFirstWord
<1>3. \A i \in at : m <= i
  <2>1. ASSUME NEW i \in at, i < m PROVE FALSE
    <3>1. i \in 2..m - 1
      BY <1>1, <2>1
    <3> QED BY <2>1, <3>1 DEF CommandsFirstWord
  <2> QED BY <1>1, <2>1
<1> HIDE DEF at
<1>4. Commands!Min(at) = m
  <2>1. at \in SUBSET Nat
    BY DEF at
  <2>2. \A x \in at : (\A y \in at : x <= y) => x = m
    BY <1>1, <1>2, <1>3, <2>1
  <2> QED BY <1>2, <1>3, <2>2 DEF Commands!Min
<1> QED BY <1>2, <1>4 DEF Commands!SkipGlobalFlags, at

LEMMA CommandsPositionalsFindFirst ==
  ASSUME NEW tokens, NEW m, CommandsFirstWord(tokens, m, Commands!Valued("kubectl"))
  PROVE  /\ Commands!Positionals(Tail(tokens), Commands!BooleanFlags("kubectl")) \in Seq(CommandsToken)
         /\ Commands!Positionals(Tail(tokens), Commands!BooleanFlags("kubectl")) # <<>>
         /\ Commands!Positionals(Tail(tokens), Commands!BooleanFlags("kubectl"))[1] = tokens[m]
<1> DEFINE rest == Tail(tokens)
           takes == Commands!Valued("kubectl")
           n == Len(rest)
           at == {i \in DOMAIN rest : ~Commands!IsFlag(rest[i]) /\ (i > 1 => rest[i - 1] \notin takes)}
           index == [i \in DOMAIN rest |-> i]
           words == Kept(index, at)
<1>1. /\ tokens \in Seq(CommandsToken) /\ tokens # <<>> /\ m \in 2..Len(tokens) /\ m \in Nat
  BY DEF CommandsFirstWord
<1>2. /\ rest \in Seq(CommandsToken) /\ Len(rest) = Len(tokens) - 1 /\ DOMAIN rest = 1..Len(tokens) - 1
      /\ \A i \in 1..Len(tokens) - 1 : rest[i] = tokens[i + 1]
  BY <1>1
<1> HIDE DEF rest
<1>3. m - 1 \in DOMAIN rest /\ rest[m - 1] = tokens[m]
  BY <1>1, <1>2
<1>4. m - 1 \in at
  <2>1. m - 1 > 1 => rest[(m - 1) - 1] = tokens[m - 1]
    <3> SUFFICES ASSUME m - 1 > 1 PROVE rest[(m - 1) - 1] = tokens[m - 1]
      OBVIOUS
    <3>1. m - 2 \in 1..Len(tokens) - 1 /\ (m - 1) - 1 = m - 2 /\ (m - 2) + 1 = m - 1
      BY <1>1
    <3> QED BY <1>2, <3>1
  <2> QED BY <1>1, <1>3, <2>1 DEF CommandsFirstWord
<1>5. ASSUME NEW i \in 1..(m - 1) - 1 PROVE i \notin at
  <2>1. i + 1 \in 2..m - 1 /\ i \in DOMAIN rest /\ rest[i] = tokens[i + 1] /\ i \in Nat
    BY <1>1, <1>2
  <2>2. CASE Commands!IsFlag(tokens[i + 1])
    BY <2>1, <2>2
  <2>3. CASE i + 1 > 2 /\ tokens[(i + 1) - 1] \in takes
    <3>1. i > 1 /\ (i + 1) - 1 = i /\ i - 1 \in 1..Len(tokens) - 1 /\ (i - 1) + 1 = i
      BY <1>1, <2>1, <2>3
    <3>2. rest[i - 1] = tokens[i]
      BY <1>2, <3>1
    <3> QED BY <2>3, <3>1, <3>2
  <2> QED BY <2>1, <2>2, <2>3 DEF CommandsFirstWord
<1>6. index \in Seq(DOMAIN rest) /\ DOMAIN index = DOMAIN rest /\ \A i \in DOMAIN rest : index[i] = i
  BY <1>1, <1>2
<1> HIDE DEF at, index
<1>7. words # <<>> /\ words[1] = m - 1
  <2>1. index[m - 1] \in at /\ \A i \in 1..(m - 1) - 1 : index[i] \notin at
    <3>1. \A i \in 1..(m - 1) - 1 : i \in DOMAIN rest
      BY <1>1, <1>2
    <3> QED BY <1>3, <1>4, <1>5, <1>6, <3>1
  <2>2. Kept(index, at) # <<>> /\ Kept(index, at)[1] = index[m - 1]
    BY <1>3, <1>6, <2>1, CommandsKeptFirst
  <2> QED BY <1>3, <1>6, <2>2
<1>8. words \in Seq(DOMAIN rest)
  <2>1. words \in Seq(DOMAIN rest \cap at)
    BY <1>6, KeptType
  <2> QED BY <2>1
<1>9. Commands!Positionals(rest, Commands!BooleanFlags("kubectl")) = [k \in DOMAIN words |-> rest[words[k]]]
  BY CommandsWindows DEF Commands!Positionals, at, index, Commands!Valued
<1> HIDE DEF words
<1>10. [k \in DOMAIN words |-> rest[words[k]]] \in Seq(CommandsToken)
  <2>1. \A k \in DOMAIN words : rest[words[k]] \in CommandsToken
    BY <1>2, <1>8
  <2> QED BY <1>8, <2>1
<1>11. 1 \in DOMAIN words
  BY <1>7, <1>8
<1>12. [k \in DOMAIN words |-> rest[words[k]]] # <<>> /\ [k \in DOMAIN words |-> rest[words[k]]][1] = rest[m - 1]
  BY <1>7, <1>11
<1> QED BY <1>3, <1>9, <1>10, <1>12 DEF rest

\* The action of a command is its verb, whatever flags stand before it and
\* whatever comes behind it.
LEMMA CommandsActionIsVerb ==
  ASSUME NEW binary \in {"kubectl", "helm", "argocd"}, NEW words, Commands!NamesAction(binary, words),
         NEW tokens, NEW m, CommandsFirstWord(tokens, m, Commands!Valued(binary)), tokens[1] = binary,
         tokens[m] = words[1],
         binary = "argocd" => m + 1 \in DOMAIN tokens /\ tokens[m + 1] = words[2]
  PROVE  Commands!ExtractAction(tokens) = CommandsVerb(binary, words)
<1>1. tokens \in Seq(CommandsToken) /\ m \in DOMAIN tokens /\ m \in Nat /\ m > 1
  BY DEF CommandsFirstWord
<1>2. CASE binary = "kubectl"
  <2> DEFINE args == Commands!Positionals(Tail(tokens), Commands!BooleanFlags("kubectl"))
             verbs == Kept(args, Commands!KubectlVerbs)
  <2>1. words[1] \in Commands!KubectlVerbs /\ words[1] # Commands!NoWord
    BY <1>2, CommandsNoVerbIsFlag DEF Commands!NamesAction
  <2>2. args \in Seq(CommandsToken) /\ args # <<>> /\ args[1] = words[1]
    BY <1>2, CommandsPositionalsFindFirst
  <2> HIDE DEF args
  <2>3. 1 \in DOMAIN args /\ \A i \in 1..1 - 1 : args[i] \notin Commands!KubectlVerbs
    BY <2>2
  <2>4. verbs # <<>> /\ verbs[1] = words[1]
    BY <2>1, <2>2, <2>3, CommandsKeptFirst
  <2>5. verbs \in Seq(CommandsToken \cap Commands!KubectlVerbs)
    BY <2>2, KeptType
  <2> HIDE DEF verbs
  <2>6. Commands!WordAt(verbs, 1) = words[1]
    BY <2>4, <2>5 DEF Commands!WordAt
  <2>7. Commands!Parse(tokens) = Commands!ParseKubectl(tokens)
    BY <1>2 DEF Commands!Parse
  <2>8. Commands!Parse(tokens).action = words[1]
    BY <2>6, <2>7, CommandsWindows DEF Commands!ParseKubectl, args, verbs
  <2> QED BY <1>2, <2>1, <2>8, CommandsWindows DEF Commands!ExtractAction, CommandsVerb
<1>3. CASE binary = "helm"
  <2>1. words[1] \in Commands!HelmVerbs /\ words[1] # Commands!NoWord
    BY <1>3, CommandsNoVerbIsFlag DEF Commands!NamesAction
  <2>2. Commands!SkipGlobalFlags(tokens, 2, Commands!TakesValue("helm")) = m
    BY <1>3, CommandsSkipFindsFirst DEF Commands!Valued
  <2>3. Commands!WordAt(tokens, m) = words[1]
    BY <1>1 DEF Commands!WordAt
  <2>4. Commands!Parse(tokens) = Commands!ParseHelm(tokens)
    BY <1>3 DEF Commands!Parse
  <2>5. Commands!ParseHelm(tokens).action = tokens[m]
    BY <2>1, <2>2, <2>3 DEF Commands!ParseHelm, Commands!PlainAt
  <2> QED BY <1>3, <2>1, <2>4, <2>5, CommandsWindows DEF Commands!ExtractAction, CommandsVerb
<1>4. CASE binary = "argocd"
  <2>1. words[1] \in Commands!ArgoTypes /\ words[2] # Commands!NoWord /\ ~Commands!IsFlag(words[2])
    BY <1>4 DEF Commands!NamesAction
  <2>2. Commands!SkipGlobalFlags(tokens, 2, Commands!TakesValue("argocd")) = m
    BY <1>4, CommandsSkipFindsFirst DEF Commands!Valued
  <2>3. Commands!WordAt(tokens, m) = words[1] /\ Commands!WordAt(tokens, m + 1) = words[2]
    BY <1>1, <1>4 DEF Commands!WordAt
  <2>4. Commands!Parse(tokens) = Commands!ParseArgocd(tokens)
    BY <1>4 DEF Commands!Parse
  <2>5. Commands!ParseArgocd(tokens).action = words[2]
    BY <2>1, <2>2, <2>3 DEF Commands!ParseArgocd, Commands!PlainAt
  <2> QED BY <1>4, <2>1, <2>4, <2>5, CommandsWindows DEF Commands!ExtractAction, CommandsVerb
<1> QED BY <1>2, <1>3, <1>4

\* The words come first behind the binary and its flags.
LEMMA CommandsWordsComeFirst ==
  ASSUME NEW binary \in {"kubectl", "helm", "argocd"}, NEW words, Commands!NamesAction(binary, words),
         NEW front, Commands!ClosedFlags(binary, front), NEW back \in Seq(CommandsToken)
  PROVE  Commands!ExtractAction(<<binary>> \o front \o words \o back) = CommandsVerb(binary, words)
<1> DEFINE tokens == <<binary>> \o front \o words \o back
           m == Len(front) + 2
           takes == Commands!Valued(binary)
<1>1. front \in Seq(CommandsToken) /\ words \in Seq(CommandsToken) /\ Len(front) \in Nat /\ Len(words) \in Nat
  <2>1. front \in Seq(STRING) /\ words \in Seq(STRING)
    BY DEF Commands!ClosedFlags, Commands!NamesAction
  <2>2. \A q \in Seq(STRING) : q \in Seq(CommandsToken) /\ Len(q) \in Nat
    BY DEF CommandsToken
  <2> QED BY <2>1, <2>2
<1>2. Len(words) > 0 /\ ~Commands!IsFlag(words[1]) /\ (binary = "argocd" => Len(words) > 1)
  BY <1>1, CommandsNoVerbIsFlag DEF Commands!NamesAction
<1> DEFINE head == <<binary>> \o front
           body == head \o words
<1>3. /\ head \in Seq(CommandsToken) /\ Len(head) = 1 + Len(front) /\ head[1] = binary
      /\ \A i \in DOMAIN front : head[i + 1] = front[i]
  <2>1. /\ <<binary>> \in Seq(CommandsToken) /\ Len(<<binary>>) = 1 /\ 1 \in DOMAIN <<binary>>
        /\ <<binary>>[1] = binary
    <3>1. binary \in CommandsToken
      BY DEF CommandsToken
    <3> QED BY <3>1
  <2>2. /\ head \in Seq(CommandsToken) /\ Len(head) = Len(<<binary>>) + Len(front)
        /\ \A i \in DOMAIN <<binary>> : head[i] = <<binary>>[i]
        /\ \A i \in DOMAIN front : head[i + Len(<<binary>>)] = front[i]
    BY <1>1, <2>1, Concatenated
  <2> QED BY <2>1, <2>2
<1> HIDE DEF head
<1>4. /\ body \in Seq(CommandsToken) /\ Len(body) = Len(head) + Len(words)
      /\ \A i \in 1..Len(head) : body[i] = head[i]
      /\ \A i \in DOMAIN words : body[i + Len(head)] = words[i]
  <2>1. DOMAIN head = 1..Len(head) /\ head \in Seq(CommandsToken)
    BY <1>3
  <2>2. /\ body \in Seq(CommandsToken) /\ Len(body) = Len(head) + Len(words)
        /\ \A i \in DOMAIN head : body[i] = head[i]
        /\ \A i \in DOMAIN words : body[i + Len(head)] = words[i]
    BY <1>1, <2>1, Concatenated
  <2> QED BY <2>1, <2>2
<1> HIDE DEF body
<1>12. /\ tokens \in Seq(CommandsToken) /\ Len(tokens) = Len(body) + Len(back) /\ Len(back) \in Nat
       /\ \A i \in 1..Len(body) : tokens[i] = body[i]
  BY <1>4 DEF body, head
<1> HIDE DEF tokens
<1>13. Len(tokens) = 1 + Len(front) + Len(words) + Len(back)
  BY <1>1, <1>3, <1>4, <1>12
<1>14. tokens[1] = binary
  <2>1. 1 \in 1..Len(head) /\ 1 \in 1..Len(body)
    BY <1>1, <1>3, <1>4
  <2> QED BY <1>3, <1>4, <1>12, <2>1
<1>15. ASSUME NEW i \in DOMAIN front PROVE tokens[i + 1] = front[i]
  <2>1. i + 1 \in 1..Len(head) /\ i + 1 \in 1..Len(body)
    BY <1>1, <1>3, <1>4
  <2> QED BY <1>3, <1>4, <1>12, <2>1
<1>16. ASSUME NEW i \in DOMAIN words PROVE tokens[i + 1 + Len(front)] = words[i]
  <2>1. i + Len(head) \in 1..Len(body) /\ i + 1 + Len(front) = i + Len(head)
    BY <1>1, <1>3, <1>4
  <2> QED BY <1>4, <1>12, <2>1
<1>5. m \in DOMAIN tokens /\ m > 1 /\ tokens[m] = words[1]
  <2>1. 1 \in DOMAIN words /\ 1 + 1 + Len(front) = m
    BY <1>1, <1>2
  <2>2. tokens[m] = words[1]
    BY <1>16, <2>1
  <2> QED BY <1>1, <1>2, <1>12, <1>13, <2>2
<1>6. ASSUME NEW i \in 2..m - 1
      PROVE  Commands!IsFlag(tokens[i]) \/ (i > 2 /\ tokens[i - 1] \in takes)
  <2>1. i - 1 \in DOMAIN front /\ (i - 1) + 1 = i /\ tokens[i] = front[i - 1]
    <3>1. i - 1 \in DOMAIN front /\ (i - 1) + 1 = i
      BY <1>1
    <3> QED BY <1>15, <3>1
  <2>2. Commands!IsFlag(front[i - 1]) \/ (i - 1 > 1 /\ front[(i - 1) - 1] \in takes)
    BY <2>1 DEF Commands!ClosedFlags
  <2>3. CASE Commands!IsFlag(front[i - 1])
    BY <2>1, <2>3
  <2>4. CASE i - 1 > 1 /\ front[(i - 1) - 1] \in takes
    <3>1. i > 2 /\ (i - 1) - 1 \in DOMAIN front /\ ((i - 1) - 1) + 1 = i - 1
      BY <1>1, <2>1, <2>4
    <3>2. tokens[i - 1] = front[(i - 1) - 1]
      BY <1>15, <3>1
    <3> QED BY <2>4, <3>1, <3>2
  <2> QED BY <2>2, <2>3, <2>4
<1>7. m > 2 => tokens[m - 1] \notin takes
  <2> SUFFICES ASSUME m > 2 PROVE tokens[m - 1] \notin takes
    OBVIOUS
  <2>1. front # <<>> /\ Len(front) \in DOMAIN front /\ Len(front) + 1 = m - 1
    BY <1>1
  <2>2. tokens[m - 1] = front[Len(front)]
    BY <1>15, <2>1
  <2> QED BY <2>1, <2>2 DEF Commands!ClosedFlags
<1>8. CommandsFirstWord(tokens, m, takes)
  BY <1>2, <1>12, <1>5, <1>6, <1>7 DEF CommandsFirstWord
<1>9. binary = "argocd" => m + 1 \in DOMAIN tokens /\ tokens[m + 1] = words[2]
  <2> SUFFICES ASSUME binary = "argocd" PROVE m + 1 \in DOMAIN tokens /\ tokens[m + 1] = words[2]
    OBVIOUS
  <2>1. 2 \in DOMAIN words /\ 2 + 1 + Len(front) = m + 1
    BY <1>1, <1>2
  <2>2. tokens[m + 1] = words[2]
    BY <1>16, <2>1
  <2> QED BY <1>1, <1>2, <1>12, <1>13, <2>2
<1> HIDE DEF m, takes
<1>10. Commands!ExtractAction(tokens) = CommandsVerb(binary, words)
  BY <1>14, <1>5, <1>8, <1>9, CommandsActionIsVerb DEF takes
<1> QED BY <1>10 DEF tokens, body, head

(* Global flags before the verb and flags behind the command change neither    *)
(* the permission it needs nor who may run it (parser.py, validator.py).       *)
THEOREM FlagsChangeNoTier ==
  ASSUME NEW binary \in {"kubectl", "helm", "argocd"}, NEW words, Commands!NamesAction(binary, words),
         NEW front, Commands!ClosedFlags(binary, front), NEW back \in Seq(STRING)
  PROVE  Commands!FlagsKeepTheTier(binary, words, front, back)
<1>1. Commands!ExtractAction(<<binary>> \o front \o words \o back) = CommandsVerb(binary, words)
  <2>1. back \in Seq(CommandsToken)
    BY DEF CommandsToken
  <2> QED BY <2>1, CommandsWordsComeFirst
<1>2. <<>> \in Seq(CommandsToken) /\ Commands!ClosedFlags(binary, <<>>)
  BY DEF Commands!ClosedFlags
<1>3. Commands!ExtractAction(<<binary>> \o <<>> \o words \o <<>>) = CommandsVerb(binary, words)
  <2>1. \A f, b : Commands!ClosedFlags(binary, f) /\ b \in Seq(CommandsToken) =>
          Commands!ExtractAction(<<binary>> \o f \o words \o b) = CommandsVerb(binary, words)
    BY CommandsWordsComeFirst
  <2> QED BY <1>2, <2>1
<1>4. <<binary>> \o <<>> \o words \o <<>> = <<binary>> \o words
  BY DEF Commands!NamesAction
<1>5. Commands!ExtractAction(<<binary>> \o words) = CommandsVerb(binary, words)
  BY <1>3, <1>4
<1> QED BY <1>1, <1>5 DEF Commands!FlagsKeepTheTier

-----------------------------------------------------------------------------
(* Windows.                                                                  *)

LEMMA CommandsHoursOf ==
  ASSUME NEW t \in Nat
  PROVE  t \div 24 \in Nat /\ t % 24 \in 0..23 /\ t = 24 * (t \div 24) + (t % 24)
<1>1. t \div 24 \in Nat /\ t % 24 \in 0..23
  OBVIOUS
<1>2. t = 24 * (t \div 24) + (t % 24)
  OBVIOUS
<1> QED BY <1>1, <1>2

LEMMA CommandsHourIs ==
  ASSUME NEW d \in Nat, NEW h \in 0..23
  PROVE  (d * 24 + h) \div 24 = d /\ (d * 24 + h) % 24 = h
  BY SMT

LEMMA CommandsWeekComes ==
  ASSUME NEW d \in Nat, NEW e \in 0..6
  PROVE  \E o \in 1..7 : (d + o) % 7 = e
<1> DEFINE q == d \div 7
           r == d % 7
<1>1. q \in Nat /\ r \in 0..6
  OBVIOUS
<1>2. d = 7 * q + r
  OBVIOUS
<1> HIDE DEF q, r
<1>3. \A k \in Nat : (7 * k + e) % 7 = e
  OBVIOUS
<1>4. CASE e > r
  <2>1. d + (e - r) = 7 * q + e /\ e - r \in 1..7
   BY <1>1, <1>2, <1>4
  <2> QED BY <1>1, <1>3, <2>1
<1>5. CASE ~(e > r)
  <2>1. d + (e - r + 7) = 7 * (q + 1) + e /\ e - r + 7 \in 1..7 /\ q + 1 \in Nat
   BY <1>1, <1>2, <1>5
  <2> QED BY <1>3, <2>1
<1> QED BY <1>4, <1>5

CommandsWindow == [start : 0..23, end : 0..24, days : SUBSET (0..6)]
\* The start of a window some days after an hour.
CommandsStartAfter(w, t, o) == ((t \div 24) + o) * 24 + (w.start % 24)

\* A day later it is later.
LEMMA CommandsDaysAfter ==
  ASSUME NEW d \in Nat, NEW o \in 1..7, NEW s \in 0..23, NEW r \in 0..23, NEW t \in Nat, t = 24 * d + r
  PROVE  (d + o) * 24 + s > t
<1>1. (d + o) * 24 = 24 * d + 24 * o
  OBVIOUS
<1> QED BY <1>1

\* A window is open in its first hour on one of its days.
LEMMA CommandsOpensThen ==
  ASSUME NEW w \in CommandsWindow, w.start # w.end, NEW n, Commands!Day(n) \in w.days, Commands!Hour(n) = w.start
  PROVE  Commands!InWindow(w, n)
BY DEF Commands!InWindow, CommandsWindow

LEMMA CommandsStartIs ==
  ASSUME NEW w \in CommandsWindow, NEW t \in Nat, NEW o \in Nat
  PROVE  /\ CommandsStartAfter(w, t, o) \in Nat /\ Commands!Hour(CommandsStartAfter(w, t, o)) = w.start
         /\ Commands!Day(CommandsStartAfter(w, t, o)) = ((t \div 24) + o) % 7
         /\ CommandsStartAfter(w, t, o) = ((t \div 24) + o) * 24 + w.start
<1>1. w.start \in 0..23 /\ w.start % 24 = w.start
  BY DEF CommandsWindow
<1>2. (t \div 24) + o \in Nat
  BY CommandsHoursOf
<1>3. CommandsStartAfter(w, t, o) = ((t \div 24) + o) * 24 + w.start
  BY <1>1 DEF CommandsStartAfter
<1>4. /\ (((t \div 24) + o) * 24 + w.start) \div 24 = (t \div 24) + o
      /\ (((t \div 24) + o) * 24 + w.start) % 24 = w.start
  BY <1>1, <1>2, CommandsHourIs
<1>5. ((t \div 24) + o) * 24 + w.start \in Nat
  BY <1>1, <1>2
<1> QED BY <1>3, <1>4, <1>5 DEF Commands!Hour, Commands!Day

\* The offset of the next start: it is after t on an open day, and the first.
LEMMA CommandsNextIsFirst ==
  ASSUME NEW w \in CommandsWindow, w.days # {}, NEW t \in Nat
  PROVE  \E o \in 0..7 :
           /\ Commands!NextAllowed(w, t) = CommandsStartAfter(w, t, o)
           /\ Commands!Day(CommandsStartAfter(w, t, o)) \in w.days /\ CommandsStartAfter(w, t, o) > t
           /\ \A p \in 0..7 : p < o =>
                ~(Commands!Day(CommandsStartAfter(w, t, p)) \in w.days /\ CommandsStartAfter(w, t, p) > t)
<1> DEFINE day == t \div 24
           found == {o \in 0..7 : Commands!Day(CommandsStartAfter(w, t, o)) \in w.days
                                    /\ CommandsStartAfter(w, t, o) > t}
<1>1. day \in Nat /\ t % 24 \in 0..23 /\ t = 24 * day + (t % 24) /\ w.start \in 0..23
  BY CommandsHoursOf DEF CommandsWindow
<1>2. found # {}
  <2>1. PICK e \in 0..6 : e \in w.days
    BY DEF CommandsWindow
  <2>2. PICK o \in 1..7 : (day + o) % 7 = e
    BY <1>1, CommandsWeekComes
  <2>3. /\ Commands!Day(CommandsStartAfter(w, t, o)) = e
        /\ CommandsStartAfter(w, t, o) = (day + o) * 24 + w.start
    <3>1. o \in Nat
      OBVIOUS
    <3> QED BY <2>2, <3>1, CommandsStartIs
  <2>4. (day + o) * 24 + w.start > t
    <3> HIDE DEF day
    <3> QED BY <1>1, CommandsDaysAfter
  <2> QED BY <2>1, <2>3, <2>4
<1>3. Commands!NextAllowed(w, t) = IF found = {} THEN CommandsStartAfter(w, t, 1) ELSE CommandsStartAfter(w, t, Commands!Min(found))
  BY DEF Commands!NextAllowed, CommandsStartAfter
<1>4. found \subseteq 0..7
  OBVIOUS
<1>5. /\ \A o \in found : Commands!Day(CommandsStartAfter(w, t, o)) \in w.days /\ CommandsStartAfter(w, t, o) > t
      /\ \A p \in 0..7 : p \notin found =>
           ~(Commands!Day(CommandsStartAfter(w, t, p)) \in w.days /\ CommandsStartAfter(w, t, p) > t)
  OBVIOUS
<1> HIDE DEF found
<1>6. PICK o \in found : \A y \in found : o <= y
  BY <1>2, <1>4, LeastNumber
<1>7. Commands!Min(found) = o
  <2>1. \A x \in found : (\A y \in found : x <= y) => x = o
    BY <1>4, <1>6
  <2> QED BY <1>6, <2>1 DEF Commands!Min
<1>8. o \in 0..7 /\ \A p \in 0..7 : p < o => p \notin found
  BY <1>4, <1>6
<1> QED BY <1>2, <1>3, <1>5, <1>6, <1>7, <1>8

(* When a window is closed, the time announced for a retry is ahead and in the *)
(* window, and no earlier one is unless the window spans midnight             *)
(* (time_window_enforcer.py).                                                *)
THEOREM RetryIsAllowed ==
  ASSUME NEW w \in CommandsWindow, w.days # {}, w.start # w.end, NEW t \in Nat
  PROVE  Commands!NextStartIsAllowed(w, t)
<1> SUFFICES ASSUME ~Commands!InWindow(w, t) PROVE Commands!NextStartIsAllowed(w, t)
  BY DEF Commands!NextStartIsAllowed
<1> DEFINE day == t \div 24
           next == Commands!NextAllowed(w, t)
<1>1. PICK o \in 0..7 :
           /\ next = CommandsStartAfter(w, t, o)
           /\ Commands!Day(CommandsStartAfter(w, t, o)) \in w.days /\ CommandsStartAfter(w, t, o) > t
           /\ \A p \in 0..7 : p < o =>
                ~(Commands!Day(CommandsStartAfter(w, t, p)) \in w.days /\ CommandsStartAfter(w, t, p) > t)
  BY CommandsNextIsFirst
<1>2. /\ day \in Nat /\ t % 24 \in 0..23 /\ t = 24 * day + (t % 24)
      /\ w.start \in 0..23 /\ w.end \in 0..24
  BY CommandsHoursOf DEF CommandsWindow
<1>3. next \in Nat /\ Commands!Hour(next) = w.start /\ next = (day + o) * 24 + w.start
  <2>1. o \in Nat
    OBVIOUS
  <2>2. Commands!Hour(CommandsStartAfter(w, t, o)) = w.start /\ CommandsStartAfter(w, t, o) \in Nat
    BY <2>1, CommandsStartIs
  <2>3. CommandsStartAfter(w, t, o) = (day + o) * 24 + w.start
    BY <2>1, CommandsStartIs
  <2>4. next = CommandsStartAfter(w, t, o)
    BY <1>1
  <2> HIDE DEF next
  <2> QED BY <2>2, <2>3, <2>4
<1> HIDE DEF next
<1>4. Commands!InWindow(w, next)
  BY <1>1, <1>2, <1>3, CommandsOpensThen
<1>5. ASSUME w.start <= w.end, NEW u \in t..next - 1, Commands!InWindow(w, u) PROVE FALSE
  <2> DEFINE other == u \div 24
             hour == u % 24
  <2>1. u \in Nat /\ u >= t /\ u < next
    BY <1>3, <1>5
  <2>2. other \in Nat /\ hour \in 0..23 /\ u = 24 * other + hour
    BY <2>1, CommandsHoursOf
  <2>3. Commands!Day(u) \in w.days /\ w.start <= hour /\ hour < w.end
    BY <1>5 DEF Commands!InWindow, Commands!Hour
  <2>4. Commands!Day(u) = other % 7
    BY DEF Commands!Day
  <2> HIDE DEF other, hour
  <2>5. other >= day
    BY <1>2, <2>1, <2>2
  <2>6. other < day + o
    BY <1>2, <1>3, <2>1, <2>2, <2>3
  <2> DEFINE p == other - day
  <2>7. p \in 0..7 /\ p < o /\ day + p = other
    BY <1>2, <2>2, <2>5, <2>6
  <2>8. /\ Commands!Day(CommandsStartAfter(w, t, p)) = (day + p) % 7
        /\ CommandsStartAfter(w, t, p) = (day + p) * 24 + w.start
    <3>1. p \in Nat
      BY <2>7
    <3> QED BY <3>1, CommandsStartIs
  <2>9. ~((day + p) * 24 + w.start > t)
    BY <1>1, <2>3, <2>4, <2>7, <2>8
  <2>10. other = day /\ w.start <= t % 24
    <3> HIDE DEF day, p
    <3>1. (day + p) * 24 = 24 * other /\ day \in Nat /\ other \in Nat
      BY <1>2, <2>2, <2>7
    <3>2. ~(24 * other + w.start > 24 * day + (t % 24))
      BY <1>2, <2>9, <3>1
    <3> QED BY <1>2, <2>5, <3>1, <3>2
  <2>11. Commands!Day(t) \in w.days
    BY <2>3, <2>4, <2>10 DEF Commands!Day
  <2>12. ~(t % 24 < w.end)
    BY <1>5, <2>10, <2>11 DEF Commands!InWindow, Commands!Hour
  <2> QED BY <1>2, <2>1, <2>2, <2>3, <2>10, <2>12
<1> QED BY <1>1, <1>4, <1>5 DEF Commands!NextStartIsAllowed, next

-----------------------------------------------------------------------------
(***************************************************************************)
(* The last checks of a command and the command that takes it back.          *)
(***************************************************************************)
LEMMA PlansTokensDiffer ==
  /\ \A w : "word" \in DOMAIN Plans!Word(w) /\ ~("flag" \in DOMAIN Plans!Word(w)) /\ Plans!Word(w).word = w
  /\ \A name : "flag" \in DOMAIN Plans!Flag(name) /\ ~("word" \in DOMAIN Plans!Flag(name)) /\ Plans!Flag(name).flag = name
  /\ \A w, name : Plans!Word(w) # Plans!Flag(name)
<1>1. \A w : "word" \in DOMAIN Plans!Word(w) /\ ~("flag" \in DOMAIN Plans!Word(w)) /\ Plans!Word(w).word = w
  BY DEF Plans!Word
<1>2. \A name : "flag" \in DOMAIN Plans!Flag(name) /\ ~("word" \in DOMAIN Plans!Flag(name)) /\ Plans!Flag(name).flag = name
  BY DEF Plans!Flag
<1> QED BY <1>1, <1>2

\* A command is accepted for its first word and its flags.
LEMMA PlansAcceptedByFirst ==
  ASSUME NEW E, NEW plan \in Seq(E), NEW binary, NEW op \in Plans!Allowed(binary),
         plan # <<>>, plan[1] = Plans!Word(op),
         \A i \in DOMAIN plan : "flag" \in DOMAIN plan[i] => plan[i].flag \in Plans!Allowed(binary)
  PROVE  Plans!Accepted(binary, plan)
<1> DEFINE at == {i \in DOMAIN plan : Plans!IsWordAt(plan, i) /\ ~Plans!IsValue(plan, i, Plans!ValueFlags(binary))}
<1>1. 1 \in DOMAIN plan /\ DOMAIN plan \subseteq Nat /\ \A i \in DOMAIN plan : 1 <= i
  OBVIOUS
<1>2. ~(1 - 1 \in DOMAIN plan)
  BY <1>1
<1>3. 1 \in at
  BY <1>1, <1>2, PlansTokensDiffer DEF Plans!IsWordAt, Plans!IsValue, Plans!IsFlagAt
<1> HIDE DEF at
<1>4. at \subseteq DOMAIN plan
  BY DEF at
<1>5. Plans!Min(at) = 1
  <2>1. \A x \in at : (\A y \in at : x <= y) => x = 1
    BY <1>1, <1>3, <1>4
  <2>2. \A y \in at : 1 <= y
    BY <1>1, <1>4
  <2> QED BY <1>3, <2>1, <2>2 DEF Plans!Min
<1>6. Plans!FirstPositional(binary, plan) = plan[Plans!Min(at)].word
  BY <1>3 DEF Plans!FirstPositional, at
<1>7. Plans!FirstPositional(binary, plan) = op
  BY <1>5, <1>6, PlansTokensDiffer
<1>8. \A i \in DOMAIN plan : Plans!IsFlagAt(plan, i) => plan[i].flag \in Plans!Allowed(binary)
  BY DEF Plans!IsFlagAt
<1> HIDE DEF at
<1> QED BY <1>7, <1>8 DEF Plans!Accepted

\* Where a command ends with a flag and its value, that is the value of the flag.
LEMMA PlansLastFlag ==
  ASSUME NEW E, NEW body \in Seq(E), body # <<>>, NEW name, NEW v,
         NEW plan, plan = body \o <<Plans!Flag(name), Plans!Word(v)>>,
         \A i \in DOMAIN body : body[i] # Plans!Flag(name)
  PROVE  Plans!FlagValue(plan, name) = v
<1> DEFINE S == E \cup {Plans!Flag(name), Plans!Word(v)}
           tail == <<Plans!Flag(name), Plans!Word(v)>>
           n == Len(body)
           at == {i \in 2..Len(plan) : plan[i] = Plans!Flag(name)}
<1>1. /\ body \in Seq(S) /\ tail \in Seq(S) /\ Len(tail) = 2 /\ n \in Nat /\ n >= 1
      /\ DOMAIN body = 1..n /\ 1 \in DOMAIN tail /\ 2 \in DOMAIN tail
      /\ tail[1] = Plans!Flag(name) /\ tail[2] = Plans!Word(v)
  OBVIOUS
<1> HIDE DEF S, tail
<1>2. /\ plan \in Seq(S) /\ Len(plan) = n + Len(tail)
      /\ \A i \in DOMAIN body : plan[i] = body[i]
      /\ \A i \in DOMAIN tail : plan[i + n] = tail[i]
  BY <1>1, Concatenated DEF tail
<1> HIDE DEF n
<1>3. Len(plan) = n + 2 /\ plan[n + 1] = Plans!Flag(name) /\ plan[n + 2] = Plans!Word(v) /\ DOMAIN plan = 1..n + 2
  <2>1. 1 + n = n + 1 /\ 2 + n = n + 2
    BY <1>1
  <2>2. plan[1 + n] = tail[1] /\ plan[2 + n] = tail[2]
    BY <1>1, <1>2
  <2>3. plan[n + 1] = Plans!Flag(name) /\ plan[n + 2] = Plans!Word(v)
    BY <1>1, <2>1, <2>2
  <2>4. Len(plan) = n + 2
    BY <1>1, <1>2
  <2>5. DOMAIN plan = 1..Len(plan)
    BY <1>2
  <2> QED BY <2>3, <2>4, <2>5
<1>4. n + 1 \in at
  BY <1>1, <1>3
<1>5. ASSUME NEW i \in at PROVE i = n + 1
  <2>1. i \in 2..n + 2 /\ plan[i] = Plans!Flag(name)
    BY <1>3
  <2>2. i # n + 2
    BY <1>3, <2>1, PlansTokensDiffer
  <2>3. ~(i \in 1..n)
    BY <1>1, <1>2, <2>1
  <2> QED BY <1>1, <2>1, <2>2, <2>3
<1>6. Plans!FlagValue(plan, name) = IF at = {} THEN "" ELSE IF Plans!IsWordAt(plan, Plans!Max(at) + 1)
                                                   THEN plan[Plans!Max(at) + 1].word ELSE "True"
  BY DEF Plans!FlagValue
<1> HIDE DEF at
<1>7. Plans!Max(at) = n + 1
  <2>1. at = {n + 1} /\ n + 1 >= n + 1
    BY <1>1, <1>4, <1>5
  <2> QED BY <2>1 DEF Plans!Max
<1>8. Plans!Max(at) + 1 = n + 2 /\ n + 2 \in DOMAIN plan
  BY <1>1, <1>3, <1>7
<1>9. Plans!IsWordAt(plan, n + 2) /\ plan[n + 2].word = v
  BY <1>3, <1>8, PlansTokensDiffer DEF Plans!IsWordAt
<1> QED BY <1>4, <1>6, <1>8, <1>9

\* A flag that is not among the tokens has no value.
LEMMA PlansNoFlag ==
  ASSUME NEW E, NEW plan \in Seq(E), NEW name, \A i \in DOMAIN plan : plan[i] # Plans!Flag(name)
  PROVE  Plans!FlagValue(plan, name) = ""
<1>1. \A i \in 2..Len(plan) : i \in DOMAIN plan
  OBVIOUS
<1>2. {i \in 2..Len(plan) : plan[i] = Plans!Flag(name)} = {}
  BY <1>1
<1> QED BY <1>2 DEF Plans!FlagValue

\* What a command is completed with names the namespace that was given.
LEMMA PlansNamespaceIsGiven ==
  ASSUME NEW E, NEW body \in Seq(E), body # <<>>, NEW tokens,
         \A i \in DOMAIN body : body[i] # Plans!Flag("n") /\ body[i] # Plans!Flag("namespace")
  PROVE  Plans!Given(tokens) # {} =>
           /\ Plans!Given(body \o Plans!Namespace(tokens)) # {}
           /\ Plans!Given(body \o Plans!Namespace(tokens)) \subseteq Plans!Given(tokens)
<1> SUFFICES ASSUME Plans!Given(tokens) # {}
             PROVE  /\ Plans!Given(body \o Plans!Namespace(tokens)) # {}
                    /\ Plans!Given(body \o Plans!Namespace(tokens)) \subseteq Plans!Given(tokens)
  OBVIOUS
<1>1. ASSUME NEW name, NEW other, NEW v, name # other, v # "", v \in Plans!Given(tokens),
             Plans!Namespace(tokens) = <<Plans!Flag(name), Plans!Word(v)>>,
             \/ name = "n" /\ other = "namespace"
             \/ name = "namespace" /\ other = "n"
      PROVE  /\ Plans!Given(body \o Plans!Namespace(tokens)) # {}
             /\ Plans!Given(body \o Plans!Namespace(tokens)) \subseteq Plans!Given(tokens)
  <2> DEFINE plan == body \o <<Plans!Flag(name), Plans!Word(v)>>
             tail == <<Plans!Flag(name), Plans!Word(v)>>
             S == E \cup {Plans!Flag(name), Plans!Word(v)}
  <2>1. Plans!FlagValue(plan, name) = v
    <3>1. \A i \in DOMAIN body : body[i] # Plans!Flag(name)
      BY <1>1
    <3> HIDE DEF plan
    <3> QED BY <3>1, PlansLastFlag DEF plan
  <2>2. Plans!FlagValue(plan, other) = ""
    <3>1. /\ body \in Seq(S) /\ tail \in Seq(S) /\ Len(tail) = 2 /\ Len(body) \in Nat
          /\ DOMAIN body = 1..Len(body) /\ tail[1] = Plans!Flag(name) /\ tail[2] = Plans!Word(v)
          /\ DOMAIN tail = 1..2
      OBVIOUS
    <3> HIDE DEF S, tail
    <3>2. /\ plan \in Seq(S) /\ Len(plan) = Len(body) + Len(tail)
          /\ \A i \in DOMAIN body : plan[i] = body[i]
          /\ \A i \in DOMAIN tail : plan[i + Len(body)] = tail[i]
      BY <3>1, Concatenated DEF tail
    <3> HIDE DEF plan
    <3>3. ASSUME NEW i \in DOMAIN plan PROVE plan[i] # Plans!Flag(other)
      <4>1. CASE i \in DOMAIN body
        BY <1>1, <3>2, <4>1
      <4>2. CASE i \notin DOMAIN body
        <5>1. i = 1 + Len(body) \/ i = 2 + Len(body)
          BY <3>1, <3>2, <4>2
        <5>2. Plans!Flag(name) # Plans!Flag(other)
          BY <1>1, PlansTokensDiffer
        <5>3. plan[1 + Len(body)] = Plans!Flag(name) /\ plan[2 + Len(body)] = Plans!Word(v)
          BY <3>1, <3>2
        <5> QED BY <5>1, <5>2, <5>3, PlansTokensDiffer
      <4> QED BY <4>1, <4>2
    <3> QED BY <3>2, <3>3, PlansNoFlag
  <2> HIDE DEF plan
  <2>3. Plans!Given(plan) = {v}
    <3>1. {Plans!FlagValue(plan, "n"), Plans!FlagValue(plan, "namespace")} = {v, ""}
      BY <1>1, <2>1, <2>2
    <3> QED BY <1>1, <3>1 DEF Plans!Given
  <2> QED BY <1>1, <2>3 DEF plan
<1>2. CASE Plans!FlagValue(tokens, "n") # ""
  <2>1. Plans!Namespace(tokens) = <<Plans!Flag("n"), Plans!Word(Plans!FlagValue(tokens, "n"))>> /\ Plans!FlagValue(tokens, "n") \in Plans!Given(tokens)
    BY <1>2 DEF Plans!Namespace, Plans!Given
  <2> QED BY <1>1, <1>2, <2>1
<1>3. CASE Plans!FlagValue(tokens, "n") = ""
  <2>1. Plans!FlagValue(tokens, "namespace") # ""
    BY <1>3 DEF Plans!Given
  <2>2. /\ Plans!Namespace(tokens) = <<Plans!Flag("namespace"), Plans!Word(Plans!FlagValue(tokens, "namespace"))>>
        /\ Plans!FlagValue(tokens, "namespace") \in Plans!Given(tokens)
    BY <1>3, <2>1 DEF Plans!Namespace, Plans!Given
  <2> QED BY <1>1, <2>1, <2>2
<1> QED BY <1>2, <1>3

\* A command that is completed with a namespace is accepted as it was before.
LEMMA PlansCompletedIsAccepted ==
  ASSUME NEW E, NEW body \in Seq(E), NEW tokens, NEW binary \in {"kubectl", "helm"},
         NEW op \in Plans!Allowed(binary), body # <<>>, body[1] = Plans!Word(op),
         \A i \in DOMAIN body : "flag" \in DOMAIN body[i] => body[i].flag \in Plans!Allowed(binary)
  PROVE  Plans!Accepted(binary, body \o Plans!Namespace(tokens))
<1> DEFINE tail == Plans!Namespace(tokens)
           plan == body \o tail
           S == E \cup {tail[i] : i \in DOMAIN tail}
<1>1. \/ tail = <<>>
      \/ tail = <<Plans!Flag("n"), Plans!Word(Plans!FlagValue(tokens, "n"))>>
      \/ tail = <<Plans!Flag("namespace"), Plans!Word(Plans!FlagValue(tokens, "namespace"))>>
  BY DEF Plans!Namespace
<1>2. "n" \in Plans!Allowed(binary) /\ "namespace" \in Plans!Allowed(binary)
  BY DEF Plans!Allowed
<1> HIDE DEF tail
<1>3. tail \in Seq({tail[i] : i \in DOMAIN tail}) /\ Len(tail) \in Nat /\ DOMAIN tail = 1..Len(tail)
  <2>1. CASE tail = <<>>
    BY <2>1
  <2>2. ASSUME NEW a, NEW b, tail = <<a, b>>
        PROVE  tail \in Seq({tail[i] : i \in DOMAIN tail}) /\ Len(tail) \in Nat /\ DOMAIN tail = 1..Len(tail)
    <3>1. <<a, b>> \in Seq({a, b}) /\ DOMAIN <<a, b>> = 1..2 /\ <<a, b>>[1] = a /\ <<a, b>>[2] = b /\ Len(<<a, b>>) = 2
      OBVIOUS
    <3>2. {<<a, b>>[i] : i \in DOMAIN <<a, b>>} = {a, b}
      BY <3>1
    <3> QED BY <2>2, <3>1, <3>2
  <2> QED BY <1>1, <2>1, <2>2
<1>4. ASSUME NEW i \in DOMAIN tail, "flag" \in DOMAIN tail[i] PROVE tail[i].flag \in Plans!Allowed(binary)
  <2>1. CASE tail = <<>>
    BY <2>1
  <2>2. ASSUME NEW name \in Plans!Allowed(binary), NEW v, tail = <<Plans!Flag(name), Plans!Word(v)>>
        PROVE  tail[i].flag \in Plans!Allowed(binary)
    <3>1. i = 1 \/ i = 2
      BY <2>2
    <3>2. tail[1] = Plans!Flag(name) /\ tail[2] = Plans!Word(v)
      BY <2>2
    <3> QED BY <1>4, <3>1, <3>2, PlansTokensDiffer
  <2> QED BY <1>1, <1>2, <2>1, <2>2
<1>5. body \in Seq(S) /\ tail \in Seq(S) /\ Len(body) \in Nat /\ DOMAIN body = 1..Len(body) /\ 1 \in DOMAIN body
  BY <1>3
<1> HIDE DEF S
<1>6. /\ plan \in Seq(S) /\ Len(plan) = Len(body) + Len(tail)
      /\ \A i \in DOMAIN body : plan[i] = body[i]
      /\ \A i \in DOMAIN tail : plan[i + Len(body)] = tail[i]
  BY <1>5, Concatenated
<1> HIDE DEF plan
<1>7. ASSUME NEW i \in DOMAIN plan, "flag" \in DOMAIN plan[i] PROVE plan[i].flag \in Plans!Allowed(binary)
  <2>1. CASE i \in DOMAIN body
    BY <1>6, <1>7, <2>1
  <2>2. CASE i \notin DOMAIN body
    <3> DEFINE j == i - Len(body)
    <3>1. j \in DOMAIN tail /\ j + Len(body) = i
      BY <1>3, <1>5, <1>6, <2>2
    <3>2. plan[i] = tail[j]
      BY <1>6, <3>1
    <3> QED BY <1>4, <1>7, <3>1, <3>2
  <2> QED BY <2>1, <2>2
<1>8. plan # <<>> /\ plan[1] = Plans!Word(op)
  BY <1>3, <1>5, <1>6
<1> QED BY <1>6, <1>7, <1>8, PlansAcceptedByFirst DEF plan, tail

\* Nothing of a plan but its completion names a namespace.
PlansPlanBody(binary, tokens, body) ==
  /\ Plans!Rollback(binary, tokens) = body \o Plans!Namespace(tokens)
  /\ body # <<>> /\ \E op \in Plans!Allowed(binary) : body[1] = Plans!Word(op)
  /\ \E E : body \in Seq(E)
  /\ \A i \in DOMAIN body : "flag" \in DOMAIN body[i] => body[i] = Plans!Flag("f") /\ binary = "kubectl"

LEMMA PlansFlagNames ==
  /\ Plans!Flag("f") # Plans!Flag("n") /\ Plans!Flag("f") # Plans!Flag("namespace")
BY DEF Plans!Flag

LEMMA PlansCompletedIsRunnable ==
  ASSUME NEW binary \in {"kubectl", "helm"}, NEW tokens, NEW body, PlansPlanBody(binary, tokens, body)
  PROVE  Plans!PlanIsRunnable(binary, tokens)
<1>1. PICK op \in Plans!Allowed(binary) : body[1] = Plans!Word(op)
  BY DEF PlansPlanBody
<1>2. PICK E : body \in Seq(E)
  BY DEF PlansPlanBody
<1>3. /\ body # <<>> /\ Plans!Rollback(binary, tokens) = body \o Plans!Namespace(tokens)
      /\ \A i \in DOMAIN body : "flag" \in DOMAIN body[i] => body[i] = Plans!Flag("f") /\ binary = "kubectl"
  BY DEF PlansPlanBody
<1>4. \A i \in DOMAIN body : "flag" \in DOMAIN body[i] => body[i].flag \in Plans!Allowed(binary)
  <2>1. binary = "kubectl" => "f" \in Plans!Allowed(binary)
    BY DEF Plans!Allowed
  <2> QED BY <1>3, <2>1, PlansTokensDiffer
<1>5. \A i \in DOMAIN body : body[i] # Plans!Flag("n") /\ body[i] # Plans!Flag("namespace")
  BY <1>3, PlansTokensDiffer, PlansFlagNames
<1>6. Plans!Accepted(binary, Plans!Rollback(binary, tokens))
  BY <1>1, <1>2, <1>3, <1>4, PlansCompletedIsAccepted
<1>7. Plans!Given(tokens) # {} =>
        /\ Plans!Given(Plans!Rollback(binary, tokens)) # {}
        /\ Plans!Given(Plans!Rollback(binary, tokens)) \subseteq Plans!Given(tokens)
  BY <1>2, <1>3, <1>5, PlansNamespaceIsGiven
<1> QED BY <1>6, <1>7 DEF Plans!PlanIsRunnable

LEMMA PlansKubectlPlan ==
  ASSUME NEW tokens, Plans!Rollback("kubectl", tokens) # Plans!NoPlan
  PROVE  \E body : PlansPlanBody("kubectl", tokens, body)
<1> DEFINE args == Plans!Arguments(tokens)
           file == Plans!FlagValue(tokens, "f")
           ns == Plans!Namespace(tokens)
<1>1. "delete" \in Plans!Allowed("kubectl") /\ "rollout" \in Plans!Allowed("kubectl")
  BY DEF Plans!Allowed
<1>2. Plans!Rollback("kubectl", tokens) = Plans!KubectlRollback(tokens)
  BY DEF Plans!Rollback
<1>3. \/ Plans!Rollback("kubectl", tokens) = <<Plans!Word("delete"), Plans!Flag("f"), Plans!Word(file)>> \o ns
      \/ Plans!Rollback("kubectl", tokens) = <<Plans!Word("delete"), Plans!Word(args[1])>> \o ns
      \/ Plans!Rollback("kubectl", tokens) =
           <<Plans!Word("rollout"), Plans!Word("undo"), Plans!Word("deployment"), Plans!Word(args[3])>> \o ns
  BY <1>2 DEF Plans!KubectlRollback
<1> HIDE DEF args, file, ns
<1>4. ASSUME NEW a, NEW b, NEW c, Plans!Rollback("kubectl", tokens) = <<a, b, c>> \o ns,
             a = Plans!Word("delete"), b = Plans!Flag("f"), c = Plans!Word(file)
      PROVE  PlansPlanBody("kubectl", tokens, <<a, b, c>>)
  <2>1. <<a, b, c>> \in Seq({a, b, c}) /\ <<a, b, c>> # <<>> /\ <<a, b, c>>[1] = a
    OBVIOUS
  <2>2. \A i \in DOMAIN <<a, b, c>> : <<a, b, c>>[i] \in {a, b, c}
    OBVIOUS
  <2> QED BY <1>1, <1>4, <2>1, <2>2, PlansTokensDiffer DEF PlansPlanBody, ns
<1>5. ASSUME NEW a, NEW b, Plans!Rollback("kubectl", tokens) = <<a, b>> \o ns,
             a = Plans!Word("delete"), b = Plans!Word(args[1])
      PROVE  PlansPlanBody("kubectl", tokens, <<a, b>>)
  <2>1. <<a, b>> \in Seq({a, b}) /\ <<a, b>> # <<>> /\ <<a, b>>[1] = a
    OBVIOUS
  <2>2. \A i \in DOMAIN <<a, b>> : <<a, b>>[i] \in {a, b}
    OBVIOUS
  <2> QED BY <1>1, <1>5, <2>1, <2>2, PlansTokensDiffer DEF PlansPlanBody, ns
<1>6. ASSUME NEW a, NEW b, NEW c, NEW d, Plans!Rollback("kubectl", tokens) = <<a, b, c, d>> \o ns,
             a = Plans!Word("rollout"), b = Plans!Word("undo"), c = Plans!Word("deployment"), d = Plans!Word(args[3])
      PROVE  PlansPlanBody("kubectl", tokens, <<a, b, c, d>>)
  <2>1. <<a, b, c, d>> \in Seq({a, b, c, d}) /\ <<a, b, c, d>> # <<>> /\ <<a, b, c, d>>[1] = a
    OBVIOUS
  <2>2. \A i \in DOMAIN <<a, b, c, d>> : <<a, b, c, d>>[i] \in {a, b, c, d}
    OBVIOUS
  <2> QED BY <1>1, <1>6, <2>1, <2>2, PlansTokensDiffer DEF PlansPlanBody, ns
<1> QED BY <1>3, <1>4, <1>5, <1>6

LEMMA PlansHelmPlan ==
  ASSUME NEW tokens, Plans!Rollback("helm", tokens) # Plans!NoPlan
  PROVE  \E body : PlansPlanBody("helm", tokens, body)
<1> DEFINE args == Plans!Arguments(tokens)
           ns == Plans!Namespace(tokens)
<1>1. "rollback" \in Plans!Allowed("helm") /\ "uninstall" \in Plans!Allowed("helm")
  BY DEF Plans!Allowed
<1>2. Plans!Rollback("helm", tokens) = Plans!HelmRollback(tokens)
  BY DEF Plans!Rollback
<1>3. \/ Plans!Rollback("helm", tokens) = <<Plans!Word("rollback"), Plans!Word(args[1])>> \o ns
      \/ Plans!Rollback("helm", tokens) = <<Plans!Word("uninstall"), Plans!Word(args[1])>> \o ns
  BY <1>2 DEF Plans!HelmRollback
<1> HIDE DEF args, ns
<1>4. ASSUME NEW a, NEW b, Plans!Rollback("helm", tokens) = <<a, b>> \o ns,
             a = Plans!Word("rollback") \/ a = Plans!Word("uninstall"), b = Plans!Word(args[1])
      PROVE  PlansPlanBody("helm", tokens, <<a, b>>)
  <2>1. <<a, b>> \in Seq({a, b}) /\ <<a, b>> # <<>> /\ <<a, b>>[1] = a
    OBVIOUS
  <2>2. \A i \in DOMAIN <<a, b>> : <<a, b>>[i] \in {a, b}
    OBVIOUS
  <2> QED BY <1>1, <1>4, <2>1, <2>2, PlansTokensDiffer DEF PlansPlanBody, ns
<1> QED BY <1>3, <1>4

LEMMA PlansArgocdPlan ==
  ASSUME NEW E, NEW tokens \in Seq(E)
  PROVE  Plans!PlanIsRunnable("argocd", tokens)
<1> SUFFICES ASSUME Plans!Accepted("argocd", tokens), Plans!Rollback("argocd", tokens) # Plans!NoPlan
             PROVE  /\ Plans!Accepted("argocd", Plans!Rollback("argocd", tokens))
                    /\ Plans!Given(tokens) = {}
  BY DEF Plans!PlanIsRunnable
<1>1. "app" \in Plans!Allowed("argocd") /\ "n" \notin Plans!Allowed("argocd") /\ "namespace" \notin Plans!Allowed("argocd")
  BY DEF Plans!Allowed
<1>2. ASSUME NEW name \in {"n", "namespace"} PROVE Plans!FlagValue(tokens, name) = ""
  <2>1. ASSUME NEW i \in DOMAIN tokens, tokens[i] = Plans!Flag(name) PROVE FALSE
    <3>1. Plans!IsFlagAt(tokens, i) /\ tokens[i].flag = name
      BY <2>1, PlansTokensDiffer DEF Plans!IsFlagAt
    <3>2. name \in Plans!Allowed("argocd")
      BY <3>1 DEF Plans!Accepted
    <3> QED BY <1>1, <1>2, <3>2
  <2> QED BY <2>1, PlansNoFlag
<1>3. Plans!Given(tokens) = {}
  BY <1>2 DEF Plans!Given
<1>4. Plans!Rollback("argocd", tokens) = Plans!ArgocdRollback(tokens)
  BY DEF Plans!Rollback
<1>5. PICK w : Plans!Rollback("argocd", tokens) = <<Plans!Word("app"), Plans!Word("rollback"), Plans!Word(w)>>
  BY <1>4 DEF Plans!ArgocdRollback
<1>6. ASSUME NEW a, NEW b, NEW c, a = Plans!Word("app"), b = Plans!Word("rollback"), c = Plans!Word(w)
      PROVE  Plans!Accepted("argocd", <<a, b, c>>)
  <2>1. <<a, b, c>> \in Seq({a, b, c}) /\ <<a, b, c>> # <<>> /\ <<a, b, c>>[1] = a
    OBVIOUS
  <2>2. \A i \in DOMAIN <<a, b, c>> : <<a, b, c>>[i] \in {a, b, c}
    OBVIOUS
  <2>3. \A i \in DOMAIN <<a, b, c>> : ~("flag" \in DOMAIN <<a, b, c>>[i])
    BY <1>6, <2>2, PlansTokensDiffer
  <2> QED BY <1>1, <1>6, <2>1, <2>3, PlansAcceptedByFirst
<1> QED BY <1>3, <1>5, <1>6

(* The command that takes an accepted one back is accepted, and acts in the    *)
(* namespace the first one named (rollback_executor.py 135-260).              *)
THEOREM PlansAreRunnable ==
  ASSUME NEW E, NEW tokens \in Seq(E), NEW binary
  PROVE  Plans!PlanIsRunnable(binary, tokens)
<1>1. CASE binary = "kubectl" /\ Plans!Rollback(binary, tokens) # Plans!NoPlan
  BY <1>1, PlansKubectlPlan, PlansCompletedIsRunnable
<1>2. CASE binary = "helm" /\ Plans!Rollback(binary, tokens) # Plans!NoPlan
  BY <1>2, PlansHelmPlan, PlansCompletedIsRunnable
<1>3. CASE binary = "argocd"
  BY <1>3, PlansArgocdPlan
<1>4. CASE binary \notin {"kubectl", "helm", "argocd"}
  <2>1. Plans!Rollback(binary, tokens) = Plans!NoPlan
    BY <1>4 DEF Plans!Rollback
  <2> QED BY <2>1 DEF Plans!PlanIsRunnable
<1>5. CASE Plans!Rollback(binary, tokens) = Plans!NoPlan
  BY <1>5 DEF Plans!PlanIsRunnable
<1> QED BY <1>1, <1>2, <1>3, <1>4, <1>5
=============================================================================
