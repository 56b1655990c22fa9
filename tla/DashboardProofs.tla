-------------------------- MODULE DashboardProofs ---------------------------
(***************************************************************************)
(* The dashboard shows every request once, and its simulator keeps the     *)
(* limits, for any endpoints, bursts, answers and length of the log.       *)
(***************************************************************************)
EXTENDS Dashboard, FiniteSetTheorems, SequenceTheorems, WellFoundedInduction, TLAPS

-----------------------------------------------------------------------------
(* The inductive invariant. *)

\* The stamps of admissions are in order, and not in the future.
InOrder(a, t) ==
    /\ a \in Seq(0 .. t)
    /\ \A i, j \in 1 .. Len(a) : i <= j => a[i] <= a[j]

\* What each algorithm knows of the admissions a.  The hits are the last of them,
\* and all before are a window old.
HitsAreLast(e, s, a, t) ==
    /\ Len(s) <= Len(a)
    /\ \A k \in 1 .. Len(s) : s[k] = a[Len(a) - Len(s) + k]
    /\ \A i \in 1 .. Len(a) - Len(s) : a[i] + e.window <= t

\* From the i-th admission on, the windows since then were full at most, and the
\* last one holds what the counter says.
CounterOfLastWindow(e, s, a) ==
    LET period(x) == x \div e.window
        n         == Len(a)
    IN  /\ n > 0
        /\ s.boundary = period(a[n]) * e.window + e.window
        /\ \A i \in 1 .. n :
              n - i + 1 <= e.limit * (period(a[n]) - period(a[i])) + s.count

\* From the i-th admission on, no more was taken than a full bucket and its refill.
TokensTaken(e, s, a) ==
    \A i \in 1 .. Len(a) :
        /\ a[i] <= s.last
        /\ e.window * (Len(a) - i + 1) + s.tokens
               <= e.window * e.cap + e.limit * (s.last - a[i])

\* From the i-th admission on, what is not in the queue has leaked; a leak may
\* have begun before the i-th admission, by less than one request.
QueueAndLeak(e, s, a) ==
    \A i \in 1 .. Len(a) :
        e.window * (Len(a) - i + 1 - s.queue)
            <= e.limit * (s.last - a[i]) + e.window - 1

Accounted(e, s, a, t) ==
    IF s = Unset THEN a = <<>>
    ELSE CASE e.algo = "sliding_window" -> HitsAreLast(e, s, a, t)
           [] e.algo = "fixed_window"   -> CounterOfLastWindow(e, s, a)
           [] e.algo = "token_bucket"   -> TokensTaken(e, s, a)
           [] e.algo = "leaky_bucket"   -> QueueAndLeak(e, s, a)

Within(e, a) ==
    \A i, j \in 1 .. Len(a) : i <= j => j - i + 1 <= Allowance(e, a[i], a[j])

\* State s of endpoint e, at time t and after the admissions a.
Sound(e, s, a, t) ==
    InOrder(a, t) /\ StateOK(e, s, t) /\ Accounted(e, s, a, t) /\ Within(e, a)

waiting == inFlight["one"] + inFlight["burst"]

\* The requests of the click under way will be fired within the bound, and
\* whatever is in flight has been fired.
FiresCounted ==
    /\ fires + todo.left <= MaxFires
    /\ Len(admitted) + waiting <= fires
    /\ cleared + waiting <= fires

IInv ==
    /\ TypeOK
    /\ FiresCounted
    /\ RecordedOnce
    /\ Sound(endpoint, state, admitted, now)

-----------------------------------------------------------------------------
(* Arithmetic. *)

LEMMA Distribute ==
    ASSUME NEW a \in Int, NEW b \in Int, NEW c \in Int
    PROVE  /\ a * b \in Int /\ a * b = b * a
           /\ a * (b + c) = a * b + a * c
           /\ a * (b - c) = a * b - a * c
  BY Z3

LEMMA Monotone ==
    ASSUME NEW a \in Nat, NEW b \in Int, NEW c \in Int, b <= c
    PROVE  a * b <= a * c
  BY Z3

LEMMA Strict ==
    ASSUME NEW a \in Nat, NEW b \in Int, NEW c \in Int, b < c
    PROVE  a * b \in Int /\ a * c \in Int /\ a * b + a <= a * c
<1>1. a * (b + 1) <= a * c
  BY Monotone
<1> QED BY <1>1, Distribute

\* The window a time is in.
LEMMA Period ==
    ASSUME NEW w \in Nat \ {0}, NEW x \in Nat
    PROVE  /\ x \div w \in Nat
           /\ (x \div w) * w \in Nat
           /\ (x \div w) * w <= x /\ x < (x \div w) * w + w
  BY Z3

LEMMA PeriodIs ==
    ASSUME NEW w \in Nat \ {0}, NEW x \in Nat, NEW q \in Int,
           q * w <= x, x < q * w + w
    PROVE  x \div w = q
  BY Z3

LEMMA PeriodMonotone ==
    ASSUME NEW w \in Nat \ {0}, NEW x \in Nat, NEW y \in Nat, x <= y
    PROVE  x \div w <= y \div w
<1>1. PICK p \in Nat : p = x \div w
  BY Period
<1>2. PICK q \in Nat : q = y \div w
  BY Period
<1>3. p * w <= x /\ y < q * w + w /\ p * w \in Nat /\ q * w \in Nat
  BY <1>1, <1>2, Period
<1>4. p <= q
  <2> SUFFICES ASSUME q + 1 <= p PROVE FALSE
    BY <1>1, <1>2
  <2>1. w * (q + 1) <= w * p
    BY Monotone
  <2>2. w * (q + 1) = w * q + w * 1 /\ w * q = q * w /\ w * p = p * w
    BY Distribute
  <2> QED BY <1>3, <2>1, <2>2
<1> QED BY <1>1, <1>2, <1>4

\* A quotient rounded up.
LEMMA CeilDivFacts ==
    ASSUME NEW a \in Nat, NEW b \in Nat \ {0}
    PROVE  /\ CeilDiv(a, b) \in Nat
           /\ a <= b * CeilDiv(a, b)
           /\ a > 0 => CeilDiv(a, b) > 0
  BY Z3 DEF CeilDiv

\* It is enough for a product not to exceed what is divided.
LEMMA AtMostFloor ==
    ASSUME NEW a \in Nat, NEW b \in Nat \ {0}, NEW k \in Int, b * k <= a
    PROVE  k <= a \div b
<1>1. PICK q \in Nat : q = a \div b
  BY Period
<1>2. a < q * b + b /\ q * b \in Nat
  BY <1>1, Period
<1> SUFFICES ASSUME q + 1 <= k PROVE FALSE
  BY <1>1
<1>3. b * (q + 1) <= b * k
  BY Monotone
<1>4. b * (q + 1) = b * q + b * 1 /\ b * q = q * b /\ b * k \in Int
  BY Distribute
<1> QED BY <1>2, <1>3, <1>4

-----------------------------------------------------------------------------
(* The simulator's answers, of endpoint e in state s at time t, after the   *)
(* admissions a.                                                             *)

After(answer, a, t) == IF answer.status = 200 THEN Append(a, t) ELSE a

Kept(e, s, a, t) ==
    LET answer == Simulate(e, s, t)
    IN  answer.status \in {200, 429} /\ Sound(e, answer.state, After(answer, a, t), t)

HonoursRetry(e, s, t) ==
    LET answer == Simulate(e, s, t)
    IN  answer.status = 429 =>
            Simulate(e, answer.state, t + answer.retry * Second).status = 200

LEMMA EndpointFacts ==
    ASSUME NEW e \in Endpoints
    PROVE  /\ e.limit \in Nat /\ e.limit >= 1 /\ e.limit \in Nat \ {0}
           /\ e.window \in Nat /\ e.window >= 1 /\ e.window \in Nat \ {0}
           /\ e.cap \in Nat /\ e.cap >= 1
           /\ e.algo \in Algorithms
  BY EndpointAssumption

LEMMA RecordIsSet ==
    /\ \A r \in [boundary : Nat, count : Nat] : r # Unset
    /\ \A r \in [tokens : Nat, last : Nat] : r # Unset
    /\ \A r \in [queue : Nat, last : Nat] : r # Unset
<1>1. DOMAIN Unset = {}
  BY DEF Unset
<1> QED BY <1>1

LEMMA InOrderFacts ==
    ASSUME NEW t \in Nat, NEW a, InOrder(a, t)
    PROVE  /\ Len(a) \in Nat
           /\ \A i \in 1 .. Len(a) : a[i] \in Nat /\ a[i] <= t
  BY DEF InOrder

LEMMA Appended ==
    ASSUME NEW t \in Nat, NEW a, InOrder(a, t)
    PROVE  /\ InOrder(Append(a, t), t)
           /\ Len(Append(a, t)) = Len(a) + 1
           /\ Append(a, t)[Len(a) + 1] = t
           /\ \A i \in 1 .. Len(a) : Append(a, t)[i] = a[i]
<1>1. a \in Seq(0 .. t) /\ t \in 0 .. t
  BY DEF InOrder
<1>2. PICK b : b = Append(a, t)
  OBVIOUS
<1>3. /\ b \in Seq(0 .. t) /\ Len(b) = Len(a) + 1 /\ b[Len(a) + 1] = t
      /\ \A i \in 1 .. Len(a) : b[i] = a[i]
  BY <1>1, <1>2
<1>4. ASSUME NEW i \in 1 .. Len(b), NEW j \in 1 .. Len(b), i <= j
      PROVE  b[i] <= b[j]
  <2>1. CASE j = Len(a) + 1
    BY <1>3, <2>1
  <2>2. CASE j # Len(a) + 1
    <3>1. i \in 1 .. Len(a) /\ j \in 1 .. Len(a)
      BY <1>1, <1>3, <1>4, <2>2
    <3> QED BY <1>3, <1>4, <3>1 DEF InOrder
  <2> QED BY <2>1, <2>2
<1> QED BY <1>2, <1>3, <1>4 DEF InOrder

\* Only the stretches that end with the new admission are to be looked at.
LEMMA WithinAppended ==
    ASSUME NEW e, NEW t \in Nat, NEW a, InOrder(a, t), Within(e, a),
           \A i \in 1 .. Len(a) : Len(a) - i + 2 <= Allowance(e, a[i], t),
           1 <= Allowance(e, t, t)
    PROVE  Within(e, Append(a, t))
<1>1. PICK b : b = Append(a, t)
  OBVIOUS
<1>2. /\ Len(b) = Len(a) + 1 /\ b[Len(a) + 1] = t /\ Len(a) \in Nat
      /\ \A i \in 1 .. Len(a) : b[i] = a[i]
  BY <1>1, Appended, InOrderFacts
<1>3. ASSUME NEW i \in 1 .. Len(b), NEW j \in 1 .. Len(b), i <= j
      PROVE  j - i + 1 <= Allowance(e, b[i], b[j])
  <2>1. CASE j # Len(a) + 1
    <3>1. i \in 1 .. Len(a) /\ j \in 1 .. Len(a)
      BY <1>2, <1>3, <2>1
    <3> QED BY <1>2, <1>3, <3>1 DEF Within
  <2>2. CASE j = Len(a) + 1 /\ i # Len(a) + 1
    <3>1. i \in 1 .. Len(a) /\ j - i + 1 = Len(a) - i + 2
      BY <1>2, <2>2
    <3> QED BY <1>2, <2>2, <3>1
  <2>3. CASE j = Len(a) + 1 /\ i = Len(a) + 1
    <3>1. j - i + 1 = 1
      BY <1>2, <2>3
    <3> QED BY <1>2, <2>3, <3>1
  <2> QED BY <2>1, <2>2, <2>3
<1> QED BY <1>1, <1>3 DEF Within

-----------------------------------------------------------------------------
(* Fixed window. *)

\* Windows hold at most the limit each.
LEMMA FixedKept ==
    ASSUME NEW e \in Endpoints, e.algo = "fixed_window", NEW s, NEW a, NEW t \in Nat,
           Sound(e, s, a, t)
    PROVE  Kept(e, s, a, t)
<1> DEFINE n == Len(a)
           p(x) == x \div e.window
           boundary == p(t) * e.window + e.window
           fresh == [boundary |-> boundary, count |-> 0]
           st == IF Opened(s, fresh).boundary = boundary THEN Opened(s, fresh) ELSE fresh
<1>1. PICK d \in Nat : d = p(t)
  BY EndpointFacts, Period
<1>2. d * e.window \in Nat /\ boundary = d * e.window + e.window /\ boundary \in Nat
  BY <1>1, EndpointFacts, Period
<1>3. /\ n \in Nat
      /\ \A i \in 1 .. n : p(a[i]) \in Nat /\ p(a[i]) <= d
  BY <1>1, EndpointFacts, Period, PeriodMonotone, InOrderFacts DEF Sound
<1> HIDE DEF n, p
<1>4. s = Unset \/ s \in [boundary : Nat, count : 1 .. e.limit]
  BY DEF Sound, StateOK
<1>5. st \in [boundary : Nat, count : 0 .. e.limit] /\ st.boundary = boundary
  BY <1>2, <1>4, EndpointFacts DEF Opened
<1>6. PICK c \in 0 .. e.limit : c = st.count
  BY <1>5
\* The windows up to the one before, or up to this one.
<1>7. \A i \in 1 .. n : n - i + 1 <= e.limit * (d - p(a[i])) + c
  <2>1. CASE s = Unset
    BY <2>1 DEF Sound, Accounted, n
  <2>2. CASE s # Unset
    <3>1. CounterOfLastWindow(e, s, a)
      BY <2>2 DEF Sound, Accounted
    <3>2. PICK q \in Nat : q = p(a[n])
      BY <3>1, <1>3 DEF CounterOfLastWindow, n, p
    <3>3. /\ n > 0 /\ s.boundary = q * e.window + e.window
          /\ \A i \in 1 .. n : n - i + 1 <= e.limit * (q - p(a[i])) + s.count
      BY <3>1, <3>2 DEF CounterOfLastWindow, n, p
    <3>4. s.count \in 1 .. e.limit /\ Opened(s, fresh) = s
      BY <2>2, <1>4 DEF Opened
    <3>5. q <= d
      BY <3>2, <3>3, <1>3
    <3>6. CASE q = d
      <4>1. c = s.count
        BY <3>3, <3>4, <3>6, <1>2, <1>6
      <4> QED BY <3>3, <3>6, <4>1
    <3>7. CASE q # d
      <4>1. TAKE i \in 1 .. n
      <4>2. PICK x \in Nat : x = p(a[i])
        BY <1>3
      <4>3. n - i + 1 <= e.limit * (q - x) + s.count
        BY <3>3, <4>2
      <4>4. PICK y \in Int : y = e.limit * (q - x)
        BY EndpointFacts, Distribute
      <4>5. PICK z \in Int : z = e.limit * (d - x)
        BY EndpointFacts, Distribute
      <4>6. y + e.limit <= z
        <5>1. q - x < d - x /\ q - x \in Int /\ d - x \in Int
          BY <3>5, <3>7
        <5> QED BY <5>1, <4>4, <4>5, EndpointFacts, Strict
      <4>7. n - i + 1 <= z + c
        <5>1. PICK k \in Int : k = n - i + 1
          BY <1>3
        <5>2. k <= y + e.limit /\ e.limit \in Nat /\ c \in Nat
          BY <5>1, <3>4, <4>3, <4>4, <1>6, EndpointFacts
        <5> QED BY <5>1, <5>2, <4>6
      <4> QED BY <4>2, <4>5, <4>7
    <3> QED BY <3>6, <3>7
  <2> QED BY <2>1, <2>2
<1>8. \A i \in 1 .. n : e.limit * (d - p(a[i])) \in Int
  BY <1>3, EndpointFacts, Distribute
<1>9. Simulate(e, s, t) = IF c < e.limit THEN Allow([st EXCEPT !.count = @ + 1])
                          ELSE Block(st, boundary - t)
  BY <1>6 DEF Simulate, Fixed, p
<1>10. CASE c < e.limit
  <2>1. PICK r : r = [st EXCEPT !.count = @ + 1]
    OBVIOUS
  <2>2. r \in [boundary : Nat, count : 1 .. e.limit] /\ r.boundary = boundary /\ r.count = c + 1
    BY <2>1, <1>5, <1>6, <1>10, EndpointFacts
  <2>3. PICK b : b = Append(a, t)
    OBVIOUS
  <2>4. /\ InOrder(b, t) /\ Len(b) = n + 1 /\ b[n + 1] = t
        /\ \A i \in 1 .. n : b[i] = a[i]
    BY <2>3, Appended DEF Sound, n
  <2>5. CounterOfLastWindow(e, r, b)
    <3>1. \A i \in 1 .. n + 1 : n + 1 - i + 1 <= e.limit * (d - p(b[i])) + r.count
      <4>1. TAKE i \in 1 .. n + 1
      <4>2. CASE i = n + 1
        <5>1. d - p(b[i]) = 0 /\ e.limit * 0 = 0
          BY <2>4, <4>2, <1>1, EndpointFacts
        <5> QED BY <5>1, <4>2, <2>2, <1>3, <1>6
      <4>3. CASE i # n + 1
        <5>1. i \in 1 .. n /\ b[i] = a[i]
          BY <4>3, <2>4, <1>3
        <5>2. PICK y \in Int : y = e.limit * (d - p(a[i]))
          BY <5>1, <1>8
        <5>3. n - i + 1 <= y + c
          BY <5>1, <5>2, <1>7
        <5>4. n + 1 - i + 1 <= y + r.count
          BY <5>1, <5>3, <2>2, <1>3, <1>6
        <5> QED BY <5>1, <5>2, <5>4
      <4> QED BY <4>2, <4>3
    <3> QED BY <3>1, <2>2, <2>4, <1>1, <1>2, <1>3 DEF CounterOfLastWindow, n, p
  <2>6. Within(e, b)
    <3>1. ASSUME NEW x \in Nat
          PROVE  Allowance(e, x, t) = e.limit * (d - p(x) + 1)
      BY <1>1 DEF Allowance, p
    <3>2. 1 <= Allowance(e, t, t)
      <4>1. d - p(t) + 1 = 1 /\ e.limit * 1 = e.limit
        BY <1>1, EndpointFacts
      <4> QED BY <3>1, <4>1, EndpointFacts
    <3>3. ASSUME NEW i \in 1 .. n
          PROVE  n - i + 2 <= Allowance(e, a[i], t)
      <4>1. PICK x \in Nat : x = p(a[i])
        BY <1>3
      <4>2. e.limit * (d - x + 1) = e.limit * (d - x) + e.limit * 1 /\ e.limit * (d - x) \in Int
        BY EndpointFacts, Distribute
      <4>3. a[i] \in Nat
        BY InOrderFacts DEF Sound, n
      <4>4. Allowance(e, a[i], t) = e.limit * (d - x) + e.limit
        BY <3>1, <4>1, <4>2, <4>3, EndpointFacts
      <4>5. n - i + 1 <= e.limit * (d - x) + c
        BY <4>1, <1>7
      <4> QED BY <4>2, <4>4, <4>5, <1>3, <1>6, <1>10, EndpointFacts
    <3> QED BY <3>2, <3>3, <2>3, WithinAppended DEF Sound, n
  <2>7. r # Unset
    BY <2>2, RecordIsSet
  <2>8. Simulate(e, s, t).status = 200 /\ Simulate(e, s, t).state = r
    BY <1>9, <1>10, <2>1 DEF Allow
  <2>9. Sound(e, r, b, t)
    BY <2>2, <2>4, <2>5, <2>6, <2>7 DEF Sound, StateOK, Accounted
  <2> QED BY <2>3, <2>8, <2>9 DEF Kept, After
\* A full counter is that of the state before.
<1>11. CASE ~(c < e.limit)
  <2>1. st = s
    BY <1>6, <1>11, EndpointFacts DEF Opened
  <2>2. Simulate(e, s, t).status = 429 /\ Simulate(e, s, t).state = s
    BY <1>9, <1>11, <2>1 DEF Block
  <2> QED BY <2>2 DEF Kept, After
<1> QED BY <1>10, <1>11

\* At the boundary a new window begins.
LEMMA FixedHonours ==
    ASSUME NEW e \in Endpoints, e.algo = "fixed_window", NEW s, NEW t \in Nat,
           StateOK(e, s, t)
    PROVE  HonoursRetry(e, s, t)
<1> DEFINE boundary(x) == (x \div e.window) * e.window + e.window
           fresh(x) == [boundary |-> boundary(x), count |-> 0]
           st(r, x) == IF Opened(r, fresh(x)).boundary = boundary(x)
                       THEN Opened(r, fresh(x)) ELSE fresh(x)
<1> HIDE DEF boundary
<1>1. ASSUME NEW x \in Nat
      PROVE  boundary(x) \in Nat /\ x < boundary(x)
  <2>1. (x \div e.window) * e.window \in Nat /\ x < (x \div e.window) * e.window + e.window
    BY EndpointFacts, Period
  <2> QED BY <2>1, EndpointFacts DEF boundary
<1>2. \A r, x : Simulate(e, r, x) = IF st(r, x).count < e.limit
                                    THEN Allow([st(r, x) EXCEPT !.count = @ + 1])
                                    ELSE Block(st(r, x), boundary(x) - x)
  BY DEF Simulate, Fixed, boundary
<1> SUFFICES ASSUME Simulate(e, s, t).status = 429
             PROVE  Simulate(e, Simulate(e, s, t).state,
                             t + Simulate(e, s, t).retry * Second).status = 200
  BY DEF HonoursRetry
<1>3. PICK r : r = st(s, t)
  OBVIOUS
<1>4. r.boundary = boundary(t) /\ r \in [boundary : Nat, count : 0 .. e.limit]
  <2>1. s = Unset \/ s \in [boundary : Nat, count : 1 .. e.limit]
    BY DEF StateOK
  <2> QED BY <1>1, <1>3, <2>1, EndpointFacts DEF Opened
<1>5. PICK wait : wait = boundary(t) - t
  OBVIOUS
<1>6. wait \in Nat
  BY <1>1, <1>5
<1>7. /\ Simulate(e, s, t).state = r
      /\ Simulate(e, s, t).retry = CeilDiv(wait, Second)
  BY <1>2, <1>3, <1>5 DEF Allow, Block
<1>8. Second \in Nat \ {0}
  BY PageAssumption
<1>9. PICK k \in Nat : k = CeilDiv(wait, Second)
  BY <1>6, <1>8, CeilDivFacts
<1>10. wait <= k * Second /\ k * Second \in Nat
  BY <1>6, <1>8, <1>9, CeilDivFacts, Distribute
<1>11. PICK later \in Nat : later = t + k * Second
  BY <1>10
<1>12. boundary(t) <= later
  BY <1>1, <1>5, <1>10, <1>11
<1>13. r.boundary # boundary(later)
  BY <1>1, <1>4, <1>11, <1>12
<1>14. st(r, later).count = 0
  <2>1. r # Unset
    BY <1>4, RecordIsSet
  <2> QED BY <2>1, <1>13 DEF Opened
<1> HIDE DEF st
<1>15. Simulate(e, r, later).status = 200
  BY <1>2, <1>14, EndpointFacts DEF Allow
<1> QED BY <1>7, <1>9, <1>11, <1>15

-----------------------------------------------------------------------------
(* Token bucket. *)

\* A bucket never has more than its capacity and what the time has refilled.
LEMMA TokensKept ==
    ASSUME NEW e \in Endpoints, e.algo = "token_bucket", NEW s, NEW a, NEW t \in Nat,
           Sound(e, s, a, t)
    PROVE  Kept(e, s, a, t)
<1> DEFINE n == Len(a)
           st == Opened(s, [tokens |-> e.cap * e.window, last |-> t])
           level == Refill(e, st, t)
<1>1. PICK l \in Nat : l = e.limit /\ l >= 1
  BY EndpointFacts
<1>2. PICK w \in Nat \ {0} : w = e.window
  BY EndpointFacts
<1>3. PICK full \in Nat : full = e.cap * e.window /\ full = w * e.cap
  BY <1>2, EndpointFacts, Distribute
<1>4. w <= full
  <2>1. w * 1 <= w * e.cap /\ w * 1 = w
    BY EndpointFacts, Monotone
  <2> QED BY <1>3, <2>1
<1>5. n \in Nat /\ \A i \in 1 .. n : a[i] \in Nat /\ a[i] <= t
  BY InOrderFacts DEF Sound
<1> HIDE DEF n
<1>6. s = Unset \/ s \in [tokens : 0 .. full, last : 0 .. t]
  BY <1>3 DEF Sound, StateOK
<1>7. st \in [tokens : 0 .. full, last : 0 .. t]
  BY <1>3, <1>6 DEF Opened
<1>8. \A i \in 1 .. n : /\ a[i] <= st.last
                        /\ w * (n - i + 1) + st.tokens <= full + l * (st.last - a[i])
  <2>1. CASE s = Unset
    <3>1. n = 0
      BY <2>1 DEF Sound, Accounted, n
    <3> QED BY <3>1
  <2>2. CASE s # Unset
    <3>1. TokensTaken(e, s, a) /\ st = s
      BY <2>2 DEF Sound, Accounted, Opened
    <3> QED BY <3>1, <1>1, <1>2, <1>3 DEF TokensTaken, n
  <2> QED BY <2>1, <2>2
<1>9. PICK tk \in Nat, la \in 0 .. t : tk = st.tokens /\ la = st.last /\ tk <= full
  BY <1>7
<1>10. PICK lv : lv = level
  OBVIOUS
<1>11. PICK gain \in Nat : gain = (t - la) * l /\ gain = l * (t - la)
  <2>1. t - la \in Nat /\ t - la \in Int
    BY <1>9
  <2> QED BY <2>1, <1>1, Distribute, Z3
<1>12. lv \in Nat /\ lv <= full /\ lv <= tk + gain
  BY <1>1, <1>3, <1>9, <1>10, <1>11 DEF Refill, Least
<1>13. Simulate(e, s, t) =
          IF lv >= w THEN Allow([tokens |-> lv - w, last |-> t])
          ELSE Block([tokens |-> lv, last |-> t], CeilDiv(w - lv, l))
  BY <1>1, <1>2, <1>10 DEF Simulate, Tokens
<1> HIDE DEF st, level
\* With the refill the account is the same.
<1>14. ASSUME NEW i \in 1 .. n
       PROVE  /\ w * (n - i + 1) \in Int /\ l * (t - a[i]) \in Int
              /\ w * (n - i + 1) + lv <= full + l * (t - a[i])
  <2>1. PICK x \in Nat : x = a[i] /\ x <= la
    BY <1>5, <1>8, <1>9
  <2>2. PICK taken \in Int : taken = w * (n - i + 1)
    BY <1>5, Distribute
  <2>3. PICK y \in Int : y = l * (la - x)
    BY <1>9, Distribute
  <2>4. taken + tk <= full + y
    BY <1>8, <1>9, <2>1, <2>2, <2>3
  <2>5. l * (t - x) = y + gain
    <3>1. PICK u \in Int : u = la - x
      BY <1>9, <2>1
    <3>2. PICK v \in Int : v = t - la
      BY <1>9
    <3>3. l * (u + v) = l * u + l * v /\ u + v = t - x
      BY <3>1, <3>2, <1>9, <2>1, Distribute
    <3> QED BY <3>1, <3>2, <3>3, <1>11, <2>3
  <2> QED BY <1>12, <2>1, <2>2, <2>3, <2>4, <2>5
<1>15. CASE lv >= w
  <2>1. PICK r : r = [tokens |-> lv - w, last |-> t]
    OBVIOUS
  <2>2. r \in [tokens : 0 .. full, last : 0 .. t] /\ r.tokens = lv - w /\ r.last = t
    BY <2>1, <1>12, <1>15
  <2>3. PICK b : b = Append(a, t)
    OBVIOUS
  <2>4. /\ InOrder(b, t) /\ Len(b) = n + 1 /\ b[n + 1] = t
        /\ \A i \in 1 .. n : b[i] = a[i]
    BY <2>3, Appended DEF Sound, n
  <2>5. ASSUME NEW i \in 1 .. n
        PROVE  /\ w * (n - i + 2) \in Int /\ l * (t - a[i]) \in Int
               /\ w * (n - i + 2) + (lv - w) <= full + l * (t - a[i])
    <3>1. PICK k \in Int : k = n - i + 1 /\ k + 1 = n - i + 2
      BY <1>5
    <3>2. w * (k + 1) = w * k + w * 1 /\ w * k \in Int
      BY <3>1, Distribute
    <3> QED BY <3>1, <3>2, <1>14, <1>12
  <2>6. TokensTaken(e, r, b)
    <3> SUFFICES ASSUME NEW i \in 1 .. n + 1
                 PROVE  /\ b[i] <= r.last
                        /\ e.window * (Len(b) - i + 1) + r.tokens
                               <= e.window * e.cap + e.limit * (r.last - b[i])
      BY <2>4 DEF TokensTaken
    <3>0. /\ e.window = w /\ e.limit = l /\ e.window * e.cap = full
          /\ Len(b) = n + 1 /\ r.last = t /\ r.tokens = lv - w
      BY <2>2, <2>4, <1>1, <1>2, <1>3
    <3> SUFFICES /\ b[i] <= t
                 /\ w * (n + 1 - i + 1) + (lv - w) <= full + l * (t - b[i])
      <4>1. e.window * (Len(b) - i + 1) + r.tokens = w * (n + 1 - i + 1) + (lv - w)
        BY <3>0, <1>5, <1>12
      <4>2. e.window * e.cap + e.limit * (r.last - b[i]) = full + l * (t - b[i])
        BY <3>0, <1>3
      <4>3. r.last = t
        BY <3>0
      <4> QED BY <4>1, <4>2, <4>3
    <3>1. CASE i = n + 1
      <4>1. n + 1 - i + 1 = 1 /\ t - b[i] = 0 /\ w * 1 = w /\ l * 0 = 0
        BY <3>1, <1>5, <2>4
      <4> QED BY <4>1, <3>1, <2>4, <1>12
    <3>2. CASE i # n + 1
      <4>1. i \in 1 .. n /\ b[i] = a[i] /\ n + 1 - i + 1 = n - i + 2
        BY <3>2, <1>5, <2>4
      <4> QED BY <4>1, <2>5, <1>5
    <3> QED BY <3>1, <3>2
  <2>7. Within(e, b)
    <3>1. ASSUME NEW x
          PROVE  Allowance(e, x, t) = e.cap + ((t - x) * l) \div w
      BY <1>1, <1>2 DEF Allowance
    <3>2. 1 <= Allowance(e, t, t)
      <4>1. (t - t) * l = 0 /\ 0 \div w \in Nat
        BY <1>1, Period
      <4> QED BY <3>1, <4>1, EndpointFacts
    <3>3. ASSUME NEW i \in 1 .. n
          PROVE  n - i + 2 <= Allowance(e, a[i], t)
      <4>1. PICK v \in Nat : v = t - a[i]
        BY <1>5
      <4>2. l * v \in Nat /\ v * l = l * v
        BY <4>1, Distribute, Z3
      <4>3. PICK k \in Int : k = n - i + 2
        BY <1>5
      <4>4. w * (k - e.cap) = w * k - w * e.cap /\ w * k \in Int
        BY <4>3, EndpointFacts, Distribute
      <4>5. w * (k - e.cap) <= l * v
        BY <1>3, <1>12, <1>15, <2>5, <4>1, <4>3, <4>4
      <4>6. k - e.cap <= (l * v) \div w
        BY <4>2, <4>5, EndpointFacts, AtMostFloor
      <4>7. (l * v) \div w \in Nat
        BY <4>2, Period
      <4> QED BY <3>1, <4>1, <4>2, <4>3, <4>6, <4>7, EndpointFacts
    <3> QED BY <3>2, <3>3, <2>3, WithinAppended DEF Sound, n
  <2>8. r # Unset
    BY <2>2, RecordIsSet
  <2>9. Simulate(e, s, t).status = 200 /\ Simulate(e, s, t).state = r
    BY <1>13, <1>15, <2>1 DEF Allow
  <2>10. Sound(e, r, b, t)
    BY <1>3, <2>2, <2>4, <2>6, <2>7, <2>8 DEF Sound, StateOK, Accounted
  <2> QED BY <2>3, <2>9, <2>10 DEF Kept, After
<1>16. CASE ~(lv >= w)
  <2>1. PICK r : r = [tokens |-> lv, last |-> t]
    OBVIOUS
  <2>2. r \in [tokens : 0 .. full, last : 0 .. t] /\ r.tokens = lv /\ r.last = t
    BY <2>1, <1>12
  <2>3. TokensTaken(e, r, a)
    BY <2>2, <1>1, <1>2, <1>3, <1>5, <1>14 DEF TokensTaken, n
  <2>4. r # Unset
    BY <2>2, RecordIsSet
  <2>5. Simulate(e, s, t).status = 429 /\ Simulate(e, s, t).state = r
    BY <1>13, <1>16, <2>1 DEF Block
  <2>6. Sound(e, r, a, t)
    BY <1>3, <2>2, <2>3, <2>4 DEF Sound, StateOK, Accounted
  <2> QED BY <2>5, <2>6 DEF Kept, After
<1> QED BY <1>15, <1>16

\* A turned away request waits for the rest of a token.
LEMMA TokensHonour ==
    ASSUME NEW e \in Endpoints, e.algo = "token_bucket", NEW s, NEW t \in Nat,
           StateOK(e, s, t)
    PROVE  HonoursRetry(e, s, t)
<1> DEFINE st(r, x) == Opened(r, [tokens |-> e.cap * e.window, last |-> x])
           lv(r, x) == Refill(e, st(r, x), x)
<1>1. \A r, x : Simulate(e, r, x) =
          IF lv(r, x) >= e.window
          THEN Allow([tokens |-> lv(r, x) - e.window, last |-> x])
          ELSE Block([tokens |-> lv(r, x), last |-> x], CeilDiv(e.window - lv(r, x), e.limit))
  BY DEF Simulate, Tokens
<1> SUFFICES ASSUME Simulate(e, s, t).status = 429
             PROVE  Simulate(e, Simulate(e, s, t).state,
                             t + Simulate(e, s, t).retry * Second).status = 200
  BY DEF HonoursRetry
<1>2. PICK w \in Nat \ {0}, l \in Nat \ {0} : w = e.window /\ l = e.limit
  BY EndpointFacts
<1>3. PICK full \in Nat : full = e.cap * e.window /\ w <= full
  <2>1. w * 1 <= w * e.cap /\ w * 1 = w /\ w * e.cap = e.cap * w /\ w * e.cap \in Int
    BY EndpointFacts, Monotone, Distribute
  <2> QED BY <1>2, <2>1
<1>4. PICK level : level = lv(s, t)
  OBVIOUS
<1>5. level \in Nat
  <2>1. s = Unset \/ s \in [tokens : 0 .. full, last : 0 .. t]
    BY <1>3 DEF StateOK
  <2>2. st(s, t) \in [tokens : 0 .. full, last : 0 .. t]
    BY <1>3, <2>1 DEF Opened
  <2>3. PICK tk \in Nat, gap \in Nat : tk = st(s, t).tokens /\ gap = t - st(s, t).last
    BY <2>2
  <2>4. gap * l \in Nat
    BY <2>3, Z3
  <2> QED BY <1>2, <1>3, <1>4, <2>3, <2>4 DEF Refill, Least
<1>6. PICK r : r = [tokens |-> level, last |-> t]
  OBVIOUS
<1>7. /\ level < w
      /\ Simulate(e, s, t).state = r
      /\ Simulate(e, s, t).retry = CeilDiv(CeilDiv(w - level, l), Second)
  <2>1. Simulate(e, s, t) =
           IF level >= w THEN Allow([tokens |-> level - w, last |-> t])
           ELSE Block([tokens |-> level, last |-> t], CeilDiv(w - level, l))
    BY <1>1, <1>2, <1>4
  <2> QED BY <2>1, <1>2, <1>5, <1>6 DEF Allow, Block
<1>8. PICK wait \in Nat : wait = CeilDiv(w - level, l) /\ w - level <= l * wait
  <2>1. PICK rest \in Nat : rest = w - level
    BY <1>5, <1>7
  <2> QED BY <2>1, CeilDivFacts
<1>9. Second \in Nat \ {0}
  BY PageAssumption
<1>10. PICK k \in Nat : k = CeilDiv(wait, Second) /\ wait <= Second * k
  BY <1>9, CeilDivFacts
<1>11. PICK gap \in Nat : gap = k * Second /\ wait <= gap
  BY <1>9, <1>10, Distribute, Z3
<1>12. l * wait <= l * gap /\ l * wait \in Int /\ l * gap \in Nat /\ gap * l = l * gap
  BY <1>11, Monotone, Distribute, Z3
<1>13. PICK later \in Nat : later = t + gap
  OBVIOUS
<1>14. st(r, later) = r
  BY <1>5, <1>6, RecordIsSet DEF Opened
<1>15. lv(r, later) >= w
  <2>1. lv(r, later) = Least(full, level + gap * l)
    BY <1>2, <1>3, <1>6, <1>13, <1>14 DEF Refill
  <2>2. w <= level + gap * l
    BY <1>5, <1>7, <1>8, <1>12
  <2> QED BY <1>3, <2>1, <2>2 DEF Least
<1>16. Simulate(e, r, later) =
          IF lv(r, later) >= e.window
          THEN Allow([tokens |-> lv(r, later) - e.window, last |-> later])
          ELSE Block([tokens |-> lv(r, later), last |-> later],
                     CeilDiv(e.window - lv(r, later), e.limit))
  BY <1>1
<1> HIDE DEF st, lv
<1>17. Simulate(e, r, later).status = 200
  <2>1. Simulate(e, r, later) = Allow([tokens |-> lv(r, later) - e.window, last |-> later])
    BY <1>16, <1>2, <1>15
  <2> QED BY <2>1 DEF Allow
<1> QED BY <1>7, <1>8, <1>10, <1>11, <1>13, <1>17

-----------------------------------------------------------------------------
(* Leaky bucket. *)

\* The queue after the leak at time t.
Leaked(e, s, t) ==
    LET old == Opened(s, [queue |-> 0, last |-> t])
        out == ((t - old.last) * e.limit) \div e.window
    IN  IF out > 0 THEN [queue |-> Most(0, old.queue - out), last |-> t] ELSE old

LEMMA LeakyAnswer ==
    ASSUME NEW e, e.algo = "leaky_bucket", NEW s, NEW t
    PROVE  Simulate(e, s, t) =
              IF Leaked(e, s, t).queue < e.limit
              THEN Allow([Leaked(e, s, t) EXCEPT !.queue = @ + 1])
              ELSE Block(Leaked(e, s, t), CeilDiv(e.window, e.limit))
  BY DEF Simulate, Leaky, Leaked

\* What has begun to leak by then is less than one request.
LEMMA LeakedFacts ==
    ASSUME NEW e \in Endpoints, e.algo = "leaky_bucket", NEW s, NEW t \in Nat,
           StateOK(e, s, t)
    PROVE  /\ Leaked(e, s, t) \in [queue : 0 .. e.limit, last : 0 .. t]
           /\ e.limit * (t - Leaked(e, s, t).last) <= e.window - 1
<1> DEFINE old == Opened(s, [queue |-> 0, last |-> t])
<1>1. PICK l \in Nat : l = e.limit /\ l >= 1
  BY EndpointFacts
<1>2. PICK w \in Nat \ {0} : w = e.window
  BY EndpointFacts
<1>3. old \in [queue : 0 .. l, last : 0 .. t]
  <2>1. s = Unset \/ s \in [queue : 1 .. l, last : 0 .. t]
    BY <1>1 DEF StateOK
  <2> QED BY <1>1, <2>1 DEF Opened
<1>4. PICK gap \in Nat : gap = t - old.last
  BY <1>3
<1>5. gap * l \in Nat /\ gap * l = l * gap
  BY <1>1, Distribute, Z3
<1>6. PICK out \in Nat : out = (gap * l) \div w /\ gap * l < out * w + w
  BY <1>5, Period
<1>7. PICK q \in 0 .. l : q = old.queue
  BY <1>3
<1>8. Leaked(e, s, t) = IF out > 0 THEN [queue |-> Most(0, q - out), last |-> t] ELSE old
  BY <1>1, <1>2, <1>4, <1>6, <1>7 DEF Leaked
<1> HIDE DEF old
<1>9. CASE out > 0
  <2>1. Most(0, q - out) \in 0 .. l
    BY <1>6, <1>7, <1>9 DEF Most
  <2>2. t - t = 0 /\ l * 0 = 0
    BY <1>1
  <2> QED BY <1>1, <1>2, <1>8, <1>9, <2>1, <2>2
<1>10. CASE out = 0
  <2>1. l * gap < w
    BY <1>2, <1>5, <1>6, <1>10
  <2>2. l * gap <= w - 1
    BY <2>1, <1>5
  <2> QED BY <1>1, <1>2, <1>3, <1>4, <1>8, <1>10, <2>2
<1> QED BY <1>6, <1>9, <1>10

\* The account of the queue goes on when it leaks.
LEMMA LeakedAccount ==
    ASSUME NEW e \in Endpoints, e.algo = "leaky_bucket", NEW s, NEW a, NEW t \in Nat,
           Sound(e, s, a, t)
    PROVE  QueueAndLeak(e, Leaked(e, s, t), a)
<1> DEFINE n == Len(a)
           old == Opened(s, [queue |-> 0, last |-> t])
<1>1. PICK l \in Nat : l = e.limit /\ l >= 1
  BY EndpointFacts
<1>2. PICK w \in Nat \ {0} : w = e.window
  BY EndpointFacts
<1>3. n \in Nat /\ \A i \in 1 .. n : a[i] \in Nat /\ a[i] <= t
  BY InOrderFacts DEF Sound
<1> HIDE DEF n
<1>4. CASE s = Unset
  <2>1. n = 0
    BY <1>4 DEF Sound, Accounted, n
  <2> QED BY <2>1 DEF QueueAndLeak, n
<1>5. CASE s # Unset
  <2>1. QueueAndLeak(e, s, a) /\ old = s
    BY <1>5 DEF Sound, Accounted, Opened
  <2>2. s \in [queue : 1 .. l, last : 0 .. t]
    BY <1>1, <1>5 DEF Sound, StateOK
  <2>3. PICK gap \in Nat : gap = t - s.last
    BY <2>2
  <2>4. gap * l \in Nat /\ gap * l = l * gap
    BY <1>1, Distribute, Z3
  <2>5. PICK out \in Nat : out = (gap * l) \div w /\ out * w <= gap * l
    BY <2>4, Period
  <2>6. PICK q \in 0 .. l, la \in 0 .. t : q = s.queue /\ la = s.last
    BY <2>2
  <2>7. Leaked(e, s, t) = IF out > 0 THEN [queue |-> Most(0, q - out), last |-> t] ELSE s
    BY <1>1, <1>2, <2>1, <2>3, <2>5, <2>6 DEF Leaked
  <2>8. CASE out = 0
    BY <2>1, <2>7, <2>8
  <2>9. CASE out > 0
    <3>1. PICK sq \in Nat : sq = Most(0, q - out) /\ sq >= q - out
      BY <2>5, <2>6 DEF Most
    <3>2. Leaked(e, s, t).queue = sq /\ Leaked(e, s, t).last = t
      BY <2>7, <2>9, <3>1
    <3>3. ASSUME NEW i \in 1 .. n
          PROVE  w * (n - i + 1 - sq) <= l * (t - a[i]) + w - 1
      <4>1. PICK x \in Nat : x = a[i]
        BY <1>3
      <4>2. PICK k \in Int : k = n - i + 1
        BY <1>3
      <4>3. w * (k - q) <= l * (la - x) + w - 1
        <5>1. e.window * (Len(a) - i + 1 - s.queue) <= e.limit * (s.last - a[i]) + e.window - 1
          BY <2>1 DEF QueueAndLeak, n
        <5>2. Len(a) - i + 1 - s.queue = k - q
          <6>1. Len(a) = n
            BY DEF n
          <6>2. n - i + 1 - q = k - q
            BY <1>3, <2>6, <4>2
          <6> QED BY <6>1, <6>2, <2>6
        <5> QED BY <5>1, <5>2, <1>1, <1>2, <2>6, <4>1
      <4>4. w * (k - sq) <= w * (k - q + out)
        BY <2>5, <2>6, <3>1, Monotone
      <4>5. w * (k - q + out) = w * (k - q) + w * out /\ w * (k - q) \in Int
            /\ w * out = out * w /\ w * out \in Int /\ w * (k - sq) \in Int
        BY <2>6, <3>1, Distribute
      <4>6. l * (t - x) = l * (la - x) + l * gap
        <5>1. PICK u \in Int : u = la - x
          BY <2>6
        <5>2. l * (u + gap) = l * u + l * gap /\ u + gap = t - x
          BY <5>1, <2>3, <2>6, Distribute
        <5> QED BY <5>1, <5>2
      <4>7. l * (la - x) \in Int /\ l * gap \in Int
        BY <2>6, Distribute
      <4>8. w * (k - sq) <= w * (k - q) + l * gap
        BY <2>4, <2>5, <4>4, <4>5, <4>7
      <4>9. w * (k - sq) <= l * (t - x) + w - 1
        BY <4>3, <4>5, <4>6, <4>7, <4>8
      <4>10. n - i + 1 - sq = k - sq
        BY <1>3, <3>1, <4>2
      <4> QED BY <4>1, <4>9, <4>10
    <3> QED BY <3>2, <3>3, <1>1, <1>2 DEF QueueAndLeak, n
  <2> QED BY <2>5, <2>8, <2>9
<1> QED BY <1>4, <1>5

\* What is admitted fits in the queue and the leak.
LEMMA LeakyKept ==
    ASSUME NEW e \in Endpoints, e.algo = "leaky_bucket", NEW s, NEW a, NEW t \in Nat,
           Sound(e, s, a, t)
    PROVE  Kept(e, s, a, t)
<1> DEFINE n == Len(a)
<1>1. PICK l \in Nat : l = e.limit /\ l >= 1
  BY EndpointFacts
<1>2. PICK w \in Nat \ {0} : w = e.window
  BY EndpointFacts
<1>3. n \in Nat /\ \A i \in 1 .. n : a[i] \in Nat /\ a[i] <= t
  BY InOrderFacts DEF Sound
<1>4. PICK st \in [queue : 0 .. l, last : 0 .. t] : st = Leaked(e, s, t)
  BY <1>1, LeakedFacts DEF Sound
<1>5. PICK q \in 0 .. l, la \in 0 .. t : q = st.queue /\ la = st.last
  BY <1>4
<1>6. l * (t - la) <= w - 1 /\ l * (t - la) \in Int
  <2>1. l * (t - la) <= w - 1
    BY <1>1, <1>2, <1>4, <1>5, LeakedFacts DEF Sound
  <2> QED BY <2>1, <1>5, Distribute
<1>7. \A i \in 1 .. n : w * (n - i + 1 - q) <= l * (la - a[i]) + w - 1
  BY <1>1, <1>2, <1>4, <1>5, LeakedAccount DEF QueueAndLeak
<1> HIDE DEF n
<1>8. Simulate(e, s, t) = IF q < l THEN Allow([st EXCEPT !.queue = @ + 1])
                          ELSE Block(st, CeilDiv(w, l))
  BY <1>1, <1>2, <1>4, <1>5, LeakyAnswer
<1>9. CASE q < l
  <2>1. PICK r : r = [st EXCEPT !.queue = @ + 1]
    OBVIOUS
  <2>2. r \in [queue : 1 .. l, last : 0 .. t] /\ r.queue = q + 1 /\ r.last = la
    BY <2>1, <1>4, <1>5, <1>9
  <2>3. PICK b : b = Append(a, t)
    OBVIOUS
  <2>4. /\ InOrder(b, t) /\ Len(b) = n + 1 /\ b[n + 1] = t
        /\ \A i \in 1 .. n : b[i] = a[i]
    BY <2>3, Appended DEF Sound, n
  <2>5. ASSUME NEW i \in 1 .. n + 1
        PROVE  w * (n + 1 - i + 1 - (q + 1)) <= l * (la - b[i]) + w - 1
    <3>1. CASE i = n + 1
      <4>1. n + 1 - i + 1 - (q + 1) = 0 - q /\ b[i] = t
        BY <3>1, <1>3, <1>5, <2>4
      <4>2. w * (0 - q) = w * 0 - w * q /\ w * 0 = 0 /\ w * q \in Nat
        BY <1>5, Distribute, Z3
      <4>3. l * (la - t) = 0 - l * (t - la)
        <5>1. PICK u \in Int : u = t - la
          BY <1>5
        <5>2. l * (0 - u) = l * 0 - l * u /\ l * 0 = 0 /\ la - t = 0 - u
          BY <5>1, <1>5, Distribute
        <5> QED BY <5>1, <5>2
      <4> QED BY <4>1, <4>2, <4>3, <1>6
    <3>2. CASE i # n + 1
      <4>1. i \in 1 .. n /\ b[i] = a[i] /\ n + 1 - i + 1 - (q + 1) = n - i + 1 - q
        BY <3>2, <1>3, <1>5, <2>4
      <4> QED BY <4>1, <1>7
    <3> QED BY <3>1, <3>2
  <2>6. QueueAndLeak(e, r, b)
    BY <2>2, <2>4, <2>5, <1>1, <1>2, <1>3, <1>5 DEF QueueAndLeak
  <2>7. Within(e, b)
    <3>1. ASSUME NEW x
          PROVE  Allowance(e, x, t) = CeilDiv((t - x) * l, w) + l
      BY <1>1, <1>2 DEF Allowance
    <3>2. 1 <= Allowance(e, t, t)
      <4>1. (t - t) * l = 0 /\ CeilDiv(0, w) \in Nat
        BY <1>1, CeilDivFacts
      <4> QED BY <3>1, <4>1, <1>1
    <3>3. ASSUME NEW i \in 1 .. n
          PROVE  n - i + 2 <= Allowance(e, a[i], t)
      <4>1. PICK x \in Nat : x = a[i] /\ x <= t
        BY <1>3
      <4>2. PICK v \in Nat : v = t - x
        BY <4>1
      <4>3. l * v \in Nat /\ v * l = l * v
        BY Distribute, Z3
      <4>4. PICK k \in Int : k = n - i + 1 - q
        BY <1>3, <1>5
      <4>5. l * (la - x) <= l * v /\ l * (la - x) \in Int
        BY <1>5, <4>2, Monotone, Distribute
      <4>6. w * k <= l * v + w - 1
        <5>1. w * k <= l * (la - x) + w - 1 /\ w * k \in Int
          BY <1>7, <4>1, <4>4, Distribute
        <5> QED BY <5>1, <4>3, <4>5
      <4>7. l * v + w - 1 \in Nat
        BY <4>3
      <4>8. k <= (l * v + w - 1) \div w /\ (l * v + w - 1) \div w \in Nat
        BY <4>6, <4>7, AtMostFloor, Period
      <4>9. CeilDiv(v * l, w) = (l * v + w - 1) \div w
        BY <4>3 DEF CeilDiv
      <4>10. n - i + 2 <= CeilDiv(v * l, w) + l
        BY <4>4, <4>8, <4>9, <1>3, <1>5, <1>9
      <4> QED BY <3>1, <4>1, <4>2, <4>10
    <3> QED BY <3>2, <3>3, <2>3, WithinAppended DEF Sound, n
  <2>8. r # Unset
    BY <2>2, RecordIsSet
  <2>9. Simulate(e, s, t).status = 200 /\ Simulate(e, s, t).state = r
    BY <1>8, <1>9, <2>1 DEF Allow
  <2>10. Sound(e, r, b, t)
    BY <1>1, <2>2, <2>4, <2>6, <2>7, <2>8 DEF Sound, StateOK, Accounted
  <2> QED BY <2>3, <2>9, <2>10 DEF Kept, After
<1>10. CASE ~(q < l)
  <2>1. st \in [queue : 1 .. l, last : 0 .. t]
    BY <1>1, <1>4, <1>5, <1>10
  <2>2. QueueAndLeak(e, st, a)
    BY <1>4, LeakedAccount
  <2>3. st # Unset
    BY <2>1, RecordIsSet
  <2>4. Simulate(e, s, t).status = 429 /\ Simulate(e, s, t).state = st
    BY <1>8, <1>10 DEF Block
  <2>5. Sound(e, st, a, t)
    BY <1>1, <2>1, <2>2, <2>3 DEF Sound, StateOK, Accounted
  <2> QED BY <2>4, <2>5 DEF Kept, After
<1> QED BY <1>9, <1>10

\* While a turned away request waits, one leaks.
LEMMA LeakyHonours ==
    ASSUME NEW e \in Endpoints, e.algo = "leaky_bucket", NEW s, NEW t \in Nat,
           StateOK(e, s, t)
    PROVE  HonoursRetry(e, s, t)
<1> SUFFICES ASSUME Simulate(e, s, t).status = 429
             PROVE  Simulate(e, Simulate(e, s, t).state,
                             t + Simulate(e, s, t).retry * Second).status = 200
  BY DEF HonoursRetry
<1>1. PICK l \in Nat \ {0} : l = e.limit
  BY EndpointFacts
<1>2. PICK w \in Nat \ {0} : w = e.window
  BY EndpointFacts
<1>3. PICK r \in [queue : 0 .. l, last : 0 .. t] : r = Leaked(e, s, t)
  BY <1>1, LeakedFacts
<1>4. /\ Simulate(e, s, t).state = r
      /\ Simulate(e, s, t).retry = CeilDiv(CeilDiv(w, l), Second)
  BY <1>1, <1>2, <1>3, LeakyAnswer DEF Allow, Block
<1>5. PICK wait \in Nat : wait = CeilDiv(w, l) /\ w <= l * wait
  BY CeilDivFacts
<1>6. Second \in Nat \ {0}
  BY PageAssumption
<1>7. PICK k \in Nat : k = CeilDiv(wait, Second) /\ wait <= Second * k
  BY <1>6, CeilDivFacts
<1>8. PICK later \in Nat : later = t + k * Second /\ t + wait <= later
  BY <1>6, <1>7, Distribute, Z3
<1>9. PICK gap \in Nat : gap = later - r.last /\ wait <= gap
  BY <1>3, <1>8
<1>10. gap * l \in Nat /\ w * 1 <= gap * l
  <2>1. l * wait <= l * gap /\ l * wait \in Int /\ l * gap \in Nat /\ l * gap = gap * l
    BY <1>9, Monotone, Distribute, Z3
  <2> QED BY <2>1, <1>5
<1>11. PICK out \in Nat : out = (gap * l) \div w /\ 1 <= out
  <2>1. PICK x \in Nat : x = gap * l /\ w * 1 <= x
    BY <1>10
  <2>2. x \div w \in Nat /\ 1 <= x \div w
    BY <2>1, AtMostFloor, Period
  <2> QED BY <2>1, <2>2
<1>12. Leaked(e, r, later).queue < l
  <2>1. r # Unset
    BY <1>3, RecordIsSet
  <2>2. Leaked(e, r, later) = [queue |-> Most(0, r.queue - out), last |-> later]
    BY <1>1, <1>2, <1>9, <1>11, <2>1 DEF Leaked, Opened
  <2> QED BY <2>2, <1>1, <1>3, <1>11 DEF Most
<1>13. Simulate(e, r, later).status = 200
  BY <1>1, <1>12, LeakyAnswer DEF Allow
<1> QED BY <1>4, <1>5, <1>7, <1>8, <1>13

-----------------------------------------------------------------------------
(* Sliding window. *)

LEMMA LeastMember ==
    ASSUME NEW S \in SUBSET Nat, S # {}
    PROVE  \E i \in S : \A j \in S : i <= j
<1>1. IsWellFoundedOn(OpToRel(<, Nat), Nat)
  BY NatLessThanWellFounded
<1>2. PICK i \in S : \A j \in S : ~(<<j, i>> \in OpToRel(<, Nat))
  BY <1>1, WFMin
<1>3. \A j \in S : ~(j < i)
  BY <1>2 DEF OpToRel
<1> QED BY <1>3

\* A set of positions with every smaller one is a prefix.
LEMMA Prefix ==
    ASSUME NEW m \in Nat, NEW S \in SUBSET (1 .. m),
           \A i \in S, j \in 1 .. m : j <= i => j \in S
    PROVE  Cardinality(S) \in 0 .. m /\ S = 1 .. Cardinality(S)
<1>1. ASSUME NEW k \in 0 .. m, S = 1 .. k
      PROVE  Cardinality(S) \in 0 .. m /\ S = 1 .. Cardinality(S)
  <2>1. Cardinality(1 .. k) = k
    BY FS_Interval
  <2> QED BY <1>1, <2>1
<1>2. CASE S = 1 .. m
  BY <1>1, <1>2
<1>3. CASE S # 1 .. m
  <2> DEFINE R == (1 .. m) \ S
  <2>1. R # {} /\ R \subseteq Nat
    <3>1. \E j \in 1 .. m : j \notin S
      BY <1>3
    <3>2. 1 .. m \subseteq Nat
      OBVIOUS
    <3> QED BY <3>1, <3>2
  <2>2. PICK k \in R : \A j \in R : k <= j
    BY <2>1, LeastMember
  <2>3. k \in 1 .. m /\ k - 1 \in 0 .. m
    BY <2>2
  <2>4. \A i \in S : i < k
    BY <2>2, <2>3
  <2>5. \A i \in 1 .. m : i < k => i \in S
    BY <2>2
  <2>6. S = 1 .. k - 1
    <3>1. ASSUME NEW i \in S PROVE i \in 1 .. k - 1
      BY <2>3, <2>4
    <3>2. ASSUME NEW i \in 1 .. k - 1 PROVE i \in S
      <4>1. i \in 1 .. m /\ i < k
        BY <2>3
      <4> QED BY <4>1, <2>5
    <3> QED BY <3>1, <3>2
  <2> QED BY <1>1, <2>3, <2>6
<1> QED BY <1>2, <1>3

\* The hits kept are the last, and live; all before are a window old.
LEMMA FilteredFacts ==
    ASSUME NEW e \in Endpoints, e.algo = "sliding_window", NEW s, NEW a, NEW t \in Nat,
           Sound(e, s, a, t)
    PROVE  LET hits == Filtered(e, Opened(s, <<>>), t)
           IN  /\ hits \in Seq(0 .. t)
               /\ Len(hits) \in 0 .. e.limit
               /\ HitsAreLast(e, hits, a, t)
               /\ \A k \in 1 .. Len(hits) : t < hits[k] + e.window
<1>1. PICK l \in Nat : l = e.limit /\ l >= 1
  BY EndpointFacts
<1>2. PICK w \in Nat \ {0} : w = e.window
  BY EndpointFacts
<1>3. PICK n \in Nat : n = Len(a) /\ \A i \in 1 .. n : a[i] \in Nat /\ a[i] <= t
  BY InOrderFacts DEF Sound
<1>4. Opened(s, <<>>) = s
  BY DEF Opened, Unset
<1>5. s \in Seq(0 .. t) /\ Len(s) \in 0 .. l
  <2>1. CASE s = Unset
    <3>1. s = <<>> /\ Len(s) = 0
      BY <2>1 DEF Unset
    <3> QED BY <3>1
  <2>2. CASE s # Unset
    BY <2>2, <1>1 DEF Sound, StateOK
  <2> QED BY <2>1, <2>2
<1>6. PICK m \in 0 .. l : m = Len(s)
  BY <1>5
<1>7. /\ m <= n
      /\ \A k \in 1 .. m : s[k] = a[n - m + k]
      /\ \A i \in 1 .. n - m : a[i] + w <= t
  <2>1. CASE s = Unset
    <3>1. m = 0 /\ n = 0
      BY <2>1, <1>3, <1>6 DEF Sound, Accounted, Unset
    <3> QED BY <3>1
  <2>2. CASE s # Unset
    BY <2>2, <1>2, <1>3, <1>6 DEF Sound, Accounted, HitsAreLast
  <2> QED BY <2>1, <2>2
<1>8. \A k \in 1 .. m : s[k] \in 0 .. t
  BY <1>5, <1>6
<1>9. PICK gone \in SUBSET (1 .. m) : gone = {i \in 1 .. m : s[i] + w <= t}
  OBVIOUS
<1>10. {i \in DOMAIN s : ~Live(e, s[i], t)} = gone
  <2>1. DOMAIN s = 1 .. m
    BY <1>5, <1>6
  <2>2. \A i \in 1 .. m : ~Live(e, s[i], t) <=> s[i] + w <= t
    BY <1>2, <1>8 DEF Live
  <2> QED BY <1>9, <2>1, <2>2
<1>11. \A i \in gone, j \in 1 .. m : j <= i => j \in gone
  <2> SUFFICES ASSUME NEW i \in gone, NEW j \in 1 .. m, j <= i
               PROVE  s[j] <= s[i]
    BY <1>8, <1>9
  <2>1. /\ n - m + j \in 1 .. n /\ n - m + i \in 1 .. n
        /\ n - m + j <= n - m + i
    BY <1>7, <1>9
  <2>2. a[n - m + j] <= a[n - m + i]
    BY <2>1, <1>3 DEF Sound, InOrder
  <2> QED BY <2>2, <1>7, <1>9
<1>12. PICK g \in 0 .. m : g = Cardinality(gone) /\ gone = 1 .. g
  <2>1. Cardinality(gone) \in 0 .. m /\ gone = 1 .. Cardinality(gone)
    BY <1>11, Prefix
  <2> QED BY <2>1
<1>13. PICK hits : hits = SubSeq(s, g + 1, m)
  OBVIOUS
<1>14. Filtered(e, Opened(s, <<>>), t) = hits
  BY <1>4, <1>6, <1>10, <1>12, <1>13 DEF Filtered
<1>15. /\ hits \in Seq(0 .. t) /\ Len(hits) = m - g
       /\ \A k \in 1 .. m - g : hits[k] = s[g + k]
  <2>1. \A i \in g + 1 .. m : s[i] \in 0 .. t
    BY <1>8
  <2>2. PICK from \in Int : from = g + 1
    OBVIOUS
  <2>3. /\ SubSeq(s, from, m) \in Seq(0 .. t)
        /\ Len(SubSeq(s, from, m)) = IF from <= m THEN m - from + 1 ELSE 0
        /\ \A k \in 1 .. m - from + 1 : SubSeq(s, from, m)[k] = s[from + k - 1]
    BY <2>1, <2>2, SubSeqProperties
  <2>4. m - from + 1 = m - g /\ \A k \in 1 .. m - g : from + k - 1 = g + k
    BY <2>2
  <2>5. (IF from <= m THEN m - from + 1 ELSE 0) = m - g
    BY <2>2
  <2> QED BY <1>13, <2>2, <2>3, <2>4, <2>5
<1>16. ASSUME NEW k \in 1 .. m - g
       PROVE  hits[k] = a[n - (m - g) + k] /\ t < hits[k] + w
  <2>1. PICK j \in 1 .. m : j = g + k
    OBVIOUS
  <2>2. ~(j \in gone) /\ n - (m - g) + k = n - m + j
    <3>1. ~(j \in 1 .. g)
      BY <2>1
    <3>2. ~(j \in gone)
      BY <3>1, <1>12
    <3>3. n - (m - g) + k = n - m + j
      BY <2>1
    <3> QED BY <3>2, <3>3
  <2>3. hits[k] = s[j] /\ s[j] = a[n - m + j] /\ s[j] \in Nat
    BY <2>1, <1>7, <1>8, <1>15
  <2>4. ~(s[j] + w <= t)
    BY <2>2, <1>9
  <2>5. t < s[j] + w
    BY <2>3, <2>4
  <2> QED BY <2>2, <2>3, <2>5
<1>17. ASSUME NEW i \in 1 .. n - (m - g)
       PROVE  a[i] + w <= t
  <2>1. CASE i \in 1 .. n - m
    BY <2>1, <1>7
  <2>2. CASE i \notin 1 .. n - m
    <3>1. PICK j \in 1 .. g : i = n - m + j
      <4>1. i - (n - m) \in 1 .. g
        BY <2>2, <1>7
      <4>2. i = n - m + (i - (n - m))
        OBVIOUS
      <4> QED BY <4>1, <4>2
    <3>2. s[j] + w <= t /\ j \in 1 .. m
      BY <1>9, <1>12
    <3> QED BY <3>1, <3>2, <1>7
  <2> QED BY <2>1, <2>2
<1>18. m - g <= n /\ m - g \in 0 .. l
  BY <1>7
<1> QED BY <1>1, <1>2, <1>3, <1>14, <1>15, <1>16, <1>17, <1>18 DEF HitsAreLast

LEMMA SlidingKept ==
    ASSUME NEW e \in Endpoints, e.algo = "sliding_window", NEW s, NEW a, NEW t \in Nat,
           Sound(e, s, a, t)
    PROVE  Kept(e, s, a, t)
<1>1. PICK l \in Nat : l = e.limit /\ l >= 1
  BY EndpointFacts
<1>2. PICK w \in Nat \ {0} : w = e.window
  BY EndpointFacts
<1>3. PICK n \in Nat : n = Len(a) /\ \A i \in 1 .. n : a[i] \in Nat /\ a[i] <= t
  BY InOrderFacts DEF Sound
<1>4. PICK hits \in Seq(0 .. t) : hits = Filtered(e, Opened(s, <<>>), t)
  BY FilteredFacts
<1>5. HitsAreLast(e, hits, a, t)
  BY <1>4, FilteredFacts
<1>6. PICK c \in 0 .. l : c = Len(hits)
  BY <1>1, <1>4, FilteredFacts
<1>7. /\ c <= n
      /\ \A k \in 1 .. c : hits[k] = a[n - c + k]
      /\ \A i \in 1 .. n - c : a[i] + w <= t
  BY <1>2, <1>3, <1>5, <1>6 DEF HitsAreLast
<1>8. Simulate(e, s, t) = IF c < l THEN Allow(Append(hits, t))
                          ELSE Block(hits, Head(hits) + w - t)
  BY <1>1, <1>2, <1>4, <1>6 DEF Simulate, Sliding
<1>9. CASE c < l
  <2>1. PICK r : r = Append(hits, t)
    OBVIOUS
  <2>2. /\ r \in Seq(0 .. t) /\ Len(r) = c + 1 /\ r[c + 1] = t
        /\ \A k \in 1 .. c : r[k] = hits[k]
    BY <2>1, <1>4, <1>6
  <2>3. PICK b : b = Append(a, t)
    OBVIOUS
  <2>4. /\ InOrder(b, t) /\ Len(b) = n + 1 /\ b[n + 1] = t
        /\ \A i \in 1 .. n : b[i] = a[i]
    BY <2>3, <1>3, Appended DEF Sound
  <2>5. HitsAreLast(e, r, b, t)
    <3>1. ASSUME NEW k \in 1 .. c + 1
          PROVE  r[k] = b[n + 1 - (c + 1) + k]
      <4>1. CASE k = c + 1
        <5>1. n + 1 - (c + 1) + k = n + 1
          BY <4>1
        <5> QED BY <4>1, <5>1, <2>2, <2>4
      <4>2. CASE k # c + 1
        <5>1. k \in 1 .. c /\ n + 1 - (c + 1) + k = n - c + k /\ n - c + k \in 1 .. n
          BY <4>2, <1>7
        <5> QED BY <5>1, <1>7, <2>2, <2>4
      <4> QED BY <4>1, <4>2
    <3>2. ASSUME NEW i \in 1 .. n + 1 - (c + 1)
          PROVE  b[i] + w <= t
      <4>1. i \in 1 .. n - c /\ i \in 1 .. n
        OBVIOUS
      <4> QED BY <4>1, <1>7, <2>4
    <3>3. c + 1 <= n + 1
      BY <1>7
    <3> QED BY <3>1, <3>2, <3>3, <1>2, <2>2, <2>4 DEF HitsAreLast
  <2>6. Within(e, b)
    <3>1. ASSUME NEW x, NEW y
          PROVE  Allowance(e, x, y) = l * ((y - x) \div w + 1)
      BY <1>1, <1>2 DEF Allowance
    <3>2. 1 <= Allowance(e, t, t)
      <4>1. t - t = 0 /\ 0 \div w = 0 /\ l * (0 + 1) = l
        BY <1>1, PeriodIs
      <4> QED BY <3>1, <4>1, <1>1
    <3>3. ASSUME NEW i \in 1 .. n
          PROVE  n - i + 2 <= Allowance(e, a[i], t)
      <4>1. PICK x \in Nat : x = a[i] /\ x <= t
        BY <1>3
      <4>2. PICK d \in Nat : d = (t - x) \div w
        <5>1. t - x \in Nat
          BY <4>1
        <5> QED BY <5>1, Period
      <4>3. PICK z \in Nat : z = l * d
        BY Z3
      <4>4. Allowance(e, a[i], t) = z + l
        <5>1. l * (d + 1) = l * d + l * 1
          BY Distribute
        <5>2. Allowance(e, a[i], t) = l * (d + 1)
          BY <3>1, <4>1, <4>2
        <5>3. l * 1 = l
          OBVIOUS
        <5> QED BY <4>3, <5>1, <5>2, <5>3
      \* It is one of the hits, which are fewer than the limit;
      <4>5. CASE i > n - c
        <5>1. n - i + 2 <= c + 1 /\ c + 1 <= l
          BY <4>5, <1>9
        <5> QED BY <4>4, <5>1
      \* or the last that has gone is a window ago.
      <4>6. CASE ~(i > n - c)
        <5>1. PICK p \in 1 .. n : p = n - c /\ i <= p
          BY <4>6, <1>7
        <5>2. PICK y \in Nat : y = a[p] /\ y + w <= t
          <6>1. a[p] \in Nat
            BY <1>3
          <6>2. p \in 1 .. n - c
            BY <5>1
          <6>3. a[p] + w <= t
            BY <6>2, <1>7
          <6> QED BY <6>1, <6>3
        <5>3. x <= y
          BY <4>1, <5>1, <5>2, <1>3 DEF Sound, InOrder
        <5>4. PICK f \in Nat : f = (y - x) \div w
          <6>1. y - x \in Nat
            BY <5>3
          <6> QED BY <6>1, Period
        <5>5. p - i + 1 <= l * (f + 1)
          BY <3>1, <4>1, <5>1, <5>2, <5>4, <1>3 DEF Sound, Within
        <5>6. f + 1 <= d
          <6>1. PICK u \in Nat : u = y - x
            BY <5>3
          <6>2. PICK v \in Nat : v = t - x /\ u + w <= v
            <7>1. x <= t /\ y + w <= t
              BY <4>1, <5>2
            <7>2. t - x \in Nat
              BY <7>1
            <7>3. y - x + w <= t - x
              BY <7>1
            <7> QED BY <7>2, <7>3, <6>1
          <6>3. f * w <= u /\ f * w \in Nat /\ w * f = f * w
            BY <5>4, <6>1, Period, Distribute
          <6>4. w * (f + 1) = w * f + w * 1
            BY Distribute
          <6>5. w * (f + 1) <= v
            BY <6>2, <6>3, <6>4
          <6> QED BY <4>2, <6>2, <6>5, AtMostFloor
        <5>7. l * (f + 1) <= z /\ l * (f + 1) \in Int
          BY <4>3, <5>6, Monotone, Distribute
        <5>8. p - i + 1 <= z
          BY <5>1, <5>5, <5>7
        <5> QED BY <4>4, <5>1, <5>8, <1>9
      <4> QED BY <4>5, <4>6
    <3> QED BY <3>2, <3>3, <2>3, <1>3, WithinAppended DEF Sound
  <2>7. r # Unset
    <3>1. Len(Unset) = 0
      BY DEF Unset
    <3> QED BY <3>1, <2>2
  <2>8. Simulate(e, s, t).status = 200 /\ Simulate(e, s, t).state = r
    BY <1>8, <1>9, <2>1 DEF Allow
  <2>9. StateOK(e, r, t)
    BY <1>1, <1>9, <2>2 DEF StateOK
  <2>10. Sound(e, r, b, t)
    BY <2>4, <2>5, <2>6, <2>7, <2>9 DEF Sound, Accounted
  <2> QED BY <2>3, <2>8, <2>10 DEF Kept, After
<1>10. CASE ~(c < l)
  <2>1. StateOK(e, hits, t)
    BY <1>1, <1>6, <1>10 DEF StateOK
  <2>2. hits # Unset
    <3>1. Len(Unset) = 0
      BY DEF Unset
    <3> QED BY <3>1, <1>1, <1>6, <1>10
  <2>3. Simulate(e, s, t).status = 429 /\ Simulate(e, s, t).state = hits
    BY <1>8, <1>10 DEF Block
  <2>4. Sound(e, hits, a, t)
    BY <1>5, <2>1, <2>2 DEF Sound, Accounted
  <2> QED BY <2>3, <2>4 DEF Kept, After
<1> QED BY <1>9, <1>10

\* A turned away request waits until the first hit is a window old.
LEMMA SlidingHonours ==
    ASSUME NEW e \in Endpoints, e.algo = "sliding_window", NEW s, NEW a, NEW t \in Nat,
           Sound(e, s, a, t)
    PROVE  HonoursRetry(e, s, t)
<1> SUFFICES ASSUME Simulate(e, s, t).status = 429
             PROVE  Simulate(e, Simulate(e, s, t).state,
                             t + Simulate(e, s, t).retry * Second).status = 200
  BY DEF HonoursRetry
<1>1. PICK l \in Nat \ {0} : l = e.limit
  BY EndpointFacts
<1>2. PICK w \in Nat \ {0} : w = e.window
  BY EndpointFacts
<1>3. PICK hits \in Seq(0 .. t) : hits = Filtered(e, Opened(s, <<>>), t)
  BY FilteredFacts
<1>4. /\ Len(hits) \in 0 .. l
      /\ \A k \in 1 .. Len(hits) : t < hits[k] + w
  BY <1>1, <1>2, <1>3, FilteredFacts
<1>5. Simulate(e, s, t) = IF Len(hits) < l THEN Allow(Append(hits, t))
                          ELSE Block(hits, Head(hits) + w - t)
  BY <1>1, <1>2, <1>3 DEF Simulate, Sliding
<1>6. Len(hits) = l
  BY <1>4, <1>5 DEF Allow
<1>7. PICK h \in 0 .. t : h = hits[1] /\ h = Head(hits) /\ t < h + w
  <2>1. 1 \in 1 .. Len(hits)
    BY <1>6
  <2>2. hits[1] \in 0 .. t
    BY <2>1
  <2>3. Head(hits) = hits[1]
    BY <1>3, <1>6
  <2> QED BY <1>4, <2>1, <2>2, <2>3
<1>8. PICK wait \in Nat : wait = h + w - t
  BY <1>7
<1>9. /\ Simulate(e, s, t).state = hits
      /\ Simulate(e, s, t).retry = CeilDiv(wait, Second)
  BY <1>5, <1>6, <1>7, <1>8 DEF Block
<1>10. Second \in Nat \ {0}
  BY PageAssumption
<1>11. PICK k \in Nat : k = CeilDiv(wait, Second) /\ wait <= Second * k
  BY <1>10, CeilDivFacts
<1>12. PICK later \in Nat : later = t + k * Second /\ t + wait <= later
  <2>1. k * Second = Second * k /\ Second * k \in Int
    BY <1>10, Distribute
  <2>2. PICK x \in Int : x = Second * k
    BY <2>1
  <2>3. wait <= x /\ t + x \in Nat
    BY <2>2, <1>11
  <2> QED BY <2>1, <2>2, <2>3
<1>13. PICK gone \in SUBSET (1 .. l) : gone = {i \in DOMAIN hits : ~Live(e, hits[i], later)}
  <2>1. DOMAIN hits = 1 .. l
    BY <1>6
  <2> QED BY <2>1
<1>14. 1 \in gone
  <2>1. 1 \in DOMAIN hits /\ ~Live(e, hits[1], later)
    <3>1. h + w <= later
      BY <1>7, <1>8, <1>12
    <3>2. ~(h > later - w)
      BY <3>1
    <3>3. hits[1] = h /\ 1 \in DOMAIN hits
      BY <1>6, <1>7
    <3> QED BY <1>2, <3>2, <3>3 DEF Live
  <2> QED BY <2>1, <1>13
<1>15. PICK g \in Nat : g = Cardinality(gone) /\ 1 <= g
  <2>1. IsFiniteSet(1 .. l)
    BY FS_Interval
  <2>2. IsFiniteSet(gone)
    BY <2>1, FS_Subset
  <2>3. Cardinality(gone) \in Nat
    BY <2>2, FS_CardinalityType
  <2>4. Cardinality(gone) # 0
    BY <1>14, <2>2, FS_EmptySet
  <2> QED BY <2>3, <2>4
<1>16. Len(SubSeq(hits, g + 1, l)) < l
  <2>1. Len(SubSeq(hits, g + 1, l)) = IF g + 1 <= l THEN l - (g + 1) + 1 ELSE 0
    BY <1>6
  <2> QED BY <2>1, <1>15
<1>17. Filtered(e, Opened(hits, <<>>), later) = SubSeq(hits, g + 1, l)
  <2>1. Opened(hits, <<>>) = hits
    BY DEF Opened, Unset
  <2> QED BY <2>1, <1>6, <1>13, <1>15 DEF Filtered
<1>18. Simulate(e, hits, later).status = 200
  BY <1>1, <1>16, <1>17 DEF Simulate, Sliding, Allow
<1> QED BY <1>9, <1>11, <1>12, <1>18

-----------------------------------------------------------------------------
(* The simulator. *)

LEMMA SimulatorKept ==
    ASSUME NEW e \in Endpoints, NEW s, NEW a, NEW t \in Nat, Sound(e, s, a, t)
    PROVE  Kept(e, s, a, t) /\ HonoursRetry(e, s, t)
<1>1. CASE e.algo = "sliding_window"
  BY <1>1, SlidingKept, SlidingHonours
<1>2. CASE e.algo = "fixed_window"
  BY <1>2, FixedKept, FixedHonours DEF Sound
<1>3. CASE e.algo = "token_bucket"
  BY <1>3, TokensKept, TokensHonour DEF Sound
<1>4. CASE e.algo = "leaky_bucket"
  BY <1>4, LeakyKept, LeakyHonours DEF Sound
<1>5. e.algo \in Algorithms
  BY EndpointFacts
<1> QED BY <1>1, <1>2, <1>3, <1>4, <1>5 DEF Algorithms

\* What holds at a time holds later.
LEMMA SoundLater ==
    ASSUME NEW e \in Endpoints, NEW s, NEW a, NEW t \in Nat, Sound(e, s, a, t)
    PROVE  Sound(e, s, a, t + 1)
<1>1. 0 .. t \subseteq 0 .. t + 1
  OBVIOUS
<1>2. \A q \in Seq(0 .. t) : q \in Seq(0 .. t + 1)
  BY <1>1
<1>3. InOrder(a, t + 1)
  BY <1>2 DEF Sound, InOrder
<1>4. StateOK(e, s, t + 1)
  <2>1. \A q \in [tokens : 0 .. e.cap * e.window, last : 0 .. t] :
            q \in [tokens : 0 .. e.cap * e.window, last : 0 .. t + 1]
    BY <1>1
  <2>2. \A q \in [queue : 1 .. e.limit, last : 0 .. t] :
            q \in [queue : 1 .. e.limit, last : 0 .. t + 1]
    BY <1>1
  <2> QED BY <1>2, <2>1, <2>2 DEF Sound, StateOK
<1>5. Accounted(e, s, a, t + 1)
  <2>1. ASSUME HitsAreLast(e, s, a, t), s # Unset, e.algo = "sliding_window"
        PROVE  HitsAreLast(e, s, a, t + 1)
    <3>1. \A i \in 1 .. Len(a) : a[i] \in Nat
      BY InOrderFacts DEF Sound
    <3>2. PICK n \in Nat : n = Len(a)
      BY InOrderFacts DEF Sound
    <3>3. PICK c \in Nat : c = Len(s)
      BY <2>1 DEF Sound, StateOK
    <3>4. PICK w \in Nat : w = e.window
      BY EndpointFacts
    <3>5. \A i \in 1 .. n - c : a[i] \in Nat /\ a[i] + w <= t
      BY <2>1, <3>1, <3>2, <3>3, <3>4 DEF HitsAreLast
    <3>6. \A i \in 1 .. n - c : a[i] + w <= t + 1
      BY <3>5
    <3> QED BY <2>1, <3>2, <3>3, <3>4, <3>6 DEF HitsAreLast
  <2> QED BY <2>1, EndpointFacts DEF Sound, Accounted, Algorithms
<1> QED BY <1>3, <1>4, <1>5 DEF Sound

LEMMA WithinIs == Sound(endpoint, state, admitted, now) => WithinAllowance
<1> SUFFICES ASSUME Sound(endpoint, state, admitted, now)
             PROVE  WithinAllowance
  OBVIOUS
<1>1. DOMAIN admitted = 1 .. Len(admitted)
  BY DEF Sound, InOrder
<1> QED BY <1>1 DEF Sound, Within, WithinAllowance

\* A request that the simulator answers.
LEMMA SimulatedKeeps ==
    ASSUME IInv, RecordSimulated, UNCHANGED <<now, endpoint>>
    PROVE  /\ \E status \in {200, 429, 503} : Record(status)
           /\ Sound(endpoint', state', admitted', now')
           /\ Len(admitted') <= Len(admitted) + 1
<1>1. endpoint \in Endpoints /\ now \in Nat /\ Sound(endpoint, state, admitted, now)
  BY PageAssumption DEF IInv, TypeOK
<1>2. PICK answer : answer = Simulate(endpoint, state, now)
  OBVIOUS
<1>3. /\ answer.status \in {200, 429}
      /\ Sound(endpoint, answer.state, After(answer, admitted, now), now)
  BY <1>1, <1>2, SimulatorKept DEF Kept
<1>4. state' = answer.state /\ admitted' = After(answer, admitted, now)
  BY <1>2 DEF RecordSimulated, After
<1>5. Record(answer.status)
  BY <1>2 DEF RecordSimulated
<1>6. Len(admitted') <= Len(admitted) + 1
  <2>1. Len(admitted) \in Nat /\ Len(Append(admitted, now)) = Len(admitted) + 1
    BY <1>1, Appended, InOrderFacts DEF Sound
  <2> QED BY <1>4, <2>1 DEF After
<1> QED BY <1>3, <1>4, <1>5, <1>6

-----------------------------------------------------------------------------
(* The log. *)

Statuses == {200, 429, 503}
Gain(status, x) == IF status = x THEN 1 ELSE 0
Entries(l, status) == {i \in DOMAIN l : l[i] = status}

LEMMA EntriesFinite ==
    ASSUME NEW l \in Seq(Statuses), NEW status
    PROVE  IsFiniteSet(Entries(l, status)) /\ Cardinality(Entries(l, status)) \in Nat
<1>1. DOMAIN l = 1 .. Len(l) /\ Len(l) \in Nat
  OBVIOUS
<1>2. IsFiniteSet(1 .. Len(l))
  BY <1>1, FS_Interval
<1>3. Entries(l, status) \in SUBSET (1 .. Len(l))
  BY <1>1 DEF Entries
<1>4. IsFiniteSet(Entries(l, status))
  BY <1>2, <1>3, FS_Subset
<1> QED BY <1>4, FS_CardinalityType

\* Every entry moves down by one position, and the last one falls off.
LEMMA LogFacts ==
    ASSUME NEW l \in Seq(Statuses), NEW x \in Statuses, NEW r,
           r = SubSeq(<<x>> \o l, 1, Least(LogSize, Len(l) + 1))
    PROVE  /\ r \in Seq(Statuses)
           /\ Len(r) = Least(LogSize, Len(l) + 1)
           /\ \A status : Cardinality(Entries(r, status))
                    <= Cardinality(Entries(l, status)) + Gain(status, x)
<1>1. LogSize \in Nat
  BY PageAssumption
<1>2. PICK n \in Nat : n = Len(l)
  OBVIOUS
<1>3. PICK k \in 0 .. n + 1 : k = Least(LogSize, n + 1)
  BY <1>1 DEF Least
<1>4. PICK c : c = <<x>> \o l
  OBVIOUS
<1>5. /\ c \in Seq(Statuses) /\ Len(c) = n + 1 /\ c[1] = x
      /\ \A i \in 1 .. n : c[i + 1] = l[i]
  BY <1>2, <1>4
<1>6. \A i \in 1 .. k : c[i] \in Statuses
  BY <1>5
<1>7. /\ SubSeq(c, 1, k) \in Seq(Statuses)
      /\ Len(SubSeq(c, 1, k)) = IF 1 <= k THEN k - 1 + 1 ELSE 0
      /\ \A i \in 1 .. k - 1 + 1 : SubSeq(c, 1, k)[i] = c[1 + i - 1]
  BY <1>6, SubSeqProperties
<1>8. /\ r \in Seq(Statuses) /\ Len(r) = k
      /\ \A i \in 1 .. k : r[i] = c[i]
  BY <1>2, <1>3, <1>4, <1>7
<1>9. ASSUME NEW status
      PROVE  Cardinality(Entries(r, status))
                 <= Cardinality(Entries(l, status)) + Gain(status, x)
  <2>1. PICK old : old = Entries(l, status)
    OBVIOUS
  <2>2. PICK new : new = Entries(r, status)
    OBVIOUS
  <2>3. PICK moved : moved = new \ {1}
    OBVIOUS
  <2>4. old = {i \in 1 .. n : l[i] = status} /\ new = {i \in 1 .. k : r[i] = status}
    <3>1. DOMAIN l = 1 .. n
      BY <1>2
    <3>2. DOMAIN r = 1 .. k
      BY <1>8
    <3> QED BY <2>1, <2>2, <3>1, <3>2 DEF Entries
  <2>5. ASSUME NEW i \in moved
        PROVE  i \in Nat /\ i - 1 \in old
    <3>1. i \in 1 .. k /\ i # 1 /\ r[i] = status
      BY <2>3, <2>4
    <3>2. PICK j \in 1 .. n : i = j + 1
      <4>1. i - 1 \in 1 .. n /\ i = (i - 1) + 1
        BY <3>1
      <4> QED BY <4>1
    <3>3. l[j] = status
      BY <3>1, <3>2, <1>5, <1>8
    <3>4. i - 1 = j
      BY <3>2
    <3> QED BY <3>1, <3>3, <3>4, <2>4
  <2>6. [i \in moved |-> i - 1] \in Injection(moved, old)
    BY <2>5 DEF Injection, IsInjective
  <2>7. IsFiniteSet(old) /\ Cardinality(old) \in Nat
    BY <2>1, EntriesFinite
  <2>8. IsFiniteSet(moved) /\ Cardinality(moved) <= Cardinality(old)
    BY <2>6, <2>7, FS_Injection
  <2>9. Cardinality(moved) \in Nat
    BY <2>8, FS_CardinalityType
  <2>10. CASE 1 \in new
    <3>1. status = x
      BY <2>10, <2>4, <1>5, <1>8
    <3>2. new = moved \cup {1} /\ ~(1 \in moved)
      BY <2>3, <2>10
    <3>3. Cardinality(new) = Cardinality(moved) + 1
      BY <3>2, <2>8, FS_AddElement
    <3>4. Cardinality(new) <= Cardinality(old) + 1
      BY <3>3, <2>7, <2>8, <2>9
    <3> QED BY <3>1, <3>4, <2>1, <2>2 DEF Gain
  <2>11. CASE ~(1 \in new)
    <3>1. new = moved
      BY <2>3, <2>11
    <3>2. Gain(status, x) \in {0, 1}
      BY DEF Gain
    <3> QED BY <3>1, <3>2, <2>1, <2>2, <2>7, <2>8, <2>9
  <2> QED BY <2>10, <2>11
<1> QED BY <1>2, <1>3, <1>8, <1>9

LEMMA LoggedIs == \A status : Logged(status) = Cardinality(Entries(log, status))
  BY DEF Logged, Entries
-----------------------------------------------------------------------------
(* The counts. *)

LEMMA Numbers ==
    ASSUME IInv
    PROVE  /\ inFlight["one"] \in Nat /\ inFlight["burst"] \in Nat /\ waiting \in Nat
           /\ allowed \in Nat /\ blocked \in Nat /\ fires \in Nat /\ cleared \in Nat
           /\ todo.left \in Nat /\ todo.left <= MaxBurst /\ Len(admitted) \in Nat
           /\ Recorded \in Nat /\ Recorded = fires - waiting - cleared
           /\ fires + todo.left <= MaxFires
           /\ Len(admitted) + waiting <= fires /\ cleared + waiting <= fires
           /\ MaxFires \in Nat /\ MaxTime \in Nat /\ LogSize \in Nat /\ MaxBurst \in Nat
           /\ now \in Nat /\ endpoint \in Endpoints
<1>1. /\ MaxFires \in Nat /\ MaxTime \in Nat /\ LogSize \in Nat /\ MaxBurst \in Nat
  BY PageAssumption
<1>2. /\ inFlight["one"] \in Nat /\ inFlight["burst"] \in Nat
      /\ allowed \in Nat /\ blocked \in Nat /\ fires \in Nat /\ cleared \in Nat
      /\ now \in Nat /\ endpoint \in Endpoints
  BY <1>1 DEF IInv, TypeOK
<1>3. todo.left \in Nat /\ todo.left <= MaxBurst /\ Len(admitted) \in Nat
  BY <1>1 DEF IInv, TypeOK
<1>4. waiting \in Nat
  BY <1>2 DEF waiting
<1>5. Recorded = fires - waiting - cleared
  BY DEF Recorded, waiting
<1>6. /\ fires + todo.left <= MaxFires
      /\ Len(admitted) + waiting <= fires /\ cleared + waiting <= fires
  BY DEF IInv, FiresCounted
<1>7. Recorded \in Nat
  BY <1>2, <1>4, <1>5, <1>6
<1> QED BY <1>1, <1>2, <1>3, <1>4, <1>5, <1>6, <1>7

\* The same, of numbers that stay what they were before a step.
LEMMA Named ==
    ASSUME IInv
    PROVE  \E f \in Nat, c \in Nat, x \in Nat, y \in Nat, z \in Nat, most \in Nat :
              /\ f = fires /\ c = cleared /\ x = waiting /\ y = Len(admitted)
              /\ z = todo.left /\ most = MaxFires
              /\ f + z <= most /\ y + x <= f /\ c + x <= f
  BY Numbers

\* One fetch more, or one less.
LEMMA WaitingChanged ==
    ASSUME IInv, NEW kind \in {"one", "burst"}, NEW d \in {1, -1},
           inFlight' = [inFlight EXCEPT ![kind] = @ + d], inFlight[kind] + d >= 0
    PROVE  /\ waiting' = waiting + d
           /\ inFlight' \in [{"one", "burst"} -> Nat]
           /\ inFlight'["one"] <= waiting' /\ inFlight'["burst"] <= waiting'
<1>1. /\ inFlight["one"] \in Nat /\ inFlight["burst"] \in Nat
      /\ DOMAIN inFlight = {"one", "burst"}
  BY Numbers DEF IInv, TypeOK
<1>2. inFlight' = [k \in {"one", "burst"} |->
                      IF k = kind THEN inFlight[kind] + d ELSE inFlight[k]]
  BY <1>1
<1>3. CASE kind = "one"
  <2>1. inFlight'["one"] = inFlight["one"] + d /\ inFlight'["burst"] = inFlight["burst"]
    BY <1>2, <1>3
  <2>2. inFlight'["one"] \in Nat
    BY <1>1, <1>3, <2>1
  <2>3. inFlight' \in [{"one", "burst"} -> Nat]
    BY <1>1, <1>2, <2>1, <2>2
  <2> QED BY <1>1, <2>1, <2>2, <2>3 DEF waiting
<1>4. CASE kind = "burst"
  <2>1. inFlight'["burst"] = inFlight["burst"] + d /\ inFlight'["one"] = inFlight["one"]
    BY <1>2, <1>4
  <2>2. inFlight'["burst"] \in Nat
    BY <1>1, <1>4, <2>1
  <2>3. inFlight' \in [{"one", "burst"} -> Nat]
    BY <1>1, <1>2, <2>1, <2>2
  <2> QED BY <1>1, <2>1, <2>2, <2>3 DEF waiting
<1> QED BY <1>3, <1>4

\* What the log and the counts are to the requests recorded.
ShownOK(recorded) ==
    /\ log \in Seq(Statuses)
    /\ Len(log) = Least(LogSize, recorded)
    /\ allowed \in Nat /\ blocked \in Nat
    /\ Logged(200) <= allowed
    /\ Logged(429) <= blocked
    /\ Logged(503) \in Nat
    /\ allowed + blocked <= recorded - Logged(503)

LEMMA ShownIs == ASSUME IInv PROVE ShownOK(Recorded)
<1>1. log \in Seq(Statuses)
  BY DEF IInv, TypeOK, Statuses
<1>2. Logged(503) \in Nat
  BY <1>1, EntriesFinite, LoggedIs
<1> QED BY <1>1, <1>2, Numbers DEF IInv, RecordedOnce, ShownOK

LEMMA RecordKeeps ==
    ASSUME IInv, NEW status \in {200, 429, 503}, Record(status),
           NEW recorded \in Nat, recorded = Recorded
    PROVE  ShownOK(recorded + 1)'
<1>1. ShownOK(recorded) /\ LogSize \in Nat
  BY ShownIs, Numbers
<1>2. /\ log' \in Seq(Statuses)
      /\ Len(log') = Least(LogSize, Len(log) + 1)
      /\ \A s : Cardinality(Entries(log', s))
                    <= Cardinality(Entries(log, s)) + Gain(s, status)
  <2>1. PICK l \in Seq(Statuses) : l = log
    BY <1>1 DEF ShownOK
  <2>2. PICK x \in Statuses : x = status
    BY DEF Statuses
  <2>3. PICK r : r = SubSeq(<<x>> \o l, 1, Least(LogSize, Len(l) + 1))
    OBVIOUS
  <2>4. r = log'
    BY <2>1, <2>2, <2>3 DEF Record
  <2>5. r \in Seq(Statuses) /\ Len(r) = Least(LogSize, Len(l) + 1)
    <3>1. r \in Seq(Statuses)
      BY <2>3, LogFacts
    <3>2. Len(r) = Least(LogSize, Len(l) + 1)
      BY <2>3, LogFacts
    <3> QED BY <3>1, <3>2
  <2>6. ASSUME NEW s
        PROVE  Cardinality(Entries(r, s))
                   <= Cardinality(Entries(l, s)) + Gain(s, x)
    BY <2>3, LogFacts
  <2>7. ASSUME NEW s
        PROVE  Cardinality(Entries(log', s))
                   <= Cardinality(Entries(log, s)) + Gain(s, status)
    BY <2>1, <2>2, <2>4, <2>6
  <2> QED BY <2>1, <2>4, <2>5, <2>7
<1>3. Len(log') = Least(LogSize, recorded + 1)
  <2>1. PICK k \in Nat : k = Len(log) /\ k = Least(LogSize, recorded)
    BY <1>1 DEF ShownOK
  <2>2. Least(LogSize, k + 1) = Least(LogSize, recorded + 1)
    BY <2>1, <1>1 DEF Least
  <2> QED BY <1>2, <2>1, <2>2
<1>4. \A s : /\ Logged(s) \in Nat /\ Logged(s)' \in Nat
             /\ Logged(s)' <= Logged(s) + Gain(s, status)
  <2> SUFFICES ASSUME NEW s
               PROVE  /\ Logged(s) \in Nat /\ Logged(s)' \in Nat
                      /\ Logged(s)' <= Logged(s) + Gain(s, status)
    OBVIOUS
  <2>1. Logged(s) = Cardinality(Entries(log, s))
    BY LoggedIs
  <2>2. Logged(s)' = Cardinality(Entries(log', s))
    BY DEF Logged, Entries
  <2>3. Cardinality(Entries(log, s)) \in Nat
    BY <1>1, EntriesFinite DEF ShownOK
  <2>4. Cardinality(Entries(log', s)) \in Nat
    BY <1>2, EntriesFinite
  <2> QED BY <1>2, <2>1, <2>2, <2>3, <2>4
<1>5. /\ allowed' = IF status = 200 THEN allowed + 1 ELSE allowed
      /\ blocked' = IF status = 429 THEN blocked + 1 ELSE blocked
  BY DEF Record
<1>6. PICK ok \in Nat, no \in Nat, other \in Nat :
          ok = Logged(200) /\ no = Logged(429) /\ other = Logged(503)
  BY <1>4
<1>7. PICK ok1 \in Nat, no1 \in Nat, other1 \in Nat :
          ok1 = Logged(200)' /\ no1 = Logged(429)' /\ other1 = Logged(503)'
  BY <1>4
<1>8. /\ ok1 <= ok + Gain(200, status)
      /\ no1 <= no + Gain(429, status)
      /\ other1 <= other + Gain(503, status)
  BY <1>4, <1>6, <1>7
<1>9. /\ allowed \in Nat /\ blocked \in Nat
      /\ ok <= allowed /\ no <= blocked /\ allowed + blocked <= recorded - other
  BY <1>1, <1>6 DEF ShownOK
<1>10. PICK x \in Nat, y \in Nat : x = allowed' /\ y = blocked'
  BY <1>5, <1>9
<1>11. ok1 <= x /\ no1 <= y /\ x + y <= recorded + 1 - other1
  BY <1>5, <1>8, <1>9, <1>10 DEF Gain
<1>12. recorded + 1 \in Nat /\ Logged(503)' \in Nat
  BY <1>7
<1>13. /\ Logged(200)' <= allowed' /\ Logged(429)' <= blocked'
       /\ allowed' + blocked' <= recorded + 1 - Logged(503)'
       /\ allowed' \in Nat /\ blocked' \in Nat
  BY <1>7, <1>10, <1>11
<1>14. log' \in Seq(Statuses)
  BY <1>2
<1> QED BY <1>3, <1>12, <1>13, <1>14 DEF ShownOK

LEMMA ShownKeeps ==
    ASSUME IInv, UNCHANGED shown, NEW recorded \in Nat, recorded = Recorded
    PROVE  ShownOK(recorded)'
  BY ShownIs DEF shown, ShownOK, Logged

LEMMA ShownGives ==
    ASSUME NEW recorded \in Nat, ShownOK(recorded)', Recorded' = recorded,
           MaxFires \in Nat, LogSize \in Nat, recorded <= MaxFires
    PROVE  /\ RecordedOnce'
           /\ {allowed', blocked'} \subseteq 0 .. MaxFires
           /\ log' \in Seq({200, 429, 503}) /\ Len(log') <= LogSize
<1>1. RecordedOnce'
  BY DEF ShownOK, RecordedOnce
<1>2. log' \in Seq({200, 429, 503}) /\ Len(log') <= LogSize
  BY DEF ShownOK, Least, Statuses
<1>3. PICK x \in Nat : x = Logged(503)'
  BY DEF ShownOK
<1>4. PICK y \in Nat, z \in Nat : y = allowed' /\ z = blocked' /\ y + z <= recorded - x
  BY <1>3 DEF ShownOK
<1>5. y <= recorded /\ z <= recorded
  <2>1. y + z <= recorded - x
    BY <1>4
  <2> QED BY <2>1, Z3
<1>6. PICK most \in Nat : most = MaxFires /\ recorded <= most
  OBVIOUS
<1>7. y \in 0 .. most /\ z \in 0 .. most
  BY <1>5, <1>6
<1> QED BY <1>1, <1>2, <1>4, <1>6, <1>7

\* What is left of the invariant, for steps under which the clock stands still.
LEMMA SoundKeeps ==
    ASSUME IInv, UNCHANGED <<endpoint, simulator, now>>
    PROVE  /\ Sound(endpoint', state', admitted', now')
           /\ Len(admitted') = Len(admitted)
  BY DEF IInv, simulator

LEMMA Assembled ==
    ASSUME IInv, endpoint' \in Endpoints, now' \in 0 .. MaxTime,
           Sound(endpoint', state', admitted', now'),
           {mode', modeRef'} \subseteq {"checking", "live", "sim"},
           unchecked' \in 0 .. Checks,
           todo' \in [kind : {"one", "burst"}, left : 0 .. MaxBurst],
           inFlight' \in [{"one", "burst"} -> Nat],
           fires' \in Nat, cleared' \in Nat,
           FiresCounted', ShownOK(Recorded)'
    PROVE  IInv'
<1>1. MaxFires \in Nat /\ LogSize \in Nat
  BY Numbers
<1>2. inFlight'["one"] \in Nat /\ inFlight'["burst"] \in Nat
  OBVIOUS
<1>3. waiting' = inFlight'["one"] + inFlight'["burst"]
  BY DEF waiting
<1>4. PICK x \in Nat : x = waiting' /\ inFlight'["one"] <= x /\ inFlight'["burst"] <= x
  BY <1>2, <1>3
<1>5. PICK y \in Nat : y = Len(admitted')
  BY DEF Sound, InOrder
<1>6. PICK f \in Nat, c \in Nat : f = fires' /\ c = cleared'
  OBVIOUS
<1>7. PICK z \in Nat : z = todo'.left
  BY Numbers
<1>8. PICK most \in Nat :
          most = MaxFires /\ f + z <= most /\ y + x <= f /\ c + x <= f
  BY <1>1, <1>4, <1>5, <1>6, <1>7 DEF FiresCounted
<1>9. f <= most /\ c <= most /\ x <= most /\ y <= most
  BY <1>8
<1>10. inFlight' \in [{"one", "burst"} -> 0 .. most]
  <2>1. inFlight'["one"] \in 0 .. most
    BY <1>2, <1>4, <1>9
  <2>2. inFlight'["burst"] \in 0 .. most
    BY <1>2, <1>4, <1>9
  <2> QED BY <2>1, <2>2
<1>11. Recorded' = f - x - c
  BY <1>3, <1>4, <1>6 DEF Recorded
<1>12. PICK recorded \in Nat : recorded = Recorded' /\ recorded <= MaxFires
  <2>1. f - x - c \in Nat /\ f - x - c <= most
    BY <1>8, <1>9
  <2> QED BY <2>1, <1>8, <1>11
<1>13. ShownOK(recorded)'
  BY <1>12 DEF ShownOK
<1>14. /\ RecordedOnce'
       /\ {allowed', blocked'} \subseteq 0 .. MaxFires
       /\ log' \in Seq({200, 429, 503}) /\ Len(log') <= LogSize
  BY <1>1, <1>12, <1>13, ShownGives
<1>15. fires' \in 0 .. MaxFires /\ cleared' \in 0 .. MaxFires
  BY <1>6, <1>8, <1>9
<1>16. StateOK(endpoint, state, now)' /\ admitted' \in Seq(0 .. now') /\ Len(admitted') <= MaxFires
  <2>1. y <= MaxFires
    BY <1>8, <1>9
  <2> QED BY <2>1, <1>5 DEF Sound, InOrder, StateOK
<1>17. TypeOK'
  BY <1>8, <1>10, <1>14, <1>15, <1>16 DEF TypeOK
<1>18. Sound(endpoint, state, admitted, now)'
  BY DEF Sound, InOrder, StateOK, Accounted, Within, HitsAreLast, CounterOfLastWindow,
         TokensTaken, QueueAndLeak, Allowance
<1> QED BY <1>14, <1>17, <1>18 DEF IInv
-----------------------------------------------------------------------------
(* The steps. *)

LEMMA FireKeeps == ASSUME IInv, Fire PROVE IInv'
<1>1. /\ todo.left > 0 /\ todo' = [todo EXCEPT !.left = @ - 1]
      /\ fires' = fires + 1 /\ UNCHANGED <<now, endpoint, modes, cleared>>
  BY DEF Fire
<1>2. /\ todo' \in [kind : {"one", "burst"}, left : 0 .. MaxBurst]
      /\ todo'.left = todo.left - 1 /\ todo.kind \in {"one", "burst"}
  <2>1. todo \in [kind : {"one", "burst"}, left : 0 .. MaxBurst] /\ MaxBurst \in Nat
    BY Numbers DEF IInv, TypeOK
  <2> QED BY <1>1, <2>1
<1>3. PICK f \in Nat, c \in Nat, x \in Nat, y \in Nat, z \in Nat, most \in Nat :
          /\ f = fires /\ c = cleared /\ x = waiting /\ y = Len(admitted)
          /\ z = todo.left /\ most = MaxFires
          /\ f + z <= most /\ y + x <= f /\ c + x <= f
  BY Named
<1>4. PICK recorded \in Nat : recorded = Recorded /\ recorded = f - x - c
  BY <1>3, Numbers
<1>5. /\ inFlight' \in [{"one", "burst"} -> Nat]
      /\ Sound(endpoint', state', admitted', now')
      /\ Len(admitted') + waiting' <= f + 1
      /\ c + waiting' <= f + 1
      /\ ShownOK(Recorded)'
  <2>1. CASE modeRef = "live"
    <3>1. /\ inFlight' = [inFlight EXCEPT ![todo.kind] = @ + 1]
          /\ UNCHANGED <<shown, simulator>>
      BY <2>1 DEF Fire
    <3>2. inFlight[todo.kind] + 1 >= 0
      <4>1. PICK k \in {"one", "burst"} : k = todo.kind
        BY <1>2
      <4>2. inFlight[k] \in Nat
        BY Numbers
      <4> QED BY <4>1, <4>2
    <3>3. waiting' = x + 1 /\ inFlight' \in [{"one", "burst"} -> Nat]
      BY <1>2, <1>3, <3>1, <3>2, WaitingChanged
    <3>4. Sound(endpoint', state', admitted', now') /\ Len(admitted') = y
      BY <1>1, <1>3, <3>1, SoundKeeps
    <3>5. Recorded' = f + 1 - (x + 1) - c
      <4>1. Recorded' = fires' - waiting' - cleared'
        BY DEF Recorded, waiting
      <4>2. fires' = f + 1 /\ cleared' = c
        BY <1>1, <1>3
      <4> QED BY <3>3, <4>1, <4>2
    <3>6. Recorded' = recorded
      BY <1>4, <3>5
    <3>7. ShownOK(recorded)'
      BY <1>4, <3>1, ShownKeeps
    <3>8. y + (x + 1) <= f + 1 /\ c + (x + 1) <= f + 1
      BY <1>3
    <3> QED BY <3>3, <3>4, <3>6, <3>7, <3>8 DEF ShownOK
  <2>2. CASE ~(modeRef = "live")
    <3>1. RecordSimulated /\ UNCHANGED inFlight
      BY <2>2 DEF Fire
    <3>2. waiting' = x /\ inFlight' \in [{"one", "burst"} -> Nat]
      <4>1. inFlight \in [{"one", "burst"} -> Nat]
        BY Numbers DEF IInv, TypeOK
      <4> QED BY <1>3, <3>1, <4>1 DEF waiting
    <3>3. /\ \E status \in {200, 429, 503} : Record(status)
          /\ Sound(endpoint', state', admitted', now')
          /\ Len(admitted') <= y + 1
      BY <1>1, <1>3, <3>1, SimulatedKeeps
    <3>4. ShownOK(recorded + 1)'
      BY <1>4, <3>3, RecordKeeps
    <3>5. Recorded' = f + 1 - x - c
      <4>1. Recorded' = fires' - waiting' - cleared'
        BY DEF Recorded, waiting
      <4>2. fires' = f + 1 /\ cleared' = c
        BY <1>1, <1>3
      <4> QED BY <3>2, <4>1, <4>2
    <3>6. Recorded' = recorded + 1
      BY <1>4, <3>5
    <3>7. Len(admitted') \in Nat
      BY <3>3 DEF Sound, InOrder
    <3>8. Len(admitted') + x <= f + 1 /\ c + x <= f + 1
      BY <1>3, <3>3, <3>7
    <3> QED BY <3>2, <3>3, <3>4, <3>6, <3>8 DEF ShownOK
  <2> QED BY <2>1, <2>2
<1>6. FiresCounted'
  BY <1>1, <1>2, <1>3, <1>5 DEF FiresCounted
<1>7. /\ endpoint' \in Endpoints /\ now' \in 0 .. MaxTime
      /\ {mode', modeRef'} \subseteq {"checking", "live", "sim"}
      /\ unchecked' \in 0 .. Checks
  BY <1>1 DEF IInv, TypeOK, modes
<1>8. fires' \in Nat /\ cleared' \in Nat
  BY <1>1, <1>3
<1> QED BY <1>2, <1>5, <1>6, <1>7, <1>8, Assembled

\* The answer that settles a fetch is recorded, whoever gives it.
LEMMA SettleKeeps ==
    ASSUME IInv, NEW kind \in {"one", "burst"}, Settle(kind),
           NEW status \in {200, 429, 503}, Record(status),
           Sound(endpoint', state', admitted', now'),
           Len(admitted') <= Len(admitted) + 1,
           {mode', modeRef'} \subseteq {"checking", "live", "sim"}
    PROVE  IInv'
<1>1. /\ inFlight[kind] > 0 /\ inFlight' = [inFlight EXCEPT ![kind] = @ - 1]
      /\ UNCHANGED <<now, endpoint, unchecked, todo, fires, cleared>>
  BY DEF Settle
<1>2. PICK f \in Nat, c \in Nat, x \in Nat, y \in Nat, z \in Nat, most \in Nat :
          /\ f = fires /\ c = cleared /\ x = waiting /\ y = Len(admitted)
          /\ z = todo.left /\ most = MaxFires
          /\ f + z <= most /\ y + x <= f /\ c + x <= f
  BY Named
<1>3. PICK recorded \in Nat : recorded = Recorded /\ recorded = f - x - c
  BY <1>2, Numbers
<1>4. waiting' = x - 1 /\ inFlight' \in [{"one", "burst"} -> Nat]
  <2>1. inFlight[kind] \in Nat
    BY Numbers
  <2>2. inFlight[kind] - 1 = inFlight[kind] + (-1) /\ inFlight[kind] + (-1) >= 0
    BY <1>1, <2>1
  <2>3. inFlight' = [inFlight EXCEPT ![kind] = @ + (-1)]
    BY <1>1, <2>2
  <2>4. waiting' = waiting + (-1) /\ inFlight' \in [{"one", "burst"} -> Nat]
    BY <2>2, <2>3, WaitingChanged
  <2> QED BY <2>4, <1>2
<1>5. Recorded' = recorded + 1
  <2>1. Recorded' = f - (x - 1) - c
    BY <1>1, <1>2, <1>4 DEF Recorded, waiting
  <2> QED BY <2>1, <1>3
<1>6. ShownOK(Recorded)'
  <2>1. ShownOK(recorded + 1)'
    BY <1>3, RecordKeeps
  <2> QED BY <2>1, <1>5 DEF ShownOK
<1>7. FiresCounted'
  <2>1. Len(admitted') \in Nat
    BY DEF Sound, InOrder
  <2>2. Len(admitted') <= y + 1
    BY <1>2
  <2>3. Len(admitted') + (x - 1) <= f /\ c + (x - 1) <= f
    BY <1>2, <2>1, <2>2
  <2> QED BY <1>1, <1>2, <1>4, <2>3 DEF FiresCounted
<1>8. /\ endpoint' \in Endpoints /\ now' \in 0 .. MaxTime
      /\ unchecked' \in 0 .. Checks
      /\ todo' \in [kind : {"one", "burst"}, left : 0 .. MaxBurst]
  BY <1>1 DEF IInv, TypeOK
<1>9. fires' \in Nat /\ cleared' \in Nat
  BY <1>1, <1>2
<1> QED BY <1>4, <1>6, <1>7, <1>8, <1>9, Assembled

LEMMA AnswerKeeps ==
    ASSUME IInv, NEW kind \in {"one", "burst"}, NEW status \in {200, 429, 503},
           Answer(kind, status)
    PROVE  IInv'
<1>1. Settle(kind) /\ Record(status) /\ UNCHANGED <<simulator, mode, modeRef>>
  BY DEF Answer
<1>2. UNCHANGED <<now, endpoint>>
  BY <1>1 DEF Settle
<1>3. Sound(endpoint', state', admitted', now') /\ Len(admitted') = Len(admitted)
  BY <1>1, <1>2, SoundKeeps
<1>4. Len(admitted') <= Len(admitted) + 1
  BY <1>3, Numbers
<1>5. {mode', modeRef'} \subseteq {"checking", "live", "sim"}
  BY <1>1 DEF IInv, TypeOK
<1> QED BY <1>1, <1>3, <1>4, <1>5, SettleKeeps

LEMMA UnreachableKeeps ==
    ASSUME IInv, NEW kind \in {"one", "burst"}, Unreachable(kind)
    PROVE  IInv'
<1>1. Settle(kind) /\ mode' = "sim" /\ modeRef' = "sim" /\ RecordSimulated
  BY DEF Unreachable
<1>2. UNCHANGED <<now, endpoint>>
  BY <1>1 DEF Settle
<1>3. /\ \E status \in {200, 429, 503} : Record(status)
      /\ Sound(endpoint', state', admitted', now')
      /\ Len(admitted') <= Len(admitted) + 1
  BY <1>1, <1>2, SimulatedKeeps
<1>4. {mode', modeRef'} \subseteq {"checking", "live", "sim"}
  BY <1>1
<1> QED BY <1>1, <1>3, <1>4, SettleKeeps

\* A burst has at least one request, and not more than the largest.
LEMMA ClampFacts == \A n \in Int : Clamp(n) \in 1 .. MaxBurst
<1>1. MaxBurst \in Nat /\ MaxBurst >= 1
  BY PageAssumption
<1> QED BY <1>1 DEF Clamp, Most, Least

LEMMA ClickKeeps ==
    ASSUME IInv, NEW kind \in {"one", "burst"}, NEW n \in 1 .. MaxBurst, Click(kind, n)
    PROVE  IInv'
<1>1. /\ fires + n <= MaxFires /\ todo' = [kind |-> kind, left |-> n]
      /\ UNCHANGED <<now, endpoint, simulator, modes, inFlight, shown, fires, cleared>>
  BY DEF Click
<1>2. /\ Sound(endpoint', state', admitted', now')
      /\ Len(admitted') = Len(admitted)
  BY <1>1, SoundKeeps
<1>3. ShownOK(Recorded)'
  <2>1. PICK recorded \in Nat : recorded = Recorded
    BY Numbers
  <2>2. Recorded' = recorded
    BY <1>1, <2>1 DEF Recorded
  <2>3. ShownOK(recorded)'
    BY <1>1, <2>1, ShownKeeps
  <2> QED BY <2>2, <2>3 DEF ShownOK
<1>4. FiresCounted'
  BY <1>1, <1>2 DEF IInv, FiresCounted, waiting
<1>5. /\ endpoint' \in Endpoints /\ now' \in 0 .. MaxTime
      /\ {mode', modeRef'} \subseteq {"checking", "live", "sim"}
      /\ unchecked' \in 0 .. Checks /\ inFlight' \in [{"one", "burst"} -> Nat]
      /\ fires' \in Nat /\ cleared' \in Nat
  <2>1. inFlight \in [{"one", "burst"} -> Nat]
    BY Numbers DEF IInv, TypeOK
  <2> QED BY <1>1, <2>1, Numbers DEF IInv, TypeOK, modes
<1>6. todo' \in [kind : {"one", "burst"}, left : 0 .. MaxBurst]
  BY <1>1, PageAssumption
<1> QED BY <1>2, <1>3, <1>4, <1>5, <1>6, Assembled

\* What a burst has in flight would be lost from the counts; there is none.
LEMMA ResetStatsKeeps == ASSUME IInv, ResetStats PROVE IInv'
<1>1. /\ allowed' = 0 /\ blocked' = 0 /\ log' = <<>>
      /\ cleared' = fires - inFlight["one"] /\ ~(inFlight["burst"] > 0)
      /\ UNCHANGED <<now, endpoint, simulator, modes, todo, inFlight, fires>>
  BY DEF ResetStats, busy
<1>2. PICK f \in Nat, c \in Nat, x \in Nat, y \in Nat :
          /\ f = fires /\ c = cleared /\ x = waiting /\ y = Len(admitted)
          /\ y + x <= f /\ c + x <= f
  BY Numbers
<1>3. inFlight["burst"] = 0 /\ inFlight["one"] = x
  <2>1. inFlight["burst"] = 0
    <3>1. PICK b \in Nat : b = inFlight["burst"]
      BY Numbers
    <3>2. ~(b > 0)
      BY <1>1, <3>1
    <3> QED BY <3>1, <3>2
  <2>2. inFlight["one"] \in Nat /\ x = inFlight["one"] + inFlight["burst"]
    BY <1>2, Numbers DEF waiting
  <2> QED BY <2>1, <2>2
<1>4. cleared' = f - x /\ cleared' \in Nat /\ waiting' = x /\ fires' = f
  BY <1>1, <1>2, <1>3 DEF waiting
<1>5. Recorded' = 0
  <2>1. Recorded' = f - (x + 0) - (f - x)
    BY <1>1, <1>3, <1>4 DEF Recorded
  <2> QED BY <2>1
<1>6. /\ Sound(endpoint', state', admitted', now')
      /\ Len(admitted') = Len(admitted)
  BY <1>1, SoundKeeps
<1>7. ShownOK(0)'
  <2>1. \A status : Logged(status)' = 0
    <3>1. \A status : {i \in DOMAIN <<>> : <<>>[i] = status} = {}
      OBVIOUS
    <3> QED BY <1>1, <3>1, FS_EmptySet DEF Logged
  <2>2. Len(log') = Least(LogSize, 0) /\ log' \in Seq(Statuses)
    BY <1>1, Numbers DEF Least
  <2> QED BY <1>1, <2>1, <2>2 DEF ShownOK
<1>8. ShownOK(Recorded)'
  BY <1>5, <1>7 DEF ShownOK
<1>9. FiresCounted'
  <2>1. (f - x) + x <= f
    BY <1>2
  <2> QED BY <1>1, <1>2, <1>4, <1>6, <2>1 DEF IInv, FiresCounted
<1>10. /\ endpoint' \in Endpoints /\ now' \in 0 .. MaxTime
       /\ {mode', modeRef'} \subseteq {"checking", "live", "sim"}
       /\ unchecked' \in 0 .. Checks /\ inFlight' \in [{"one", "burst"} -> Nat]
       /\ todo' \in [kind : {"one", "burst"}, left : 0 .. MaxBurst]
  <2>1. inFlight \in [{"one", "burst"} -> Nat]
    BY Numbers DEF IInv, TypeOK
  <2> QED BY <1>1, <2>1 DEF IInv, TypeOK, modes
<1> QED BY <1>4, <1>2, <1>6, <1>8, <1>9, <1>10, Assembled

\* A step that only changes the mode, or only the clock.
LEMMA OthersKeep ==
    ASSUME IInv, UNCHANGED <<endpoint, simulator, todo, inFlight, shown, fires, cleared>>,
           \/ now' = now
           \/ now' = now + 1 /\ now < MaxTime,
           {mode', modeRef'} \subseteq {"checking", "live", "sim"},
           unchecked' \in 0 .. Checks
    PROVE  IInv'
<1>1. Sound(endpoint', state', admitted', now')
  BY SoundLater, Numbers DEF IInv, simulator
<1>2. ShownOK(Recorded)'
  <2>1. PICK recorded \in Nat : recorded = Recorded
    BY Numbers
  <2>2. Recorded' = recorded
    BY <2>1 DEF Recorded
  <2>3. ShownOK(recorded)'
    BY <2>1, ShownKeeps
  <2> QED BY <2>2, <2>3 DEF ShownOK
<1>3. FiresCounted'
  BY DEF IInv, FiresCounted, waiting, simulator
<1>4. now' \in 0 .. MaxTime
  <2>1. now \in 0 .. MaxTime /\ MaxTime \in Nat
    BY Numbers DEF IInv, TypeOK
  <2>2. CASE now' = now
    BY <2>1, <2>2
  <2>3. CASE now' = now + 1 /\ now < MaxTime
    BY <2>1, <2>3
  <2> QED BY <2>2, <2>3
<1>5. inFlight' \in [{"one", "burst"} -> Nat]
  BY Numbers DEF IInv, TypeOK
<1>6. /\ endpoint' \in Endpoints /\ fires' \in Nat /\ cleared' \in Nat
      /\ todo' \in [kind : {"one", "burst"}, left : 0 .. MaxBurst]
  BY Numbers DEF IInv, TypeOK
<1> QED BY <1>1, <1>2, <1>3, <1>4, <1>5, <1>6, Assembled

-----------------------------------------------------------------------------
(* The theorems. *)

LEMMA InitInv == Init => IInv
<1> SUFFICES ASSUME Init PROVE IInv
  OBVIOUS
<1>1. /\ now = 0 /\ endpoint \in Endpoints /\ state = Unset
      /\ mode = "checking" /\ modeRef = "checking" /\ unchecked = Checks
      /\ todo = [kind |-> "one", left |-> 0]
      /\ inFlight = [kind \in {"one", "burst"} |-> 0]
      /\ allowed = 0 /\ blocked = 0 /\ log = <<>>
      /\ fires = 0 /\ cleared = 0 /\ admitted = <<>>
  BY DEF Init
<1>2. /\ MaxFires \in Nat /\ MaxTime \in Nat /\ LogSize \in Nat /\ MaxBurst \in Nat
      /\ Checks \in Nat
  BY PageAssumption
<1>3. Len(admitted) = 0 /\ admitted \in Seq(0 .. now)
  BY <1>1
<1>4. TypeOK
  <2>1. StateOK(endpoint, state, now)
    BY <1>1 DEF StateOK
  <2>2. inFlight \in [{"one", "burst"} -> 0 .. MaxFires]
    BY <1>1, <1>2
  <2>3. todo \in [kind : {"one", "burst"}, left : 0 .. MaxBurst]
    BY <1>1, <1>2
  <2>4. log \in Seq({200, 429, 503}) /\ Len(log) <= LogSize
    BY <1>1, <1>2
  <2>5. {allowed, blocked, fires, cleared} \subseteq 0 .. MaxFires
    BY <1>1, <1>2
  <2> QED BY <1>1, <1>2, <1>3, <2>1, <2>2, <2>3, <2>4, <2>5 DEF TypeOK
<1>5. waiting = 0
  BY <1>1 DEF waiting
<1>6. FiresCounted
  BY <1>1, <1>2, <1>3, <1>5 DEF FiresCounted
<1>7. RecordedOnce
  <2>1. \A status : Logged(status) = 0
    <3>1. \A status : {i \in DOMAIN <<>> : <<>>[i] = status} = {}
      OBVIOUS
    <3> QED BY <1>1, <3>1, FS_EmptySet DEF Logged
  <2>2. Recorded = 0
    BY <1>1 DEF Recorded
  <2>3. Len(log) = Least(LogSize, 0)
    BY <1>1, <1>2 DEF Least
  <2> QED BY <1>1, <2>1, <2>2, <2>3 DEF RecordedOnce
<1>8. Sound(endpoint, state, admitted, now)
  BY <1>1, <1>3 DEF Sound, InOrder, StateOK, Accounted, Within
<1> QED BY <1>4, <1>6, <1>7, <1>8 DEF IInv

LEMMA NextInv == IInv /\ [Next]_vars => IInv'
<1> SUFFICES ASSUME IInv, [Next]_vars PROVE IInv'
  OBVIOUS
<1>0. /\ {mode, modeRef} \subseteq {"checking", "live", "sim"}
      /\ unchecked \in 0 .. Checks /\ Checks \in Nat
  BY PageAssumption DEF IInv, TypeOK
<1>1. CASE Fire
  BY <1>1, FireKeeps
<1>2. ASSUME NEW kind \in {"one", "burst"}, Unreachable(kind)
      PROVE  IInv'
  BY <1>2, UnreachableKeeps
<1>3. ASSUME NEW kind \in {"one", "burst"}, NEW status \in {200, 429, 503},
             Answer(kind, status)
      PROVE  IInv'
  BY <1>3, AnswerKeeps
<1>4. CASE SendOne
  <2>1. 1 \in 1 .. MaxBurst
    BY PageAssumption
  <2> QED BY <1>4, <2>1, ClickKeeps DEF SendOne
<1>5. CASE SendBurst
  <2>1. PICK input \in BurstInputs : Click("burst", Clamp(input))
    BY <1>5 DEF SendBurst
  <2>2. Clamp(input) \in 1 .. MaxBurst
    BY PageAssumption, ClampFacts
  <2> QED BY <2>1, <2>2, ClickKeeps
<1>6. CASE ResetStats
  BY <1>6, ResetStatsKeeps
<1>7. ASSUME NEW ok \in BOOLEAN, Checked(ok)
      PROVE  IInv'
  <2>1. {mode', modeRef'} \subseteq {"checking", "live", "sim"} /\ unchecked' \in 0 .. Checks
    BY <1>0, <1>7 DEF Checked
  <2>2. UNCHANGED <<endpoint, simulator, todo, inFlight, shown, fires, cleared>> /\ now' = now
    BY <1>7 DEF Checked
  <2> QED BY <2>1, <2>2, OthersKeep
<1>8. CASE Effect
  <2>1. {mode', modeRef'} \subseteq {"checking", "live", "sim"} /\ unchecked' \in 0 .. Checks
    BY <1>0, <1>8 DEF Effect
  <2>2. UNCHANGED <<endpoint, simulator, todo, inFlight, shown, fires, cleared>> /\ now' = now
    BY <1>8 DEF Effect
  <2> QED BY <2>1, <2>2, OthersKeep
<1>9. CASE Pass
  <2>1. {mode', modeRef'} \subseteq {"checking", "live", "sim"} /\ unchecked' \in 0 .. Checks
    BY <1>0, <1>9 DEF Pass, modes
  <2>2. /\ UNCHANGED <<endpoint, simulator, todo, inFlight, shown, fires, cleared>>
        /\ now' = now + 1 /\ now < MaxTime
    BY <1>9 DEF Pass
  <2> QED BY <2>1, <2>2, OthersKeep
<1>10. CASE UNCHANGED vars
  <2>1. UNCHANGED <<endpoint, simulator, todo, inFlight, shown, fires, cleared, mode, modeRef,
                    unchecked, now>>
    BY <1>10 DEF vars, simulator, shown
  <2> QED BY <1>0, <2>1, OthersKeep
<1> QED BY <1>1, <1>2, <1>3, <1>4, <1>5, <1>6, <1>7, <1>8, <1>9, <1>10 DEF Next

LEMMA SpecInv == Spec => []IInv
BY InitInv, NextInv, PTL DEF Spec

\* The page and the simulator keep their types: no counter or bucket grows over
\* its limit, no burst over the largest, and the log not over its size.
THEOREM TypeCorrect == Spec => []TypeOK
<1>1. IInv => TypeOK
  BY DEF IInv
<1> QED BY <1>1, SpecInv, PTL

\* Every request the page fires is recorded once: by its answer, or by the
\* simulator's when the backend is not reached, whatever is in flight when the
\* statistics are reset.
THEOREM EveryRequestRecorded == Spec => []RecordedOnce
<1>1. IInv => RecordedOnce
  BY DEF IInv
<1> QED BY <1>1, SpecInv, PTL

\* The simulator of every endpoint keeps the promise of its algorithm over any
\* stretch of its admissions, and admits a request that waited as it was told.
THEOREM SimulatorWithinLimits == Spec => []SimulatorKeepsLimits
<1>1. IInv => SimulatorKeepsLimits
  <2> SUFFICES ASSUME IInv PROVE WithinAllowance /\ RetryHonoured
    BY DEF SimulatorKeepsLimits
  <2>1. WithinAllowance
    BY WithinIs DEF IInv
  <2>2. HonoursRetry(endpoint, state, now)
    BY Numbers, SimulatorKept DEF IInv
  <2> QED BY <2>1, <2>2 DEF HonoursRetry, RetryHonoured
<1> QED BY <1>1, SpecInv, PTL
=============================================================================
