----------------------------- MODULE ClockProofs -----------------------------
(***************************************************************************)
(* Proofs about Clock, for every second, microsecond, width of words and   *)
(* lifetime of the clock that its assumptions admit.                       *)
(***************************************************************************)
EXTENDS Clock, TLAPS

-----------------------------------------------------------------------------
(* Arithmetic.                                                             *)

LEMMA Division ==
    ASSUME NEW a \in Int, NEW n \in Nat \ {0}
    PROVE  /\ a \div n \in Int /\ a % n \in 0..(n - 1)
           /\ a = n * (a \div n) + (a % n)
  OBVIOUS

LEMMA ModSmall ==
    ASSUME NEW a \in Int, NEW m \in Nat \ {0}, 0 <= a, a < m
    PROVE  a % m = a
  OBVIOUS

LEMMA ModNegative ==
    ASSUME NEW a \in Int, NEW m \in Nat \ {0}, a < 0, -m <= a
    PROVE  a % m = a + m
  OBVIOUS

LEMMA OneWhole ==
    ASSUME NEW a \in Int, NEW n \in Nat \ {0}, n <= a, a < 2 * n
    PROVE  a \div n = 1
  OBVIOUS

LEMMA Product ==
    ASSUME NEW a \in Int, NEW b \in Int, NEW n \in Nat, a <= b
    PROVE  a * n \in Int /\ b * n \in Int /\ a * n <= b * n
  OBVIOUS

LEMMA HalfWord ==
    ASSUME NEW m \in Nat, m % 2 = 0
    PROVE  m \div 2 \in Nat /\ m = 2 * (m \div 2)
  OBVIOUS

-----------------------------------------------------------------------------
(* Words.                                                                  *)

LEMMA Width ==
    /\ Modulus \in Nat \ {0} /\ Modulus \div 2 \in Nat /\ Modulus = 2 * (Modulus \div 2)
    /\ LastSecond * NSEC_PER_SEC \in Nat
    /\ LastSecond * NSEC_PER_SEC + NSEC_PER_SEC <= Modulus \div 2
  <1>1. /\ NSEC_PER_SEC \in Nat \ {0} /\ LastSecond \in Nat /\ Modulus \in Nat
        /\ Modulus % 2 = 0
    BY UnitsAssumption, WidthAssumption
  <1>2. /\ LastSecond * NSEC_PER_SEC \in Nat
        /\ 2 * (LastSecond + 1) * NSEC_PER_SEC
             = 2 * (LastSecond * NSEC_PER_SEC) + 2 * NSEC_PER_SEC
    BY <1>1
  <1>3. 2 * (LastSecond * NSEC_PER_SEC) + 2 * NSEC_PER_SEC <= Modulus
    BY <1>2, WidthAssumption
  <1>4. Modulus \div 2 \in Nat /\ Modulus = 2 * (Modulus \div 2)
    BY <1>1, HalfWord
  <1> QED BY <1>1, <1>2, <1>3, <1>4

(* A value of half a word is itself, read as unsigned or as signed; a      *)
(* negative one comes back from an unsigned word as itself.                *)
LEMMA Words ==
    ASSUME NEW a \in Int, 0 <= a, a < Modulus \div 2
    PROVE  /\ Unsigned(a) = a /\ Signed(a) = a
           /\ Signed(a - Modulus) = a
           /\ a # 0 => Unsigned(-a) = Modulus - a
  <1>1. a < Modulus
    BY Width
  <1>2. Unsigned(a) = a /\ Signed(a) = a
    BY <1>1, Width, ModSmall DEF Unsigned, Signed
  <1>3. Unsigned(a - Modulus) = a
    <2>1. a - Modulus \in Int /\ a - Modulus < 0 /\ -Modulus <= a - Modulus
      BY <1>1, Width
    <2>2. (a - Modulus) % Modulus = (a - Modulus) + Modulus
      BY <2>1, Width, ModNegative
    <2> QED BY <2>2, Width DEF Unsigned
  <1>4. Signed(a - Modulus) = a
    BY <1>3 DEF Signed
  <1>5. ASSUME a # 0 PROVE Unsigned(-a) = Modulus - a
    <2>1. -a \in Int /\ -a < 0 /\ -Modulus <= -a
      BY <1>1, <1>5, Width
    <2>2. (-a) % Modulus = (-a) + Modulus
      BY <2>1, Width, ModNegative
    <2> QED BY <2>2, Width DEF Unsigned
  <1> QED BY <1>2, <1>4, <1>5

LEMMA TimespecType ==
    ASSUME NEW t \in Timespec
    PROVE  /\ t.tv_sec \in Nat /\ t.tv_sec <= LastSecond
           /\ t.tv_nsec \in Nat /\ t.tv_nsec < NSEC_PER_SEC
           /\ Total(t) \in Nat
  <1>1. /\ t.tv_sec \in Nat /\ t.tv_sec <= LastSecond
        /\ t.tv_nsec \in Nat /\ t.tv_nsec < NSEC_PER_SEC
    BY UnitsAssumption DEF Timespec
  <1>2. t.tv_sec * NSEC_PER_SEC \in Nat
    BY <1>1, UnitsAssumption
  <1> QED BY <1>1, <1>2 DEF Total

-----------------------------------------------------------------------------
(* The difference of two times.                                            *)

(* The later of two times is later by a whole second if it has fewer       *)
(* nanoseconds.                                                            *)
LEMMA LaterSeconds ==
    ASSUME NEW x \in Timespec, NEW y \in Timespec, Total(y) <= Total(x)
    PROVE  /\ y.tv_sec <= x.tv_sec
           /\ x.tv_nsec < y.tv_nsec => y.tv_sec + 1 <= x.tv_sec
  <1> DEFINE N == NSEC_PER_SEC
  <1>0. N \in Nat \ {0}
    BY UnitsAssumption
  <1> HIDE DEF N
  <1>1. /\ x.tv_sec \in Nat /\ y.tv_sec \in Nat /\ x.tv_nsec \in Nat /\ y.tv_nsec \in Nat
        /\ x.tv_nsec < N /\ y.tv_nsec < N
    BY TimespecType DEF N
  <1>2. y.tv_sec * N + y.tv_nsec <= x.tv_sec * N + x.tv_nsec
    BY DEF Total, N
  <1>3. ASSUME x.tv_sec + 1 <= y.tv_sec PROVE FALSE
    <2>1. (x.tv_sec + 1) * N <= y.tv_sec * N
      BY <1>0, <1>1, <1>3, Product
    <2>2. (x.tv_sec + 1) * N = x.tv_sec * N + N
      BY <1>0, <1>1
    <2>3. x.tv_sec * N \in Int /\ y.tv_sec * N \in Int
      BY <1>0, <1>1
    <2> QED BY <1>0, <1>1, <1>2, <2>1, <2>2, <2>3
  <1>4. ASSUME x.tv_nsec < y.tv_nsec, x.tv_sec <= y.tv_sec PROVE FALSE
    <2>1. x.tv_sec * N <= y.tv_sec * N /\ x.tv_sec * N \in Int /\ y.tv_sec * N \in Int
      BY <1>0, <1>1, <1>4, Product
    <2> QED BY <1>1, <1>2, <1>4, <2>1
  <1> QED BY <1>1, <1>3, <1>4

(* timespec_subtract is subtraction by columns.                            *)
LEMMA Subtraction ==
    ASSUME NEW x \in Timespec, NEW y \in Timespec
    PROVE  timespec_subtract(x, y) =
             IF x.tv_nsec < y.tv_nsec
             THEN [tv_sec |-> x.tv_sec - (y.tv_sec + 1), tv_nsec |-> x.tv_nsec + NSEC_PER_SEC - y.tv_nsec]
             ELSE [tv_sec |-> x.tv_sec - y.tv_sec, tv_nsec |-> x.tv_nsec - y.tv_nsec]
  <1> DEFINE N == NSEC_PER_SEC
             a == x.tv_nsec
             b == y.tv_nsec
  <1>0. /\ N \in Nat \ {0} /\ N <= Modulus \div 2
        /\ Modulus \in Nat \ {0} /\ Modulus \div 2 \in Nat /\ Modulus = 2 * (Modulus \div 2)
    BY UnitsAssumption, Width
  <1>1. /\ a \in Nat /\ a < N /\ b \in Nat /\ b < N
        /\ x.tv_sec \in Nat /\ y.tv_sec \in Nat
    BY TimespecType
  <1>2. CASE a < b
    <2>1. Borrow(x, y) = 1
      <3>1. /\ b - a + N - 1 \in Int /\ N <= b - a + N - 1 /\ b - a + N - 1 < 2 * N
            /\ 0 <= b - a + N - 1 /\ b - a + N - 1 < Modulus
        BY <1>0, <1>1, <1>2
      <3>2. Unsigned(b - a + N - 1) = b - a + N - 1
        BY <1>0, <3>1, ModSmall DEF Unsigned
      <3>3. (b - a + N - 1) \div N = 1
        BY <1>0, <3>1, OneWhole
      <3> QED BY <1>2, <3>2, <3>3 DEF Borrow
    <2>2. Unsigned(N * 1) = N
      BY <1>0, ModSmall DEF Unsigned
    <2>3. Unsigned(b - N) = Modulus - (N - b)
      <3>1. b - N \in Int /\ b - N < 0 /\ -Modulus <= b - N
        BY <1>0, <1>1
      <3>2. (b - N) % Modulus = (b - N) + Modulus
        BY <1>0, <3>1, ModNegative
      <3> QED BY <1>0, <1>1, <3>2 DEF Unsigned
    <2>4. Signed(a - (Modulus - (N - b))) = a + N - b
      <3>1. a + N - b \in Int /\ 0 <= a + N - b /\ a + N - b < Modulus \div 2
        BY <1>0, <1>1, <1>2
      <3>2. a - (Modulus - (N - b)) = (a + N - b) - Modulus
        BY <1>0, <1>1
      <3> QED BY <3>1, <3>2, Words
    <2> HIDE DEF N
    <2> QED BY <1>2, <2>1, <2>2, <2>3, <2>4 DEF timespec_subtract, N
  <1>3. CASE ~(a < b)
    <2>1. Borrow(x, y) = 0
      BY <1>3 DEF Borrow
    <2>2. Unsigned(N * 0) = 0 /\ Unsigned(b - 0) = b
      BY <1>0, <1>1, ModSmall DEF Unsigned
    <2>3. Signed(a - b) = a - b
      <3>1. a - b \in Int /\ 0 <= a - b /\ a - b < Modulus \div 2
        BY <1>0, <1>1, <1>3
      <3> QED BY <3>1, Words
    <2>4. y.tv_sec + 0 = y.tv_sec
      BY <1>1
    <2> HIDE DEF N
    <2> QED BY <1>3, <2>1, <2>2, <2>3, <2>4 DEF timespec_subtract, N
  <1> QED BY <1>2, <1>3

(* The difference of a later and an earlier time is normalised, and it is  *)
(* the difference of their nanoseconds.                                    *)
LEMMA Difference ==
    ASSUME NEW x \in Timespec, NEW y \in Timespec, Total(y) <= Total(x),
           NEW d, d = timespec_subtract(x, y)
    PROVE  /\ d.tv_sec \in 0..LastSecond /\ d.tv_nsec \in 0..(NSEC_PER_SEC - 1)
           /\ d.tv_sec * NSEC_PER_SEC + d.tv_nsec = Total(x) - Total(y)
  <1> DEFINE N == NSEC_PER_SEC
  <1>0. N \in Nat \ {0} /\ LastSecond \in Nat
    BY UnitsAssumption
  <1>1. /\ x.tv_sec \in Nat /\ y.tv_sec \in Nat /\ x.tv_nsec \in Nat /\ y.tv_nsec \in Nat
        /\ x.tv_nsec < N /\ y.tv_nsec < N /\ x.tv_sec <= LastSecond
    BY TimespecType
  <1> HIDE DEF N
  <1>2. CASE x.tv_nsec < y.tv_nsec
    <2>1. /\ d.tv_sec = x.tv_sec - (y.tv_sec + 1)
          /\ d.tv_nsec = x.tv_nsec + N - y.tv_nsec
      BY <1>2, Subtraction DEF N
    <2>2. d.tv_sec \in 0..LastSecond /\ d.tv_nsec \in 0..(N - 1)
      BY <1>0, <1>1, <1>2, <2>1, LaterSeconds
    <2>3. (x.tv_sec - (y.tv_sec + 1)) * N = x.tv_sec * N - y.tv_sec * N - N
      BY <1>0, <1>1
    <2>4. x.tv_sec * N \in Int /\ y.tv_sec * N \in Int
      BY <1>0, <1>1
    <2> QED BY <1>0, <1>1, <2>1, <2>2, <2>3, <2>4 DEF Total, N
  <1>3. CASE ~(x.tv_nsec < y.tv_nsec)
    <2>1. d.tv_sec = x.tv_sec - y.tv_sec /\ d.tv_nsec = x.tv_nsec - y.tv_nsec
      BY <1>3, Subtraction
    <2>2. d.tv_sec \in 0..LastSecond /\ d.tv_nsec \in 0..(N - 1)
      BY <1>0, <1>1, <1>3, <2>1, LaterSeconds
    <2>3. (x.tv_sec - y.tv_sec) * N = x.tv_sec * N - y.tv_sec * N
      BY <1>0, <1>1
    <2>4. x.tv_sec * N \in Int /\ y.tv_sec * N \in Int
      BY <1>0, <1>1
    <2> QED BY <1>0, <1>1, <2>1, <2>2, <2>3, <2>4 DEF Total, N
  <1> QED BY <1>2, <1>3 DEF N

(* A reading is that difference, in a word that holds it.                  *)
LEMMA Reading ==
    ASSUME NEW x \in Timespec, NEW y \in Timespec, Total(y) <= Total(x)
    PROVE  get_vm_clock(x, y) = Total(x) - Total(y)
  <1> DEFINE N == NSEC_PER_SEC
             d == timespec_subtract(x, y)
             p == d.tv_sec * N
  <1>0. N \in Nat \ {0} /\ LastSecond \in Nat
    BY UnitsAssumption
  <1>1. /\ d.tv_sec \in Nat /\ d.tv_sec <= LastSecond /\ d.tv_nsec \in Nat /\ d.tv_nsec < N
        /\ d.tv_sec * N + d.tv_nsec = Total(x) - Total(y)
    BY <1>0, Difference
  <1> HIDE DEF N, d
  <1>2. p \in Nat /\ p <= LastSecond * N
    BY <1>0, <1>1, Product
  <1>3. LastSecond * N \in Nat /\ LastSecond * N + N <= Modulus \div 2 /\ Modulus \div 2 \in Nat
    BY Width DEF N
  <1> HIDE DEF p
  <1>4. 0 <= p /\ p < Modulus \div 2 /\ 0 <= d.tv_nsec + p /\ d.tv_nsec + p < Modulus \div 2
    BY <1>0, <1>1, <1>2, <1>3
  <1>5. Unsigned(p) = p /\ Signed(d.tv_nsec + p) = d.tv_nsec + p
    BY <1>1, <1>2, <1>4, Words
  <1>6. get_vm_clock(x, y) = Signed(d.tv_nsec + Unsigned(p))
    BY DEF get_vm_clock, d, p, N
  <1>7. p + d.tv_nsec = Total(x) - Total(y)
    BY <1>1 DEF p
  <1> QED BY <1>1, <1>2, <1>5, <1>6, <1>7

-----------------------------------------------------------------------------
(* The clock.                                                              *)

(* Time does not go back, and a reading is the time from the start to some *)
(* moment that is past.                                                    *)
ClockOK ==
    /\ monotonic \in Timespec
    /\ started \in BOOLEAN
    /\ clock \in Nat
    /\ started => t_start \in Timespec /\ Total(t_start) <= Total(monotonic)

LEMMA ClockInit == Init => ClockOK
  <1> SUFFICES ASSUME Init PROVE ClockOK
    OBVIOUS
  <1>1. monotonic \in Timespec /\ ~started /\ started \in BOOLEAN /\ clock \in Nat
    BY DEF Init
  <1> QED BY <1>1 DEF ClockOK

LEMMA ClockStep ==
    ASSUME ClockOK, [Next]_vars
    PROVE  ClockOK'
  <1>1. ASSUME NEW t \in Timespec, Advance(t) PROVE ClockOK'
    <2>1. Total(t) \in Nat /\ Total(monotonic) \in Nat
          /\ (started => Total(t_start) \in Nat)
      BY TimespecType DEF ClockOK
    <2>2. Total(t) > Total(monotonic) /\ monotonic' = t /\ UNCHANGED <<t_start, started, clock>>
      BY <1>1 DEF Advance
    <2>3. started => Total(t_start) <= Total(t)
      BY <2>1, <2>2 DEF ClockOK
    <2> QED BY <2>2, <2>3 DEF ClockOK, Total
  <1>2. CASE get_time
    <2>1. Total(monotonic) \in Nat
      BY TimespecType DEF ClockOK
    <2>2. /\ started' = TRUE /\ t_start' = monotonic
          /\ UNCHANGED <<monotonic, clock>>
      BY <1>2 DEF get_time
    <2> QED BY <2>1, <2>2 DEF ClockOK, Total
  <1>3. CASE Read
    <2>1. started /\ clock' = get_vm_clock(monotonic, t_start)
          /\ UNCHANGED <<monotonic, t_start, started>>
      BY <1>3 DEF Read
    <2>2. clock' = Total(monotonic) - Total(t_start)
      BY <2>1, Reading DEF ClockOK
    <2>3. Total(monotonic) \in Nat /\ Total(t_start) \in Nat
      BY <2>1, TimespecType DEF ClockOK
    <2> QED BY <2>1, <2>2, <2>3 DEF ClockOK, Total
  <1>4. CASE UNCHANGED vars
    BY <1>4 DEF vars, ClockOK, Total
  <1> QED BY <1>1, <1>2, <1>3, <1>4 DEF Next

LEMMA ClockAlways == Spec => []ClockOK
  <1>1. ClockOK /\ [Next]_vars => ClockOK'
    BY ClockStep
  <1> QED BY <1>1, ClockInit, PTL DEF Spec

(* Differences of times are normalised, however the two times lie within   *)
(* their seconds, although they pass through unsigned words.               *)
THEOREM AlwaysNormalised == Spec => []Normalised
  <1>1. ClockOK => Normalised
    BY Difference DEF ClockOK, Normalised
  <1> QED BY <1>1, ClockAlways, PTL

(* A reading is exactly the time since the start, for every pair of times  *)
(* and every width of words that holds the lifetime of the clock.          *)
THEOREM ElapsedRead == Spec => ReadsElapsed
  <1>1. ClockOK => [Read => clock' = Total(monotonic) - Total(t_start)]_vars
    BY Reading DEF ClockOK, Read
  <1> QED BY <1>1, ClockAlways, PTL DEF ReadsElapsed

(* A wait that is computed from a reading rounded to microseconds is never *)
(* shorter than the period, nor a microsecond longer, whatever the units.  *)
THEOREM SleepsAlwaysEnough == Spec => []SleepsEnough
  <1>1. ASSUME clock \in Nat, NEW p \in Periods
        PROVE  /\ Slept(p) >= p * NSEC_PER_USEC
               /\ vm_clock_as_usec(clock) <= p => Slept(p) < (p + 1) * NSEC_PER_USEC
    <2> DEFINE U == NSEC_PER_USEC
               e == vm_clock_as_usec(clock)
    <2>0. U \in Nat \ {0} /\ p \in Nat
      BY UnitsAssumption
    <2>1. e \in Int /\ clock % U \in 0..(U - 1) /\ clock = U * e + (clock % U)
      BY <1>1, <2>0, Division DEF vm_clock_as_usec
    <2>2. Slept(p) = clock + U * (IF p >= e THEN p - e ELSE 0)
      BY DEF Slept
    <2> HIDE DEF U, e
    <2>3. U * e \in Int /\ p * U \in Int /\ (p + 1) * U = p * U + U
      BY <2>0, <2>1
    <2>4. CASE p >= e
      <3>1. U * (p - e) = p * U - U * e
        BY <2>0, <2>1
      <3> QED BY <1>1, <2>0, <2>1, <2>2, <2>3, <2>4, <3>1 DEF U, e
    <2>5. CASE ~(p >= e)
      <3>1. p * U <= e * U /\ e * U = U * e
        BY <2>0, <2>1, <2>5, Product
      <3>2. Slept(p) = clock
        BY <1>1, <2>0, <2>2, <2>5
      <3> QED BY <1>1, <2>0, <2>1, <2>3, <2>5, <3>1, <3>2 DEF U, e
    <2> QED BY <2>4, <2>5
  <1>2. ClockOK => SleepsEnough
    BY <1>1 DEF ClockOK, SleepsEnough
  <1> QED BY <1>2, ClockAlways, PTL
=============================================================================
