---------------------------- MODULE DataFlow_proof ----------------------------
(***************************************************************************)
(* The ring of one-second slots implements the sliding window, for any     *)
(* size of the ring, any clock and any byte counts.                        *)
(***************************************************************************)
EXTENDS DataFlow, WellFoundedInduction, TLAPS

(* Slots of seconds: arithmetic modulo Size *)

\* A second has a slot, the remainder of its division by Size.
LEMMA SlotOf ==
  ASSUME NEW a \in Int
  PROVE  /\ a % Size \in Slots
         /\ \E q \in Int : a = Size * q + (a % Size)
<1>1. a % Size \in 0 .. Size - 1
  BY DataFlowAssumption
<1>2. a \div Size \in Int /\ a = Size * (a \div Size) + (a % Size)
  BY DataFlowAssumption
<1> QED
  BY <1>1, <1>2, Zenon DEF Slots

\* The remainder is the only slot from which whole turns lead to the second.
LEMMA SlotIs ==
  ASSUME NEW q \in Int, NEW r \in 0 .. Size - 1
  PROVE  (Size * q + r) % Size = r
BY DataFlowAssumption

\* A turn of the ring leads back to the same slot.
LEMMA SlotTurn ==
  ASSUME NEW a \in Int
  PROVE  (a + Size) % Size = a % Size
<1>1. PICK q \in Int : a = Size * q + (a % Size)
  BY SlotOf
<1>2. Size \in Int /\ a % Size \in Int /\ a % Size \in 0 .. Size - 1
  BY SlotOf, DataFlowAssumption DEF Slots
<1>3. PICK r \in 0 .. Size - 1 : r = a % Size
  BY <1>2
<1>4. a + Size = Size * (q + 1) + r
  BY <1>1, <1>2, <1>3
<1>5. (Size * (q + 1) + r) % Size = r
  BY SlotIs
<1> QED
  BY <1>3, <1>4, <1>5

\* Two seconds less than a turn apart have different slots.
LEMMA SlotDiffers ==
  ASSUME NEW a \in Int, NEW b \in Int, a % Size = b % Size, a - b \in 0 .. Size - 1
  PROVE  a = b
<1>1. PICK p \in Int : a = Size * p + (a % Size)
  BY SlotOf
<1>2. PICK q \in Int : b = Size * q + (b % Size)
  BY SlotOf
<1>3. PICK r \in Int : r = a % Size
  BY SlotOf, DataFlowAssumption DEF Slots
<1>4. Size \in Nat \ {0} /\ Size * p \in Int /\ Size * q \in Int
  BY DataFlowAssumption
<1>5. a = Size * p + r /\ b = Size * q + r
  BY <1>1, <1>2, <1>3
<1>6. Size * p - Size * q \in 0 .. Size - 1
  BY <1>4, <1>5
<1>7. Size * p = Size * q
  BY <1>4, <1>6
<1> QED
  BY <1>5, <1>7

\* The slot of a second up to a turn back.
LEMMA SlotBack ==
  ASSUME NEW a \in Int, NEW k \in 0 .. Size - 1
  PROVE  (a - k) % Size = IF k <= a % Size THEN (a % Size) - k ELSE (a % Size) - k + Size
<1>1. PICK q \in Int : a = Size * q + (a % Size)
  BY SlotOf
<1>2. PICK r \in 0 .. Size - 1 : r = a % Size
  BY SlotOf DEF Slots
<1>3. Size \in Nat \ {0} /\ Size * q \in Int /\ Size * (q - 1) = Size * q - Size
  BY DataFlowAssumption
<1>6. a = Size * q + r
  BY <1>1, <1>2
<1>4. CASE k <= r
  <2>0. r \in Int /\ k \in Int /\ 0 <= k /\ r < Size
    BY <1>3
  <2>1. r - k \in 0 .. Size - 1 /\ a - k = Size * q + (r - k)
    BY <2>0, <1>3, <1>4, <1>6
  <2>2. (Size * q + (r - k)) % Size = r - k
    BY <2>1, SlotIs
  <2> QED BY <1>2, <1>4, <2>1, <2>2
<1>5. CASE ~(k <= r)
  <2>1. r - k + Size \in 0 .. Size - 1 /\ a - k = Size * (q - 1) + (r - k + Size)
    BY <1>3, <1>5, <1>6
  <2>2. (Size * (q - 1) + (r - k + Size)) % Size = r - k + Size
    BY <2>1, SlotIs
  <2> QED BY <1>2, <1>5, <2>1, <2>2
<1> QED BY <1>4, <1>5

\* The loop of cleanup(), which compares slots, runs once for each second.
LEMMA SlotSteps ==
  ASSUME NEW a \in Int, NEW b \in Int, b - a \in 0 .. Size - 1
  PROVE  ((b % Size) - (a % Size)) % Size = b - a
<1>1. PICK p \in Int : a = Size * p + (a % Size)
  BY SlotOf
<1>2. PICK q \in Int : b = Size * q + (b % Size)
  BY SlotOf
<1>3. (b % Size) - (a % Size) = Size * (p - q) + (b - a)
  <2>1. PICK r \in Int : r = a % Size
    BY SlotOf, DataFlowAssumption DEF Slots
  <2>4. PICK s \in Int : s = b % Size
    BY SlotOf, DataFlowAssumption DEF Slots
  <2>2. Size \in Nat \ {0} /\ Size * p \in Int /\ Size * q \in Int /\ Size * (p - q) = Size * p - Size * q
    BY DataFlowAssumption
  <2>3. a = Size * p + r /\ b = Size * q + s
    BY <1>1, <1>2, <2>1, <2>4
  <2> QED BY <2>1, <2>2, <2>3, <2>4
<1>4. (Size * (p - q) + (b - a)) % Size = b - a
  BY SlotIs
<1> QED
  BY <1>3, <1>4

-------------------------------------------------------------------------------
(* Sums *)

\* A non-empty set of numbers has a least one.
LEMMA LeastNat ==
  ASSUME NEW T \in SUBSET Nat, T # {}
  PROVE  \E x \in T : \A y \in T : x <= y
<1> DEFINE Less == OpToRel(<, Nat)
<1>1. \E x \in T : \A y \in T : ~(<<y, x>> \in Less)
  BY NatLessThanWellFounded, WFMin, Zenon DEF Less
<1>2. \A y, z \in Nat : y < z => <<y, z>> \in Less
  BY DEF OpToRel
<1> HIDE DEF Less
<1>3. PICK x \in T : \A y \in T : ~(<<y, x>> \in Less)
  BY <1>1, Zenon
<1>4. \A y \in T : ~(y < x)
  BY <1>2, <1>3, Zenon
<1> QED
  BY <1>4

\* Induction up to a bound: a set with 0 and the successor of each of its members.
LEMMA BoundedInduction ==
  ASSUME NEW L \in Nat, NEW T, 0 \in T, \A k \in 0 .. L : k + 1 \in 0 .. L /\ k \in T => k + 1 \in T
  PROVE  \A k \in 0 .. L : k \in T
<1> SUFFICES ASSUME {k \in 0 .. L : k \notin T} # {} PROVE FALSE
  OBVIOUS
<1>1. {k \in 0 .. L : k \notin T} \in SUBSET Nat
  OBVIOUS
<1>2. PICK x \in {k \in 0 .. L : k \notin T} : \A y \in {k \in 0 .. L : k \notin T} : x <= y
  BY <1>1, LeastNat, Zenon
<1>3. x \in 1 .. L /\ x - 1 \in 0 .. L
  BY <1>2
<1>4. x - 1 \in T
  BY <1>2, <1>3
<1> QED
  BY <1>2, <1>3, <1>4

\* There is a function that sums up what the slots hold.
LEMMA SumsExist ==
  ASSUME NEW g
  PROVE  \E f : f = [n \in 0 .. Size |-> IF n = 0 THEN 0 ELSE f[n - 1] + g[n - 1]]
<1> DEFINE P(k) == \E f : f = [n \in 0 .. k |-> IF n = 0 THEN 0 ELSE f[n - 1] + g[n - 1]]
           T == {k \in 0 .. Size : P(k)}
<1>0. Size \in Nat
  BY DataFlowAssumption
<1>1. 0 \in T
  <2>1. PICK f : f = [n \in 0 .. 0 |-> 0]
    OBVIOUS
  <2>2. f = [n \in 0 .. 0 |-> IF n = 0 THEN 0 ELSE f[n - 1] + g[n - 1]]
    BY <2>1
  <2> QED BY <1>0, <2>2
<1>2. ASSUME NEW k \in 0 .. Size, k + 1 \in 0 .. Size, k \in T
      PROVE  k + 1 \in T
  <2>1. PICK f : f = [n \in 0 .. k |-> IF n = 0 THEN 0 ELSE f[n - 1] + g[n - 1]]
    BY <1>2
  <2>2. PICK h : h = [n \in 0 .. k + 1 |-> IF n = k + 1 THEN f[k] + g[k] ELSE f[n]]
    OBVIOUS
  <2>3. ASSUME NEW n \in 0 .. k + 1
        PROVE  h[n] = IF n = 0 THEN 0 ELSE h[n - 1] + g[n - 1]
    <3>1. CASE n = k + 1
      <4>1. h[k] = f[k] BY <2>2
      <4> QED BY <2>2, <3>1, <4>1
    <3>2. CASE n # k + 1
      <4>1. n \in 0 .. k /\ h[n] = f[n] BY <2>2, <3>2
      <4>2. n # 0 => n - 1 \in 0 .. k /\ h[n - 1] = f[n - 1] BY <2>2, <4>1
      <4>3. f[n] = IF n = 0 THEN 0 ELSE f[n - 1] + g[n - 1] BY <2>1, <4>1
      <4> QED BY <4>1, <4>2, <4>3
    <3> QED BY <3>1, <3>2
  <2>4. h = [n \in 0 .. k + 1 |-> IF n = 0 THEN 0 ELSE h[n - 1] + g[n - 1]]
    BY <2>2, <2>3
  <2> QED BY <1>2, <2>4
<1> HIDE DEF P, T
<1>4. \A k \in 0 .. Size : k \in T
  BY <1>0, <1>1, <1>2, BoundedInduction
<1> QED
  BY <1>0, <1>4 DEF T, P

\* Sums that start at 0 and grow by numbers are numbers.
LEMMA SumsTyped ==
  ASSUME NEW s, NEW g \in [Slots -> Nat],
         s = [n \in 0 .. Size |-> IF n = 0 THEN 0 ELSE s[n - 1] + g[n - 1]]
  PROVE  /\ s \in [0 .. Size -> Nat]
         /\ s[0] = 0
         /\ \A n \in 1 .. Size : s[n] = s[n - 1] + g[n - 1]
<1> DEFINE T == {k \in 0 .. Size : s[k] \in Nat}
<1>0. Size \in Nat
  BY DataFlowAssumption
<1>1. s[0] = 0 /\ \A n \in 1 .. Size : s[n] = s[n - 1] + g[n - 1]
  BY <1>0
<1>2. 0 \in T
  BY <1>0, <1>1
<1>3. ASSUME NEW k \in 0 .. Size, k + 1 \in 0 .. Size, k \in T
      PROVE  k + 1 \in T
  <2>1. k \in Slots /\ g[k] \in Nat
    BY <1>0, <1>3 DEF Slots
  <2>2. s[k + 1] = s[k] + g[k]
    BY <1>1, <1>3
  <2> QED BY <1>3, <2>1, <2>2
<1> HIDE DEF T
<1>4. \A k \in 0 .. Size : k \in T
  BY <1>0, <1>2, <1>3, BoundedInduction
<1>5. s \in [0 .. Size -> Nat]
  BY <1>4 DEF T
<1> QED
  BY <1>1, <1>5

\* What get() adds up.
LEMMA SumsAre ==
  ASSUME NEW g \in [Slots -> Nat]
  PROVE  /\ Sums(g) \in [0 .. Size -> Nat]
         /\ Sums(g)[0] = 0
         /\ \A n \in 1 .. Size : Sums(g)[n] = Sums(g)[n - 1] + g[n - 1]
<1>1. PICK s : s = Sums(g)
  OBVIOUS
<1>2. s = [n \in 0 .. Size |-> IF n = 0 THEN 0 ELSE s[n - 1] + g[n - 1]]
  BY <1>1, SumsExist, Zenon DEF Sums
<1>3. /\ s \in [0 .. Size -> Nat] /\ s[0] = 0
      /\ \A n \in 1 .. Size : s[n] = s[n - 1] + g[n - 1]
  BY <1>2, SumsTyped
<1> QED
  BY <1>1, <1>3

\* Adding up the slots from that of second a backwards, once round the ring,
\* gives what adding them up from slot 0 onwards gives.
LEMMA OnceRound ==
  ASSUME NEW g \in [Slots -> Nat], NEW a \in Int, NEW s \in [0 .. Size -> Nat], s[0] = 0,
         \A n \in 1 .. Size : s[n] = s[n - 1] + g[(a - (n - 1)) % Size]
  PROVE  s[Size] = Sums(g)[Size]
<1>0. Size \in Nat \ {0}
  BY DataFlowAssumption
<1>1. PICK p \in 0 .. Size - 1 : p = a % Size
  BY SlotOf DEF Slots
<1>2. PICK f \in [0 .. Size -> Nat] : /\ f = Sums(g) /\ f[0] = 0
                                      /\ \A n \in 1 .. Size : f[n] = f[n - 1] + g[n - 1]
  BY SumsAre
<1>3. \A n \in 1 .. Size :
        s[n] = s[n - 1] + g[IF n - 1 <= p THEN p - (n - 1) ELSE p - (n - 1) + Size]
  <2> SUFFICES ASSUME NEW n \in 1 .. Size
               PROVE  (a - (n - 1)) % Size = IF n - 1 <= p THEN p - (n - 1) ELSE p - (n - 1) + Size
    BY Zenon
  <2>1. PICK k \in 0 .. Size - 1 : k = n - 1
    BY <1>0
  <2>2. (a - k) % Size = IF k <= p THEN p - k ELSE p - k + Size
    BY <1>1, SlotBack
  <2> QED BY <2>1, <2>2
<1> DEFINE T == {k \in 0 .. Size : IF k <= p + 1 THEN s[k] = f[p + 1] - f[p + 1 - k]
                                   ELSE s[k] = f[p + 1] + f[Size] - f[Size + p + 1 - k]}
<1>4. 0 \in T
  BY <1>0
<1>5. ASSUME NEW k \in 0 .. Size, k + 1 \in 0 .. Size, k \in T
      PROVE  k + 1 \in T
  <2>1. CASE k <= p
    <3>1. s[k + 1] = s[k] + g[p - k]
      BY <1>3, <1>5, <2>1
    <3>2. f[p - k + 1] = f[p - k] + g[p - k]
      BY <1>0, <1>2, <2>1
    <3>3. p - k \in Slots /\ g[p - k] \in Nat /\ f[p - k] \in Nat /\ f[p + 1] \in Nat
      BY <1>0, <1>2, <2>1 DEF Slots
    <3>4. s[k] = f[p + 1] - f[p - k + 1] /\ p + 1 - (k + 1) = p - k
      BY <1>5, <2>1
    <3>5. s[k + 1] = f[p + 1] - f[p - k]
      BY <3>1, <3>2, <3>3, <3>4
    <3> QED BY <1>5, <2>1, <3>4, <3>5
  <2>2. CASE k = p + 1
    <3>1. p - k + Size = Size - 1 /\ s[k + 1] = s[k] + g[Size - 1]
      BY <1>0, <1>3, <1>5, <2>2
    <3>2. f[Size] = f[Size - 1] + g[Size - 1]
      BY <1>0, <1>2
    <3>3. f[0] = 0 /\ f[p + 1] \in Nat /\ g[Size - 1] \in Nat /\ f[Size - 1] \in Nat
      BY <1>0, <1>2 DEF Slots
    <3>4. s[k] = f[p + 1]
      BY <1>5, <2>2, <3>3
    <3>5. s[k + 1] = f[p + 1] + f[Size] - f[Size - 1] /\ Size + p + 1 - (k + 1) = Size - 1
      BY <1>0, <2>2, <3>1, <3>2, <3>3, <3>4
    <3> QED BY <1>5, <2>2, <3>5
  <2>3. CASE k > p + 1
    <3>0. PICK m \in 0 .. Size - 1 : m = p - k + Size
      BY <1>0, <1>5, <2>3
    <3>1. m \in Slots /\ m + 1 \in 1 .. Size /\ s[k + 1] = s[k] + g[m]
      BY <1>0, <1>3, <1>5, <2>3, <3>0 DEF Slots
    <3>2. f[m + 1] = f[m] + g[m]
      BY <1>2, <3>1
    <3>3. f[p + 1] \in Nat /\ g[m] \in Nat /\ f[m] \in Nat /\ f[Size] \in Nat
      <4>1. m \in 0 .. Size /\ p + 1 \in 0 .. Size /\ Size \in 0 .. Size
        BY <1>0
      <4>2. g[m] \in Nat
        BY <3>1
      <4> QED BY <4>1, <4>2
    <3>4. s[k] = f[p + 1] + f[Size] - f[m + 1] /\ Size + p + 1 - (k + 1) = m
      <4>1. Size + p + 1 - k = m + 1 /\ Size + p + 1 - (k + 1) = m
        BY <1>0, <3>0
      <4> QED BY <1>5, <2>3, <4>1
    <3>5. s[k + 1] = f[p + 1] + f[Size] - f[m]
      BY <3>1, <3>2, <3>3, <3>4, SMTT(30)
    <3> QED BY <1>5, <2>3, <3>4, <3>5
  <2> QED BY <2>1, <2>2, <2>3
<1> HIDE DEF T
<1>6. Size \in T
  <2>1. \A k \in 0 .. Size : k \in T
    BY <1>0, <1>4, <1>5, BoundedInduction
  <2> QED BY <1>0, <2>1
<1>7. s[Size] = f[Size]
  <2>1. CASE Size <= p + 1
    <3>1. p + 1 = Size /\ p + 1 - Size = 0 /\ f[0] = 0 /\ f[Size] \in Nat
      BY <1>0, <1>2, <2>1
    <3>2. s[Size] = f[Size] - f[0]
      BY <1>6, <2>1, <3>1 DEF T
    <3> QED BY <3>1, <3>2
  <2>2. CASE ~(Size <= p + 1)
    <3>1. s[Size] = f[p + 1] + f[Size] - f[p + 1]
      <4>1. Size + p + 1 - Size = p + 1
        BY <1>0
      <4> QED BY <1>6, <2>2, <4>1 DEF T
    <3>2. f[p + 1] \in Nat /\ f[Size] \in Nat
      BY <1>0, <1>2
    <3> QED BY <3>1, <3>2
  <2> QED BY <2>1, <2>2
<1> QED
  BY <1>2, <1>7

-------------------------------------------------------------------------------
(* The ring *)

\* What the ring holds, for the turn that ends with the last add(): a slot holds
\* the bytes of its second, or a get() has zeroed it because the second has left
\* the window.  get() leaves m_stamp behind the clock, so both occur.
SlotsHold ==
  \A t \in (m_stamp - Size + 1) .. m_stamp :
    \/ m_buffer[t % Size] = Window!Bytes(t)
    \/ m_buffer[t % Size] = 0 /\ t + Size <= now

\* The inductive invariant: with the types and SlotsHold, nothing was added in the
\* seconds after the stamp.
RingInv ==
  /\ TypeOK
  /\ \A t \in 0 .. MaxTime : t > m_stamp => sent[t] = 0
  /\ SlotsHold

\* The types of what the lemmas speak about.
LEMMA RingTypes ==
  ASSUME TypeOK
  PROVE  /\ now \in Int /\ m_stamp \in Int /\ m_stamp <= now /\ Size \in Nat \ {0} /\ MaxTime \in Nat
         /\ m_buffer \in [Slots -> Nat] /\ sent \in [0 .. MaxTime -> Nat] /\ now \in 0 .. MaxTime
         /\ now % Size \in Slots
         /\ \A t \in Int : Window!Bytes(t) \in Nat
<1>1. /\ now \in Int /\ m_stamp \in Int /\ m_stamp <= now /\ Size \in Nat \ {0} /\ MaxTime \in Nat
      /\ m_buffer \in [Slots -> Nat] /\ sent \in [0 .. MaxTime -> Nat] /\ now \in 0 .. MaxTime
  BY DataFlowAssumption DEF TypeOK
<1>2. now % Size \in Slots
  BY <1>1, SlotOf
<1>3. \A t \in Int : Window!Bytes(t) \in Nat
  BY <1>1 DEF Window!Bytes
<1> QED
  BY <1>1, <1>2, <1>3, Zenon

\* cleanup() leaves a byte count in every slot.
LEMMA CleanupTyped ==
  ASSUME TypeOK
  PROVE  Cleanup(now) \in [Slots -> Nat]
BY DEF TypeOK, Cleanup

\* Less than a turn after the stamp, cleanup() zeroes the slots of the seconds
\* since the stamp.
LEMMA CleanupZeroes ==
  ASSUME TypeOK, now < m_stamp + Size, NEW t \in (m_stamp + 1) .. now
  PROVE  Cleanup(now)[t % Size] = 0
<1>0. now \in Int /\ m_stamp \in Int /\ Size \in Nat \ {0} /\ m_stamp <= now
  BY RingTypes
<1>1. now \in Int /\ m_stamp \in Int /\ Size \in Nat \ {0} /\ now - m_stamp \in 0 .. Size - 1
  BY <1>0
<1>2. ((now % Size) - (m_stamp % Size)) % Size = now - m_stamp
  BY <1>1, SlotSteps
<1>3. t \in Int /\ t - m_stamp \in 1 .. (now - m_stamp) /\ m_stamp + (t - m_stamp) = t
  BY <1>1
<1>4. t % Size \in Passed(now)
  BY <1>2, <1>3 DEF Passed
<1>5. t % Size \in Slots
  BY <1>3, SlotOf
<1> QED
  BY <1>1, <1>4, <1>5 DEF Cleanup

\* It leaves the slots of the other seconds of the window alone.
LEMMA CleanupKeeps ==
  ASSUME TypeOK, now < m_stamp + Size, NEW t \in (now - Size + 1) .. m_stamp
  PROVE  Cleanup(now)[t % Size] = m_buffer[t % Size]
<1>0. now \in Int /\ m_stamp \in Int /\ Size \in Nat \ {0} /\ m_stamp <= now
  BY RingTypes
<1>1. now \in Int /\ m_stamp \in Int /\ Size \in Nat \ {0} /\ now - m_stamp \in 0 .. Size - 1
  BY <1>0
<1>2. ((now % Size) - (m_stamp % Size)) % Size = now - m_stamp
  BY <1>1, SlotSteps
<1>5. t \in Int
  BY <1>1
<1>3. t \in Int /\ t % Size \in Slots
  BY <1>5, SlotOf, Zenon
<1>4. ASSUME t % Size \in Passed(now)
      PROVE  FALSE
  <2>1. PICK k \in 1 .. (now - m_stamp) : t % Size = (m_stamp + k) % Size
    BY <1>2, <1>4 DEF Passed
  <2>2. m_stamp + k \in Int /\ (m_stamp + k) - t \in 1 .. Size - 1
    BY <1>1, <1>3
  <2>3. m_stamp + k = t
    <3>1. PICK b \in Int : b = m_stamp + k
      BY <2>2
    <3>2. b - t \in 0 .. Size - 1 /\ b % Size = t % Size
      BY <1>1, <2>1, <2>2, <3>1
    <3> QED BY <1>3, <3>1, <3>2, SlotDiffers
  <2> QED BY <1>1, <1>3, <2>2, <2>3
<1> QED
  BY <1>1, <1>3, <1>4 DEF Cleanup

\* After a turn or more it zeroes every slot.
LEMMA CleanupTurn ==
  ASSUME TypeOK, ~(now < m_stamp + Size)
  PROVE  \A i \in Slots : Cleanup(now)[i] = 0
BY RingTypes DEF Cleanup

\* After cleanup() the ring holds the bytes of the window, second by second.
LEMMA CleanupWindow ==
  ASSUME RingInv
  PROVE  \A t \in (now - Size + 1) .. now : Cleanup(now)[t % Size] = Window!Bytes(t)
<1> SUFFICES ASSUME NEW t \in (now - Size + 1) .. now
             PROVE  Cleanup(now)[t % Size] = Window!Bytes(t)
  OBVIOUS
<1>0. TypeOK
  BY DEF RingInv
<1>1. /\ now \in Int /\ m_stamp \in Int /\ Size \in Nat \ {0} /\ t \in Int /\ now \in 0 .. MaxTime
      /\ MaxTime \in Nat /\ t \in (now - Size + 1) .. now
  BY <1>0, RingTypes
<1>2. t > m_stamp => Window!Bytes(t) = 0
  BY <1>1 DEF RingInv, Window!Bytes
<1>3. CASE now < m_stamp + Size
  <2>1. CASE t > m_stamp
    <3>1. t \in (m_stamp + 1) .. now
      BY <1>1, <2>1
    <3> QED BY <1>0, <1>2, <1>3, <2>1, <3>1, CleanupZeroes
  <2>2. CASE ~(t > m_stamp)
    <3>1. t \in (now - Size + 1) .. m_stamp /\ t \in (m_stamp - Size + 1) .. m_stamp /\ ~(t + Size <= now)
      BY <1>0, <1>1, <2>2, RingTypes
    <3>2. m_buffer[t % Size] = Window!Bytes(t)
      BY <3>1 DEF RingInv, SlotsHold
    <3> QED BY <1>0, <1>3, <3>1, <3>2, CleanupKeeps
  <2> QED BY <2>1, <2>2
<1>4. CASE ~(now < m_stamp + Size)
  <2>1. t > m_stamp
    BY <1>1, <1>4
  <2>2. t % Size \in Slots
    BY <1>1, SlotOf
  <2> QED BY <2>2, <1>0, <1>2, <1>4, <2>1, CleanupTurn
<1> QED BY <1>3, <1>4

\* After cleanup() the seconds that left the window are zero in the ring.
LEMMA CleanupOld ==
  ASSUME RingInv, NEW t \in (m_stamp - Size + 1) .. m_stamp, t + Size <= now
  PROVE  Cleanup(now)[t % Size] = 0
<1>0. TypeOK
  BY DEF RingInv
<1>1. now \in Int /\ m_stamp \in Int /\ Size \in Nat \ {0} /\ t \in Int
  BY <1>0, RingTypes
<1>2. (t + Size) % Size = t % Size /\ t % Size \in Slots
  BY <1>1, SlotTurn, SlotOf
<1>3. CASE now < m_stamp + Size
  <2>1. t + Size \in (m_stamp + 1) .. now
    BY <1>1
  <2>2. Cleanup(now)[(t + Size) % Size] = 0
    BY <1>0, <1>3, <2>1, CleanupZeroes
  <2> QED BY <1>2, <2>2
<1>4. CASE ~(now < m_stamp + Size)
  BY <1>0, <1>2, <1>4, CleanupTurn
<1> QED BY <1>3, <1>4

-------------------------------------------------------------------------------
(* The invariant holds *)

\* The constructor.
LEMMA RingInit == Init => RingInv
<1> SUFFICES ASSUME Init PROVE RingInv
  OBVIOUS
<1>1. /\ now \in 0 .. MaxTime /\ m_stamp = now /\ MaxTime \in Nat
      /\ m_buffer = [i \in Slots |-> 0] /\ sent = [t \in 0 .. MaxTime |-> 0] /\ reading = 0
  BY DataFlowAssumption DEF Init
<1>2. TypeOK
  BY <1>1 DEF TypeOK
<1>3. \A t \in 0 .. MaxTime : sent[t] = 0
  BY <1>1
<1>4. \A t \in Int : Window!Bytes(t) = 0 /\ m_buffer[t % Size] = 0
  BY <1>1, <1>3, SlotOf DEF Window!Bytes
<1>5. now \in Int /\ m_stamp \in Int /\ Size \in Int
  BY <1>2, RingTypes
<1>6. SlotsHold
  <2> SUFFICES ASSUME NEW t \in (m_stamp - Size + 1) .. m_stamp
               PROVE  m_buffer[t % Size] = Window!Bytes(t)
    BY DEF SlotsHold
  <2> QED BY <1>4, <1>5
<1> QED
  BY <1>2, <1>3, <1>6 DEF RingInv

\* A reading is a number.
LEMMA ReadingTyped ==
  ASSUME TypeOK
  PROVE  Sums(Cleanup(now))[Size] \in Nat
<1>1. Cleanup(now) \in [Slots -> Nat]
  BY CleanupTyped
<1>2. Sums(Cleanup(now)) \in [0 .. Size -> Nat]
  BY <1>1, SumsAre
<1> QED
  BY <1>2, RingTypes

\* The types, step by step.
LEMMA TypeStep ==
  ASSUME TypeOK, [Next]_vars
  PROVE  TypeOK'
<1>0. /\ now \in 0 .. MaxTime /\ m_stamp \in 0 .. now /\ m_buffer \in [Slots -> Nat] /\ reading \in Nat
      /\ sent \in [0 .. MaxTime -> Nat] /\ MaxTime \in Nat /\ now % Size \in Slots
      /\ Cleanup(now) \in [Slots -> Nat] /\ Sums(Cleanup(now))[Size] \in Nat
  BY RingTypes, CleanupTyped, ReadingTyped DEF TypeOK
<1>1. CASE \E n \in Counts : Add(n)
  <2>1. PICK n \in Counts : Add(n)
    BY <1>1
  <2>2. n \in Nat
    BY DataFlowAssumption
  <2>3. PICK c \in [Slots -> Nat] : c = Cleanup(now)
    BY <1>0
  <2>4. m_buffer' = [c EXCEPT ![now % Size] = c[now % Size] + n]
    BY <2>1, <2>3, Zenon DEF Add
  <2>5. m_buffer' \in [Slots -> Nat]
    BY <1>0, <2>2, <2>4
  <2>6. sent' \in [0 .. MaxTime -> Nat]
    BY <1>0, <2>1, <2>2 DEF Add
  <2>7. now' = now /\ m_stamp' = now /\ reading' = reading
    BY <2>1 DEF Add
  <2> QED BY <1>0, <2>5, <2>6, <2>7 DEF TypeOK
<1>2. CASE Get
  BY <1>0, <1>2 DEF TypeOK, Get
<1>3. CASE Clear
  BY <1>0, <1>3 DEF TypeOK, Clear
<1>4. CASE Tick
  BY <1>0, <1>4 DEF TypeOK, Tick
<1>5. CASE UNCHANGED vars
  BY <1>0, <1>5 DEF TypeOK, vars
<1> QED
  BY <1>1, <1>2, <1>3, <1>4, <1>5 DEF Next

\* add(): the ring is cleaned up to the present second, which then is the stamp.
LEMMA AddKeepsRing ==
  ASSUME RingInv, TypeOK', NEW n \in Counts, Add(n)
  PROVE  RingInv'
<1>0. TypeOK
  BY DEF RingInv
<1>1. /\ now \in Int /\ m_stamp \in Int /\ m_stamp <= now /\ Size \in Nat \ {0} /\ MaxTime \in Nat
      /\ sent \in [0 .. MaxTime -> Nat] /\ now \in 0 .. MaxTime /\ now % Size \in Slots
  BY <1>0, RingTypes
<1>2. PICK c \in [Slots -> Nat] : c = Cleanup(now)
  BY <1>0, CleanupTyped
<1>3. /\ m_buffer' = [c EXCEPT ![now % Size] = c[now % Size] + n]
      /\ m_stamp' = now /\ now' = now
      /\ sent' = [sent EXCEPT ![now] = sent[now] + n]
  BY <1>2, Zenon DEF Add
<1>4. ASSUME NEW t \in 0 .. MaxTime, t > m_stamp' PROVE sent'[t] = 0
  <2>1. t # now /\ t > m_stamp
    BY <1>1, <1>3, <1>4
  <2>2. sent[t] = 0
    BY <2>1 DEF RingInv
  <2> QED BY <1>1, <1>3, <2>1, <2>2
<1>5. ASSUME NEW t \in (now - Size + 1) .. now
      PROVE  m_buffer'[t % Size] = Window!Bytes(t)'
  <2>1. t \in Int /\ now - t \in 0 .. Size - 1
    BY <1>1
  <2>2. c[t % Size] = Window!Bytes(t) /\ t % Size \in Slots
    BY <1>2, <2>1, CleanupWindow, SlotOf
  <2>3. CASE t = now
    <3>1. Window!Bytes(t) = sent[now] /\ Window!Bytes(t)' = sent'[now]
      BY <1>1, <2>3 DEF Window!Bytes
    <3> QED BY <1>1, <1>3, <2>2, <2>3, <3>1
  <2>4. CASE t # now
    <3>1. t % Size # now % Size
      BY <1>1, <2>1, <2>4, SlotDiffers
    <3>2. Window!Bytes(t)' = Window!Bytes(t)
      BY <1>1, <1>3, <2>4 DEF Window!Bytes
    <3> QED BY <1>3, <2>2, <3>1, <3>2
  <2> QED BY <2>3, <2>4
<1>6. SlotsHold'
  <2> SUFFICES ASSUME NEW t \in (m_stamp' - Size + 1) .. m_stamp'
               PROVE  m_buffer'[t % Size] = Window!Bytes(t)'
    BY DEF SlotsHold
  <2> QED BY <1>3, <1>5
<1> QED
  BY <1>4, <1>6 DEF RingInv

\* get(): the stamp stays, and the seconds that left the window are zero.
LEMMA GetKeepsRing ==
  ASSUME RingInv, TypeOK', Get
  PROVE  RingInv'
<1>0. TypeOK
  BY DEF RingInv
<1>1. now \in Int /\ m_stamp \in Int /\ m_stamp <= now /\ Size \in Nat \ {0}
  BY <1>0, RingTypes
<1>2. m_buffer' = Cleanup(now) /\ now' = now /\ m_stamp' = m_stamp /\ sent' = sent
  BY DEF Get
<1>3. \A t \in Int : Window!Bytes(t)' = Window!Bytes(t)
  BY <1>2 DEF Window!Bytes
<1>4. SlotsHold'
  <2> SUFFICES ASSUME NEW t \in (m_stamp - Size + 1) .. m_stamp
               PROVE  \/ m_buffer'[t % Size] = Window!Bytes(t)'
                      \/ m_buffer'[t % Size] = 0 /\ t + Size <= now
    BY <1>2 DEF SlotsHold
  <2>1. CASE t + Size <= now
    BY <1>2, <2>1, CleanupOld
  <2>2. CASE ~(t + Size <= now)
    <3>1. t \in Int /\ t \in (now - Size + 1) .. now
      BY <1>1, <2>2
    <3> QED BY <1>2, <1>3, <3>1, CleanupWindow
  <2> QED BY <2>1, <2>2
<1> QED
  BY <1>2, <1>4 DEF RingInv

\* clear() leaves no bytes, in the ring and in the window.
LEMMA ClearKeepsRing ==
  ASSUME RingInv, TypeOK', Clear
  PROVE  RingInv'
<1>1. m_stamp' \in Int /\ Size \in Int
  BY RingTypes DEF RingInv, Clear
<1>2. m_buffer' = [i \in Slots |-> 0] /\ sent' = [t \in 0 .. MaxTime |-> 0]
  BY DEF Clear
<1>3. \A t \in Int : Window!Bytes(t)' = 0 /\ m_buffer'[t % Size] = 0
  BY <1>2, SlotOf DEF Window!Bytes
<1>4. SlotsHold'
  <2> SUFFICES ASSUME NEW t \in (m_stamp' - Size + 1) .. m_stamp'
               PROVE  m_buffer'[t % Size] = Window!Bytes(t)'
    BY DEF SlotsHold
  <2> QED BY <1>1, <1>3
<1> QED
  BY <1>2, <1>4 DEF RingInv

\* A second passes: more seconds have left the window, none comes back.
LEMMA TickKeepsRing ==
  ASSUME RingInv, TypeOK', Tick
  PROVE  RingInv'
<1>1. now \in Int /\ m_stamp \in Int /\ Size \in Int
  BY RingTypes DEF RingInv
<1>2. now' = now + 1 /\ m_buffer' = m_buffer /\ m_stamp' = m_stamp /\ sent' = sent
  BY DEF Tick
<1>3. \A t \in Int : Window!Bytes(t)' = Window!Bytes(t)
  BY <1>2 DEF Window!Bytes
<1>4. SlotsHold'
  <2> SUFFICES ASSUME NEW t \in (m_stamp - Size + 1) .. m_stamp
               PROVE  \/ m_buffer[t % Size] = Window!Bytes(t)'
                      \/ m_buffer[t % Size] = 0 /\ t + Size <= now + 1
    BY <1>2 DEF SlotsHold
  <2>1. t \in Int /\ (t + Size <= now => t + Size <= now + 1)
    BY <1>1
  <2>2. \/ m_buffer[t % Size] = Window!Bytes(t)
        \/ m_buffer[t % Size] = 0 /\ t + Size <= now
    BY DEF RingInv, SlotsHold
  <2> QED BY <1>3, <2>1, <2>2, Zenon
<1> QED
  BY <1>2, <1>4 DEF RingInv

\* Every step keeps the invariant.
LEMMA RingStep == RingInv /\ [Next]_vars => RingInv'
<1> SUFFICES ASSUME RingInv, [Next]_vars PROVE RingInv'
  OBVIOUS
<1>0. TypeOK'
  BY TypeStep DEF RingInv
<1>1. CASE \E n \in Counts : Add(n)
  BY <1>0, <1>1, AddKeepsRing
<1>2. CASE Get
  BY <1>0, <1>2, GetKeepsRing
<1>3. CASE Clear
  BY <1>0, <1>3, ClearKeepsRing
<1>4. CASE Tick
  BY <1>0, <1>4, TickKeepsRing
<1>5. CASE UNCHANGED vars
  <2>1. SlotsHold'
    BY <1>5 DEF RingInv, SlotsHold, Window!Bytes, vars
  <2> QED BY <1>0, <1>5, <2>1 DEF RingInv, vars
<1> QED
  BY <1>1, <1>2, <1>3, <1>4, <1>5 DEF Next

-------------------------------------------------------------------------------
(* The window is implemented *)

\* What the window promises to a reader.
LEMMA WindowSumsAre ==
  ASSUME TypeOK
  PROVE  /\ Window!WindowSums \in [0 .. Size -> Nat]
         /\ Window!WindowSums[0] = 0
         /\ \A n \in 1 .. Size : Window!WindowSums[n] = Window!WindowSums[n - 1] + Window!Bytes(now - (n - 1))
<1>1. now \in Int /\ Size \in Nat \ {0} /\ \A t \in Int : Window!Bytes(t) \in Nat
  BY RingTypes
<1>2. PICK g : g = [k \in Slots |-> Window!Bytes(now - k)]
  OBVIOUS
<1>3. g \in [Slots -> Nat] /\ \A n \in 1 .. Size : g[n - 1] = Window!Bytes(now - (n - 1))
  <2>1. \A k \in Slots : now - k \in Int
    BY <1>1 DEF Slots
  <2>2. \A n \in 1 .. Size : n - 1 \in Slots
    BY <1>1 DEF Slots
  <2> QED BY <1>1, <1>2, <2>1, <2>2
<1>4. \A n \in 1 .. Size : Window!Bytes(now - n + 1) = g[n - 1]
  <2> SUFFICES ASSUME NEW n \in 1 .. Size PROVE Window!Bytes(now - n + 1) = g[n - 1]
    OBVIOUS
  <2>1. now - n + 1 = now - (n - 1)
    BY <1>1
  <2> QED BY <1>3, <2>1, Zenon
<1>5. PICK s : s = [n \in 0 .. Size |-> IF n = 0 THEN 0 ELSE s[n - 1] + g[n - 1]]
  BY SumsExist
<1>6. s = [n \in 0 .. Size |-> IF n = 0 THEN 0 ELSE s[n - 1] + Window!Bytes(now - n + 1)]
  <2>1. \A n \in 0 .. Size : (IF n = 0 THEN 0 ELSE s[n - 1] + g[n - 1])
                           = (IF n = 0 THEN 0 ELSE s[n - 1] + Window!Bytes(now - n + 1))
    BY <1>1, <1>4
  <2> QED BY <1>5, <2>1
<1>7. PICK w : w = Window!WindowSums
  OBVIOUS
<1>8. w = [n \in 0 .. Size |-> IF n = 0 THEN 0 ELSE w[n - 1] + Window!Bytes(now - n + 1)]
  BY <1>6, <1>7, Zenon DEF Window!WindowSums
<1>9. w = [n \in 0 .. Size |-> IF n = 0 THEN 0 ELSE w[n - 1] + g[n - 1]]
  <2>1. \A n \in 0 .. Size : (IF n = 0 THEN 0 ELSE w[n - 1] + g[n - 1])
                           = (IF n = 0 THEN 0 ELSE w[n - 1] + Window!Bytes(now - n + 1))
    BY <1>1, <1>4
  <2> QED BY <1>8, <2>1
<1>10. /\ w \in [0 .. Size -> Nat] /\ w[0] = 0
       /\ \A n \in 1 .. Size : w[n] = w[n - 1] + g[n - 1]
  <2>1. g \in [Slots -> Nat]
    BY <1>3
  <2> QED BY <1>9, <2>1, SumsTyped, Zenon
<1> QED
  BY <1>3, <1>7, <1>10

\* A reading is the sum over the window.
LEMMA ReadingIsWindow ==
  ASSUME RingInv
  PROVE  Sums(Cleanup(now))[Size] = Window!WindowSums[Size]
<1>0. TypeOK
  BY DEF RingInv
<1>1. now \in Int /\ Size \in Nat \ {0}
  BY <1>0, RingTypes
<1>2. PICK c \in [Slots -> Nat] : c = Cleanup(now)
  BY <1>0, CleanupTyped
<1>3. PICK w \in [0 .. Size -> Nat] :
        /\ w = Window!WindowSums /\ w[0] = 0
        /\ \A n \in 1 .. Size : w[n] = w[n - 1] + Window!Bytes(now - (n - 1))
  BY <1>0, WindowSumsAre
<1>4. ASSUME NEW n \in 1 .. Size
      PROVE  Window!Bytes(now - (n - 1)) = c[(now - (n - 1)) % Size]
  <2>1. now - (n - 1) \in (now - Size + 1) .. now
    BY <1>1
  <2> QED BY <1>2, <2>1, CleanupWindow
<1>5. \A n \in 1 .. Size : w[n] = w[n - 1] + c[(now - (n - 1)) % Size]
  BY <1>3, <1>4
<1>6. PICK a \in Int : a = now
  BY <1>1
<1>7. w[Size] = Sums(c)[Size]
  BY <1>3, <1>5, <1>6, OnceRound
<1> QED
  BY <1>2, <1>3, <1>7

\* The counters keep their types, and the stamp of the last add() is never ahead of
\* the clock: cleanup() never runs round the whole ring.
THEOREM FlowTypes == Spec => []TypeOK
<1>1. RingInv => TypeOK
  BY DEF RingInv
<1> QED
  BY <1>1, RingInit, RingStep, PTL DEF Spec

\* The ring of data_flow implements the sliding window: whatever sequence of add(),
\* get(), clear() and idle time precedes it, get() returns the bytes that were added
\* in the last Size seconds and not cleared.
THEOREM WindowImplemented == Spec => ImplementsWindow
<1>1. Init => Window!WindowInit
  BY DEF Init, Window!WindowInit
<1>2. RingInv /\ [Next]_vars => [Window!WindowNext]_Window!windowVars
  <2> SUFFICES ASSUME RingInv, [Next]_vars PROVE [Window!WindowNext]_Window!windowVars
    OBVIOUS
  <2>1. ASSUME NEW n \in Counts, Add(n) PROVE Window!WindowAdd
    BY <2>1 DEF Add, Window!WindowAdd
  <2>2. CASE Get
    <3>1. reading' = Window!WindowSums[Size]
      BY <2>2, ReadingIsWindow DEF Get
    <3> QED BY <2>2, <3>1 DEF Get, Window!WindowNext, Window!WindowRead
  <2>3. CASE Clear
    BY <2>3 DEF Clear, Window!WindowNext, Window!WindowClear
  <2>4. CASE Tick
    BY <2>4 DEF Tick, Window!WindowNext, Window!WindowTick
  <2>5. CASE UNCHANGED vars
    BY <2>5 DEF vars, Window!windowVars
  <2> QED
    BY <2>1, <2>2, <2>3, <2>4, <2>5 DEF Next, Window!WindowNext
<1> QED
  BY <1>1, <1>2, RingInit, RingStep, PTL DEF Spec, ImplementsWindow, Window!WindowSpec

===============================================================================
