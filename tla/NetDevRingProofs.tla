-------------------------- MODULE NetDevRingProofs --------------------------
(***************************************************************************)
(* The descriptor ring of any size, with accesses in program order: with   *)
(* 64-bit counters in one access, through their wrap-around, and with      *)
(* counters in two words, up to their first carry.                         *)
(***************************************************************************)
EXTENDS NetDevRing, SequenceTheorems, TLAPS

-----------------------------------------------------------------------------
(* Division with remainder. *)

LEMMA DivMod ==
  ASSUME NEW n \in Int, NEW d \in Int, d > 0
  PROVE  n \div d \in Int /\ n % d \in Int /\ 0 <= n % d /\ n % d < d /\ n % d = n - d * (n \div d)
OBVIOUS

LEMMA ModIs ==
  ASSUME NEW d \in Int, d > 0, NEW q \in Int, NEW x \in Int, 0 <= x, x < d, NEW n \in Int, n - x = d * q
  PROVE  n % d = x /\ n \div d = q
OBVIOUS

LEMMA ModSame ==
  ASSUME NEW d \in Int, d > 0, NEW q \in Int, NEW n \in Int, NEW m \in Int, m - n = d * q
  PROVE  m % d = n % d /\ m \div d = n \div d + q
<1> DEFINE a == n \div d
           b == n % d
<1>1. a \in Int /\ b \in Int /\ 0 <= b /\ b < d /\ b = n - d * a
  BY DivMod
<1> HIDE DEF a, b
<1>2. m = d * (a + q) + b /\ a + q \in Int
  BY <1>1
<1>3. m % d = b /\ m \div d = a + q
  BY <1>1, <1>2, ModIs
<1> QED
  BY <1>3 DEF a, b

(* Equal modulo d. *)
Same(m, n, d) == \E q \in Int : m - n = d * q

LEMMA ModEq ==
  ASSUME NEW d \in Int, d > 0, NEW n \in Int, NEW m \in Int, Same(m, n, d)
  PROVE  m % d = n % d
<1>1. PICK q \in Int : m - n = d * q
  BY DEF Same
<1>2. m % d = n % d /\ m \div d = n \div d + q
  BY <1>1, ModSame
<1> QED
  BY <1>2

(* Numbers less than d apart have different remainders. *)
LEMMA ModApart ==
  ASSUME NEW d \in Int, d > 0, NEW i \in Int, NEW j \in Int, i < j, j < i + d
  PROVE  i % d # j % d
<1> DEFINE a == i \div d
           b == j \div d
<1>1. a \in Int /\ b \in Int /\ i % d = i - d * a /\ j % d = j - d * b
  BY DivMod
<1> HIDE DEF a, b
<1>2. SUFFICES ASSUME i - d * a = j - d * b PROVE FALSE
  BY <1>1
<1>3. d * (b - a) = j - i /\ b - a \in Int
  BY <1>1, <1>2
<1>4. CASE b - a <= 0
  <2>1. d * (b - a) <= 0
    BY <1>1, <1>4
  <2> QED
    BY <1>3, <2>1
<1>5. CASE b - a >= 1
  <2>1. d * (b - a) >= d
    BY <1>1, <1>5
  <2> QED
    BY <1>3, <2>1
<1> QED
  BY <1>1, <1>4, <1>5

-----------------------------------------------------------------------------
(* The counters. *)

LEMMA Positive ==
  /\ ring_size \in Int /\ WORD \in Int /\ SEQ_MOD \in Int
  /\ ring_size > 0 /\ WORD > 0 /\ SEQ_MOD > ring_size
<1>1. WORD \in Nat /\ ring_size \in Nat /\ ring_size < SEQ_MOD /\ ring_size > 0
  BY NetDevRingAssumption
<1>2. SEQ_MOD \in Nat /\ WORD # 0
  BY <1>1 DEF SEQ_MOD
<1> QED
  BY <1>1, <1>2

LEMMA Divides == \E k \in Nat : SEQ_MOD = ring_size * k
<1> DEFINE k == SEQ_MOD \div ring_size
<1>1. k \in Int /\ SEQ_MOD = ring_size * k
  <2>1. SEQ_MOD % ring_size = 0
    BY NetDevRingAssumption
  <2> QED
    BY <2>1, Positive, DivMod
<1>2. k >= 0
  <2> HIDE DEF k
  <2>1. SUFFICES ASSUME k < 0 PROVE FALSE
    BY <1>1
  <2>2. ring_size * k <= 0
    BY <1>1, <2>1, Positive
  <2> QED
    BY <1>1, <2>2, Positive
<1> QED
  BY <1>1, <1>2

LEMMA CounterNum ==
  ASSUME NEW n \in Nat
  PROVE  Counter(n) \in Counters /\ Num(Counter(n)) = n % SEQ_MOD
<1>1. WORD \in Int /\ WORD > 0 /\ SEQ_MOD \in Int /\ SEQ_MOD > 0
  BY Positive
<1> DEFINE a == n \div WORD
           x == n % WORD
           b == a \div WORD
           y == a % WORD
<1>2. a \in Int /\ x \in Int /\ 0 <= x /\ x < WORD /\ x = n - WORD * a
  BY <1>1, DivMod
<1>3. b \in Int /\ y \in Int /\ 0 <= y /\ y < WORD /\ y = a - WORD * b
  BY <1>1, <1>2, DivMod
<1>4. Counter(n) = [hi |-> y, lo |-> x]
  BY DEF Counter
<1> HIDE DEF a, b, x, y
<1>5. Num(Counter(n)) = y * WORD + x
  BY <1>4 DEF Num
<1>6. n = SEQ_MOD * b + (y * WORD + x)
  <2>1. n = WORD * (WORD * b + y) + x
    BY <1>1, <1>2, <1>3
  <2>2. WORD * (WORD * b + y) = (WORD * WORD) * b + y * WORD
    BY <1>1, <1>3
  <2> QED
    BY <1>1, <1>2, <1>3, <2>1, <2>2 DEF SEQ_MOD
<1>7. y * WORD + x \in Int /\ 0 <= y * WORD + x /\ y * WORD + x < SEQ_MOD
  <2>1. y * WORD <= (WORD - 1) * WORD /\ y * WORD >= 0 /\ y * WORD \in Int
    BY <1>1, <1>3
  <2>2. (WORD - 1) * WORD = SEQ_MOD - WORD
    BY <1>1 DEF SEQ_MOD
  <2> QED
    BY <1>1, <1>2, <2>1, <2>2
<1>8. n % SEQ_MOD = y * WORD + x
  <2> DEFINE z == y * WORD + x
             d == SEQ_MOD
  <2>1. z \in Int /\ 0 <= z /\ z < d /\ d \in Int /\ d > 0 /\ n \in Int /\ b \in Int /\ n = d * b + z
    BY <1>1, <1>3, <1>6, <1>7
  <2> HIDE DEF z, d
  <2>2. n - z = d * b
    BY <2>1
  <2>3. n % d = z
    BY <2>1, <2>2, ModIs
  <2> QED
    BY <2>3 DEF z, d
<1> QED
  BY <1>1, <1>2, <1>3, <1>4, <1>5, <1>8 DEF Counters

(* A counter has the period SEQ_MOD. *)
LEMMA SuccIs ==
  ASSUME NEW n \in Nat
  PROVE  Succ(Counter(n)) = Counter(n + 1)
<1>1. WORD \in Int /\ WORD > 0 /\ SEQ_MOD \in Int /\ SEQ_MOD > 0
  BY Positive
<1> DEFINE q == n \div SEQ_MOD
           m == n % SEQ_MOD
<1>2. q \in Int /\ m \in Int /\ 0 <= m /\ m < SEQ_MOD /\ m = n - SEQ_MOD * q
  BY <1>1, DivMod
<1>3. Succ(Counter(n)) = Counter(m + 1)
  BY CounterNum DEF Succ
<1> HIDE DEF q, m
<1> DEFINE z == WORD * q
<1>4. z \in Int /\ WORD * z = SEQ_MOD * q
  BY <1>1, <1>2 DEF SEQ_MOD
<1> HIDE DEF z
<1>5. n + 1 \in Int /\ m + 1 \in Int /\ n + 1 = (m + 1) + WORD * z
  BY <1>1, <1>2, <1>4
<1>6. (n + 1) % WORD = (m + 1) % WORD /\ (n + 1) \div WORD = (m + 1) \div WORD + z
  BY <1>1, <1>4, <1>5, ModSame
<1> DEFINE e == (n + 1) \div WORD
           f == (m + 1) \div WORD
<1>7. e \in Int /\ f \in Int
  BY <1>1, <1>5, DivMod
<1>8. e - f = WORD * q
  BY <1>1, <1>2, <1>4, <1>6, <1>7 DEF z
<1> HIDE DEF e, f
<1>9. Same(e, f, WORD)
  BY <1>2, <1>8, Zenon DEF Same
<1>10. e % WORD = f % WORD
  BY <1>1, <1>7, <1>9, ModEq
<1> QED
  BY <1>3, <1>6, <1>10 DEF Counter, e, f

LEMMA MinusIs ==
  ASSUME NEW h \in Nat, NEW t \in Nat, t <= h, h < t + SEQ_MOD
  PROVE  /\ Minus(Counter(h), Counter(t)) = h - t
         /\ Counter(h) = Counter(t) <=> h = t
<1>1. SEQ_MOD \in Int /\ SEQ_MOD > 0
  BY Positive
<1> DEFINE a == h \div SEQ_MOD
           x == h % SEQ_MOD
           b == t \div SEQ_MOD
           y == t % SEQ_MOD
<1>2. a \in Int /\ x \in Int /\ 0 <= x /\ x < SEQ_MOD /\ x = h - SEQ_MOD * a
  BY <1>1, DivMod
<1>3. b \in Int /\ y \in Int /\ 0 <= y /\ y < SEQ_MOD /\ y = t - SEQ_MOD * b
  BY <1>1, DivMod
<1>4. Minus(Counter(h), Counter(t)) = (x - y + SEQ_MOD) % SEQ_MOD
  BY CounterNum DEF Minus
<1>5. Counter(h) = Counter(t) => x = y
  BY CounterNum
<1> HIDE DEF a, b, x, y
<1>6. x - y + SEQ_MOD = SEQ_MOD * (1 + b - a) + (h - t) /\ 1 + b - a \in Int
  BY <1>1, <1>2, <1>3
<1>7. (x - y + SEQ_MOD) % SEQ_MOD = h - t
  BY <1>1, <1>2, <1>3, <1>6, ModIs
<1>8. x = y => h = t
  <2>1. SUFFICES ASSUME x = y PROVE h = t
    OBVIOUS
  <2>2. x - y + SEQ_MOD = SEQ_MOD * 1 + 0
    BY <1>1, <1>2, <2>1
  <2>3. (x - y + SEQ_MOD) % SEQ_MOD = 0
    BY <1>1, <2>2, ModIs
  <2> QED
    BY <1>7, <2>3
<1> QED
  BY <1>4, <1>5, <1>7, <1>8

(* The slot of a counter, and of the counter before. *)
LEMMA SlotIs ==
  ASSUME NEW n \in Nat
  PROVE  /\ SlotOf(Counter(n)) = n % ring_size
         /\ (Num(Counter(n + 1)) + SEQ_MOD - 1) % ring_size = n % ring_size
         /\ n % ring_size \in 0 .. ring_size - 1
<1>1. SEQ_MOD \in Int /\ SEQ_MOD > 0 /\ ring_size \in Int /\ ring_size > 0
  BY Positive
<1>2. PICK k \in Nat : SEQ_MOD = ring_size * k
  BY Divides
<1>3. SlotOf(Counter(n)) = n % ring_size
  <2> DEFINE q == n \div SEQ_MOD
             m == n % SEQ_MOD
  <2>1. q \in Int /\ m \in Int /\ 0 <= m /\ m < SEQ_MOD /\ m = n - SEQ_MOD * q
    BY <1>1, DivMod
  <2>2. SlotOf(Counter(n)) = m % ring_size
    BY CounterNum DEF SlotOf
  <2> HIDE DEF q, m
  <2> DEFINE z == k * (0 - q)
  <2>3. z \in Int /\ m \in Int /\ m - n = ring_size * z
    BY <1>1, <1>2, <2>1
  <2> HIDE DEF z
  <2>4. Same(m, n, ring_size) 
    BY <2>3, Zenon DEF Same
  <2>5. n \in Int
    OBVIOUS
  <2>6. m % ring_size = n % ring_size
    BY Zenon, <1>1, <2>3, <2>4, <2>5, ModEq
  <2> QED
    BY <2>2, <2>6
<1>4. (Num(Counter(n + 1)) + SEQ_MOD - 1) % ring_size = n % ring_size
  <2> DEFINE q == (n + 1) \div SEQ_MOD
             m == (n + 1) % SEQ_MOD
  <2>1. q \in Int /\ m \in Int /\ 0 <= m /\ m < SEQ_MOD /\ m = (n + 1) - SEQ_MOD * q
    BY <1>1, DivMod
  <2>2. Num(Counter(n + 1)) = m
    BY CounterNum
  <2> HIDE DEF q, m
  <2> DEFINE z == k * (1 - q)
  <2>3. z \in Int /\ m + SEQ_MOD - 1 \in Int /\ (m + SEQ_MOD - 1) - n = ring_size * z
    BY <1>1, <1>2, <2>1
  <2> HIDE DEF z
  <2>4. Same(m + SEQ_MOD - 1, n, ring_size) 
    BY <2>3, Zenon DEF Same
  <2>5. n \in Int
    OBVIOUS
  <2>6. (m + SEQ_MOD - 1) % ring_size = n % ring_size
    BY Zenon, <1>1, <2>3, <2>4, <2>5, ModEq
  <2> QED
    BY <2>2, <2>6
<1> QED
  BY <1>1, <1>3, <1>4, DivMod

(* A counter whose first word is 0, and the words of two such. *)
LEMMA SmallCounter ==
  ASSUME NEW n \in Nat, n < WORD
  PROVE  Counter(n) = [hi |-> 0, lo |-> n]
<1>1. WORD \in Int /\ WORD > 0
  BY Positive
<1>2. n % WORD = n /\ n \div WORD = 0
  BY <1>1, ModIs
<1>3. 0 % WORD = 0
  BY <1>1, ModIs
<1> QED
  BY <1>2, <1>3 DEF Counter

LEMMA MixedAll ==
  ASSUME NEW x \in Counters, NEW y \in Counters
  PROVE  Mixed(x, y, Halves) = y
BY DEF Mixed, Counters, Halves

LEMMA MixedSmall ==
  ASSUME NEW a \in Nat, NEW b \in Nat, NEW x, NEW y, x = [hi |-> 0, lo |-> a], y = [hi |-> 0, lo |-> b]
  PROVE  Mixed(x, y, {"hi"}) = x /\ Mixed(x, y, {"lo"}) = y
BY DEF Mixed, Halves

-----------------------------------------------------------------------------
(* The counters are two numbers modulo SEQ_MOD: h buffers accepted by      *)
(* publish, t consumed.  What head and tail show of them: *)
Front(h) == IF p.pc = "store" /\ "lo" \in p.todo THEN h - 1 ELSE h
Back(t) == IF c.pc = "store" /\ "lo" \notin c.todo THEN t + 1 ELSE t

Types ==
    /\ atomic64 \in BOOLEAN
    /\ slots \in [0 .. ring_size - 1 -> Bufs \cup {None}]
    /\ p \in Sides /\ c \in Sides
    /\ flight \in Seq(Bufs)

(* Each side stores the slot, or reads it, before it stores its counter. *)
Storing(s) ==
    /\ s.todo # {}
    /\ "slot" \in s.todo \/ atomic64 => Halves \subseteq s.todo

Producer(h) ==
    /\ head = Counter(Front(h))
    /\ p.pc = "idle" => p = Idle
    /\ p.pc # "idle" => p.buf \in Bufs
    /\ p.pc = "load" => p.todo \subseteq Halves /\ p.todo # {} /\ (atomic64 => p.todo = Halves)
    /\ p.pc = "store" => h >= 1 /\ p.seen = Counter(h) /\ Storing(p)

Consumer(t) ==
    /\ tail = Counter(Back(t))
    /\ c.pc = "idle" => c = Idle
    /\ c.pc = "load" => /\ "slot" \in c.todo /\ c.todo \cap Halves # {}
                        /\ atomic64 => Halves \subseteq c.todo
    /\ c.pc = "store" => c.seen = Counter(t + 1) /\ Storing(c)

(* Counters in two words: the first is 0, the second as old as its read. *)
TwoWords(h, t) ==
    /\ h < WORD
    /\ p.pc = "load" => h < WORD - 1 /\ p.seen.hi = 0 /\ p.seen.lo <= Back(t)
    /\ c.pc = "load" => c.seen.hi = 0 /\ ("lo" \notin c.todo => c.seen.lo \in t .. Front(h))

(* The consumer has taken its buffer from the slot; the producer has not   *)
(* yet filled it.                                                          *)
Taken == c.pc = "store" /\ "slot" \notin c.todo
Unfilled == p.pc = "store" /\ "slot" \in p.todo

Contents(h, t) ==
    /\ Len(flight) = h - t /\ h - Back(t) <= ring_size
    /\ t <= Front(h) /\ (c.pc = "store" => t < Front(h))
    /\ \A i \in t .. h - 1 :
          ~ (i = t /\ Taken) /\ ~ (i = h - 1 /\ Unfilled) =>
             slots[i % ring_size] = flight[i - t + 1]
    /\ Taken => c.buf = flight[1]
    /\ Unfilled => p.buf = flight[h - t]

At(h, t) ==
    /\ Producer(h) /\ Consumer(t) /\ (~ atomic64 => TwoWords(h, t))
    /\ Contents(h, t)

IInv == Types /\ InOrder /\ \E h, t \in Nat : At(h, t)

-----------------------------------------------------------------------------
(* What head and tail show lies between what was consumed and accepted. *)
LEMMA Ordering ==
  ASSUME NEW h \in Nat, NEW t \in Nat, Types, At(h, t)
  PROVE  /\ Front(h) \in Nat /\ Back(t) \in Nat
         /\ t <= Back(t) /\ Back(t) <= h /\ t <= Front(h) /\ Front(h) <= h
         /\ h - Back(t) <= ring_size /\ h - Back(t) < SEQ_MOD
         /\ c.pc # "store" => Back(t) = t /\ Front(h) - t < SEQ_MOD
BY Positive DEF At, Producer, Consumer, Contents, Front, Back, Storing, Halves

LEMMA SidesOf ==
  ASSUME Types
  PROVE  /\ p.pc \in {"idle", "load", "store"} /\ c.pc \in {"idle", "load", "store"}
         /\ p.seen \in Counters /\ c.seen \in Counters
         /\ p.todo \subseteq {"hi", "lo", "slot"} /\ c.todo \subseteq {"hi", "lo", "slot"}
BY DEF Types, Sides, Halves

LEMMA IdleSide ==
  Idle \in Sides /\ Idle.pc = "idle" /\ Idle.todo = {} /\ Idle.buf = None /\ Idle.seen = Counter(0)
BY CounterNum DEF Idle, Sides

LEMMA InitInv ==
  Init => IInv
<1> SUFFICES ASSUME Init PROVE IInv
  OBVIOUS
<1>1. Idle \in Sides /\ Idle.pc = "idle" /\ Idle.todo = {}
  BY IdleSide
<1>2. Types
  BY <1>1, NetDevRingAssumption DEF Init, Types
<1>3. Front(0) = 0 /\ Back(0) = 0 /\ ~ Taken /\ ~ Unfilled
  BY <1>1 DEF Init, Front, Back, Taken, Unfilled
<1>4. Contents(0, 0)
  BY <1>1, <1>3, Positive DEF Init, Contents
<1>5. Producer(0) /\ Consumer(0)
  BY <1>1, <1>3 DEF Init, Producer, Consumer
<1>6. TwoWords(0, 0)
  BY <1>1, Positive DEF Init, TwoWords
<1>7. InOrder
  BY DEF Init, InOrder
<1> QED
  BY <1>2, <1>4, <1>5, <1>6, <1>7 DEF IInv, At

-----------------------------------------------------------------------------
(* One lemma for each step: it keeps the types, and h and t move with it. *)

LEMMA PublishStep ==
  ASSUME Carry = FALSE, NEW h \in Nat, NEW t \in Nat, Types, At(h, t), NEW b \in Bufs, publish(b)
  PROVE  Types' /\ At(h, t)'
<1>1. /\ p'.pc = "load" /\ p'.todo = Halves /\ p'.buf = b /\ p'.seen = Counter(0) /\ p' \in Sides
      /\ p.pc = "idle" /\ UNCHANGED <<head, tail, slots, atomic64, c, flight, out>>
  BY Zenon, IdleSide DEF publish, Idle, Sides, Halves
<1>2. Types'
  BY <1>1 DEF Types
<1>3. Front(h)' = Front(h) /\ Back(t)' = Back(t) /\ Front(h) = h
  BY <1>1 DEF Front, Back
<1>4. Producer(h)' /\ Consumer(t)'
  BY <1>1, <1>3 DEF At, Producer, Consumer, Storing, Halves
<1>5. Contents(h, t)'
  BY <1>1, <1>3 DEF At, Contents, Taken, Unfilled
<1>6. ~ atomic64' => TwoWords(h, t)'
  <2>1. SUFFICES ASSUME ~ atomic64 PROVE TwoWords(h, t)'
    BY <1>1
  <2>2. TwoWords(h, t) /\ h < WORD /\ head = Counter(h)
    BY <1>3, <2>1 DEF At, TwoWords, Producer
  <2>3. Num(head) = h
    BY <2>2, SmallCounter, Positive DEF Num
  <2>4. h < WORD - 1
    BY <2>1, <2>3 DEF publish
  <2>5. Counter(0) = [hi |-> 0, lo |-> 0]
    BY SmallCounter, Positive
  <2> QED
    BY <1>1, <1>3, <2>2, <2>4, <2>5, Ordering DEF TwoWords
<1> QED
  BY <1>2, <1>4, <1>5, <1>6 DEF At

(* What a load of tail returns, when it is complete. *)
LEMMA LoadedTail ==
  ASSUME NEW h \in Nat, NEW t \in Nat, Types, At(h, t), p.pc = "load",
         NEW ws \in Accesses, ws \subseteq p.todo
  PROVE  LET x == Mixed(p.seen, tail, ws) IN
         /\ x \in Counters
         /\ ~ atomic64 => x.hi = 0 /\ x.lo <= Back(t)
         /\ p.todo \ ws = {} => \E s \in Nat : x = Counter(s) /\ s <= Back(t) /\ h - s < SEQ_MOD
         /\ atomic64 => p.todo \ ws = {}
<1> DEFINE x == Mixed(p.seen, tail, ws)
<1>1. Back(t) \in Nat /\ Back(t) <= h /\ h - Back(t) < SEQ_MOD /\ tail = Counter(Back(t)) /\ tail \in Counters
  BY Ordering, CounterNum DEF At, Consumer
<1>2. p.seen \in Counters
  BY SidesOf
<1>3. x \in Counters
  BY <1>1, <1>2 DEF Mixed, Counters, Halves
<1>4. CASE atomic64
  <2>1. ws = Halves /\ p.todo = Halves
    BY <1>4 DEF Accesses, At, Producer
  <2>2. x = tail
    BY <1>1, <1>2, <2>1, MixedAll
  <2> QED
    BY <1>1, <1>3, <1>4, <2>1, <2>2
<1>5. CASE ~ atomic64
  <2>1. h < WORD /\ p.seen.hi = 0 /\ p.seen.lo <= Back(t)
    BY <1>5 DEF At, TwoWords
  <2>2. tail = [hi |-> 0, lo |-> Back(t)]
    BY <1>1, <2>1, SmallCounter, Positive
  <2>3. x.hi = 0 /\ x.lo <= Back(t) /\ x.lo \in Nat
    BY <1>1, <1>2, <2>1, <2>2 DEF Mixed, Halves, Counters
  <2>4. x = [hi |-> 0, lo |-> x.lo]
    BY <1>3, <2>3 DEF Counters
  <2>5. x = Counter(x.lo)
    BY <1>1, <2>1, <2>3, <2>4, SmallCounter, Positive
  <2>6. WORD <= SEQ_MOD
    BY Positive DEF SEQ_MOD
  <2>7. h - x.lo < SEQ_MOD
    BY <2>1, <2>3, <2>6, Positive
  <2> QED
    BY <1>3, <1>5, <2>3, <2>5, <2>7
<1> QED
  BY <1>4, <1>5

LEMMA PublishLoadStep ==
  ASSUME NEW h \in Nat, NEW t \in Nat, Types, At(h, t), NEW ws \in Accesses, publish_load(ws)
  PROVE  Types' /\ \E k \in Nat : At(k, t)'
<1> DEFINE x == Mixed(p.seen, tail, ws)
           left == p.todo \ ws
<1>1. p.pc = "load" /\ ws \subseteq p.todo /\ UNCHANGED <<head, tail, slots, atomic64, c, out>>
  BY DEF publish_load
<1>2. /\ x \in Counters
      /\ ~ atomic64 => x.hi = 0 /\ x.lo <= Back(t)
      /\ left = {} => \E s \in Nat : x = Counter(s) /\ s <= Back(t) /\ h - s < SEQ_MOD
      /\ atomic64 => left = {}
  BY <1>1, LoadedTail
<1>3. Front(h) = h /\ Back(t)' = Back(t) /\ head = Counter(h) /\ ~ Unfilled /\ p.buf \in Bufs /\ p.todo \subseteq Halves
  BY <1>1 DEF Front, Back, At, Producer, Unfilled
<1>4. \/ left # {} /\ p' = [p EXCEPT !.seen = x, !.todo = left] /\ UNCHANGED flight
      \/ left = {} /\ p' = Idle /\ UNCHANGED flight
      \/ /\ left = {} /\ ~ Full(x) /\ flight' = Append(flight, p.buf)
         /\ p' = [p EXCEPT !.pc = "store", !.seen = Succ(head), !.todo = Halves \cup {"slot"}]
  BY DEF publish_load
<1>5. Consumer(t)'
  BY <1>1, <1>3 DEF At, Consumer, Storing
<1> HIDE DEF x, left
<1>6. CASE left # {} /\ p' = [p EXCEPT !.seen = x, !.todo = left] /\ UNCHANGED flight
  <2>1. /\ p'.pc = "load" /\ p'.seen = x /\ p'.todo = left /\ p'.buf = p.buf /\ p' \in Sides
        /\ left \subseteq Halves
    BY Zenon, <1>1, <1>2, <1>3, <1>6 DEF Types, Sides, Halves, left
  <2>2. Types' /\ Front(h)' = h
    BY <1>1, <1>6, <2>1 DEF Types, Front
  <2>3. Producer(h)'
    BY <1>1, <1>2, <1>3, <1>6, <2>1, <2>2 DEF Producer
  <2>4. Contents(h, t)'
    BY <1>1, <1>3, <1>6, <2>1, <2>2 DEF At, Contents, Taken, Unfilled
  <2>5. ~ atomic64' => TwoWords(h, t)'
    BY <1>1, <1>2, <1>3, <2>1, <2>2 DEF At, TwoWords
  <2> QED
    BY <1>5, <2>2, <2>3, <2>4, <2>5 DEF At
<1>7. CASE left = {} /\ p' = Idle /\ UNCHANGED flight
  <2>1. p'.pc = "idle" /\ p' \in Sides
    BY <1>7, IdleSide
  <2>2. Types' /\ Front(h)' = h
    BY <1>1, <1>7, <2>1 DEF Types, Front
  <2>3. Producer(h)'
    BY <1>1, <1>3, <1>7, <2>1, <2>2 DEF Producer
  <2>4. Contents(h, t)'
    BY <1>1, <1>3, <1>7, <2>1, <2>2 DEF At, Contents, Taken, Unfilled
  <2>5. ~ atomic64' => TwoWords(h, t)'
    BY <1>1, <1>3, <2>1, <2>2 DEF At, TwoWords
  <2> QED
    BY <1>5, <2>2, <2>3, <2>4, <2>5 DEF At
<1>8. CASE /\ left = {} /\ ~ Full(x) /\ flight' = Append(flight, p.buf)
           /\ p' = [p EXCEPT !.pc = "store", !.seen = Succ(head), !.todo = Halves \cup {"slot"}]
  <2> PICK k \in Nat : k = h + 1
    OBVIOUS
  <2>1. Succ(head) = Counter(k) /\ Counter(k) \in Counters
    BY <1>3, SuccIs, CounterNum
  <2>2. /\ p'.pc = "store" /\ p'.seen = Counter(k) /\ p'.todo = Halves \cup {"slot"} /\ p'.buf = p.buf
        /\ p' \in Sides
    BY Zenon, <1>1, <1>3, <1>8, <2>1 DEF Types, Sides, Halves
  <2>3. h - Back(t) < ring_size
    <3>1. PICK s \in Nat : x = Counter(s) /\ s <= Back(t) /\ h - s < SEQ_MOD
      BY <1>2, <1>8
    <3>2. s <= h /\ h < s + SEQ_MOD /\ Back(t) \in Nat /\ SEQ_MOD \in Int
      BY <3>1, Ordering, Positive
    <3>3. Minus(head, x) = h - s
      BY <1>3, <3>1, <3>2, MinusIs
    <3> QED
      BY <1>8, <3>1, <3>2, <3>3, Positive DEF Full
  <2>4. Types' /\ Front(k)' = h
    BY SMTT(30), <1>1, <1>3, <1>8, <2>2 DEF Types, Front, Halves
  <2>5. Producer(k)'
    BY <1>1, <1>3, <2>2, <2>4 DEF Producer, Storing, Halves
  <2>6. Contents(k, t)'
    <3>1. /\ Len(flight) = h - t /\ Len(flight') = k - t /\ flight'[k - t] = p.buf
          /\ \A i \in 1 .. h - t : flight'[i] = flight[i]
      BY <1>3, <1>8 DEF At, Contents, Types
    <3>2. Taken' = Taken /\ Unfilled' /\ c' = c /\ slots' = slots
      BY <1>1, <2>2 DEF Taken, Unfilled
    <3>3. k - Back(t)' <= ring_size /\ t <= h /\ (c'.pc = "store" => t < h)
      <4>1. Back(t) \in Nat /\ ring_size \in Int /\ Back(t)' = Back(t)
        BY <1>3, Ordering, Positive
      <4>2. k - Back(t)' <= ring_size
        BY <2>3, <4>1
      <4>3. t <= h /\ (c'.pc = "store" => t < h)
        BY <1>1, <1>3 DEF At, Contents
      <4> QED
        BY <4>2, <4>3
    <3>4. \A i \in t .. h : ~ (i = t /\ Taken) /\ i # h => slots[i % ring_size] = flight'[i - t + 1]
      BY <1>3, <3>1 DEF At, Contents
    <3>5. Taken => c.buf = flight'[1]
      BY <1>3, <3>1, <3>3, <3>2 DEF At, Contents, Taken
    <3>6. \A i \in t .. k - 1 :
             ~ (i = t /\ Taken') /\ ~ (i = k - 1 /\ Unfilled') => slots'[i % ring_size] = flight'[i - t + 1]
      BY <3>2, <3>4
    <3>7. t <= Front(k)' /\ (c'.pc = "store" => t < Front(k)')
      BY <2>4, <3>3
    <3>9. (Taken' => c'.buf = flight'[1]) /\ (Unfilled' => p'.buf = flight'[k - t])
      BY <2>2, <3>1, <3>2, <3>5
    <3> QED
      BY <3>1, <3>3, <3>6, <3>7, <3>9, Zenon DEF Contents
  <2>7. ~ atomic64' => TwoWords(k, t)'
    BY <1>1, <1>3, <2>2, <2>4, Positive DEF At, TwoWords
  <2>8. At(k, t)' 
    BY <1>5, <2>5, <2>6, <2>7 DEF At
  <2> QED
    BY <2>4, <2>8
<1> QED
  BY <1>4, <1>6, <1>7, <1>8

LEMMA PublishSlotStep ==
  ASSUME NEW h \in Nat, NEW t \in Nat, Types, At(h, t), publish_slot
  PROVE  Types' /\ At(h, t)'
<1>1. /\ p.pc = "store" /\ "slot" \in p.todo /\ UNCHANGED <<head, tail, atomic64, c, flight, out>>
      /\ h >= 1 /\ p.seen = Counter(h) /\ Halves \subseteq p.todo /\ p.buf \in Bufs
  BY DEF publish_slot, At, Producer, Storing
<1>2. p' = [p EXCEPT !.todo = p.todo \ {"slot"}]
  BY <1>1 DEF publish_slot, ProducerDone, Halves
<1>3. /\ p'.pc = "store" /\ p'.todo = p.todo \ {"slot"} /\ p'.seen = p.seen /\ p'.buf = p.buf /\ p' \in Sides
      /\ Halves \subseteq p'.todo /\ "slot" \notin p'.todo
  BY <1>1, <1>2 DEF Types, Sides, Halves
<1> PICK n \in Nat : h = n + 1
  <2>1. h - 1 \in Nat /\ h = (h - 1) + 1
    BY <1>1
  <2> QED
    BY <2>1
<1>4. slots' = [slots EXCEPT ![n % ring_size] = p.buf] /\ n % ring_size \in 0 .. ring_size - 1
  BY Zenon, <1>1, SlotIs DEF publish_slot
<1>5. Types'
  BY <1>1, <1>3, <1>4 DEF Types
<1>6. Front(h)' = Front(h) /\ Front(h) = n /\ Back(t)' = Back(t)
  BY <1>1, <1>3 DEF Front, Back, Halves
<1>7. Producer(h)' /\ Consumer(t)'
  BY <1>1, <1>3, <1>6 DEF At, Producer, Consumer, Storing, Halves
<1>8. ~ atomic64' => TwoWords(h, t)'
  BY <1>1, <1>3, <1>6 DEF At, TwoWords
<1>9. Contents(h, t)'
  <2>1. ~ Unfilled' /\ (Taken' <=> Taken) /\ Unfilled /\ p.buf = flight[h - t]
    BY <1>1, <1>3 DEF Taken, Unfilled, At, Contents
  <2>2. \A i \in t .. h - 1 : ~ (i = t /\ Taken) => slots'[i % ring_size] = flight[i - t + 1]
    <3> SUFFICES ASSUME NEW i \in t .. h - 1, ~ (i = t /\ Taken)
                 PROVE  slots'[i % ring_size] = flight[i - t + 1]
      OBVIOUS
    <3>1. CASE i = n
      <4>1. i - t + 1 = h - t
        BY <3>1
      <4> QED
        BY <1>4, <2>1, <3>1, <4>1 DEF Types
    <3>2. CASE i # n
      <4>1. i \in Nat /\ i < n /\ Back(t) <= i
        BY <3>2 DEF Back, Taken, At, Consumer, Storing, Halves
      <4>2. n < i + ring_size
        BY <4>1, Ordering, Positive
      <4>3. i % ring_size # n % ring_size
        BY <4>1, <4>2, ModApart, Positive
      <4>4. i % ring_size \in 0 .. ring_size - 1
        BY <4>1, SlotIs
      <4>5. slots'[i % ring_size] = slots[i % ring_size]
        BY <1>4, <4>3, <4>4 DEF Types
      <4> QED
        BY <3>2, <4>1, <4>5 DEF At, Contents
    <3> QED
      BY <3>1, <3>2
  <2> QED
    BY <1>1, <1>6, <2>1, <2>2 DEF At, Contents
<1> QED
  BY <1>5, <1>7, <1>8, <1>9 DEF At

(* head and tail step from one number to the next, one word after the other. *)
LEMMA StoredCounter ==
  ASSUME NEW n \in Nat, NEW ws \in Accesses, NEW todo, ws \subseteq todo, todo \subseteq Halves,
         atomic64 => todo = Halves, ~ atomic64 => n + 1 < WORD
  PROVE  Mixed(Counter(IF "lo" \in todo THEN n ELSE n + 1), Counter(n + 1), ws) =
            Counter(IF "lo" \in todo \ ws THEN n ELSE n + 1)
<1> DEFINE x == Counter(n)
           y == Counter(n + 1)
<1>1. x \in Counters /\ y \in Counters
  BY CounterNum
<1>2. CASE atomic64
  <2>1. ws = Halves /\ todo = Halves
    BY <1>2 DEF Accesses
  <2>2. Mixed(x, y, Halves) = y
    BY <1>1, MixedAll
  <2> HIDE DEF x, y
  <2> QED
    BY <2>1, <2>2 DEF Halves, x, y
<1>3. CASE ~ atomic64
  <2>1. x = [hi |-> 0, lo |-> n] /\ y = [hi |-> 0, lo |-> n + 1]
    BY <1>3, SmallCounter, Positive
  <2>2. n + 1 \in Nat
    OBVIOUS
  <2> HIDE DEF x, y
  <2>3. Mixed(x, y, {"hi"}) = x /\ Mixed(x, y, {"lo"}) = y /\ Mixed(y, y, {"hi"}) = y /\ Mixed(y, y, {"lo"}) = y
    BY <2>1, <2>2, MixedSmall
  <2>4. ws = {"hi"} \/ ws = {"lo"}
    BY <1>3 DEF Accesses
  <2> QED
    BY <2>3, <2>4 DEF x, y
<1> QED
  BY <1>2, <1>3

LEMMA PublishHeadStep ==
  ASSUME Ordered = TRUE, NEW h \in Nat, NEW t \in Nat, Types, At(h, t),
         NEW ws \in Accesses, publish_head(ws)
  PROVE  Types' /\ InOrder' /\ At(h, t)'
<1> DEFINE left == p.todo \ ws
<1>1. /\ p.pc = "store" /\ ws \subseteq p.todo /\ "slot" \notin p.todo /\ p.todo \subseteq Halves
      /\ UNCHANGED <<tail, slots, atomic64, c, flight>>
  BY SidesOf DEF publish_head, ReleaseOK, Halves
<1>2. h >= 1 /\ p.seen = Counter(h) /\ (atomic64 => p.todo = Halves) /\ p.buf \in Bufs
  BY <1>1 DEF At, Producer, Storing
<1> PICK n \in Nat : h = n + 1
  <2>1. h - 1 \in Nat /\ h = (h - 1) + 1
    BY <1>2
  <2> QED
    BY <2>1
<1>3. ~ atomic64 => n + 1 < WORD
  BY DEF At, TwoWords
<1>4. head = Counter(IF "lo" \in p.todo THEN n ELSE n + 1)
  BY <1>1 DEF At, Producer, Front
<1>5. head' = Counter(IF "lo" \in left THEN n ELSE n + 1)
  BY <1>1, <1>2, <1>3, <1>4, StoredCounter DEF publish_head
<1>6. \/ left = {} /\ p' = Idle
      \/ left # {} /\ p' = [p EXCEPT !.todo = left]
  BY DEF publish_head, ProducerDone
<1>7. InOrder'
  BY DEF publish_head, InOrder
<1>8. /\ p' \in Sides /\ (p'.pc = "idle" => p' = Idle) /\ p'.pc # "load"
      /\ p'.pc = "store" => left # {} /\ p'.seen = p.seen /\ p'.todo = left /\ p'.buf = p.buf
      /\ p'.pc # "store" => left = {} /\ p'.pc = "idle"
  BY <1>1, <1>6, IdleSide DEF Types, Sides, Halves
<1>9. left \subseteq Halves /\ (atomic64 => left = {})
  BY <1>1, <1>2 DEF Accesses, Halves
<1>10. Types'
  BY <1>1, <1>8 DEF Types
<1>11. Front(h)' = (IF "lo" \in left THEN n ELSE n + 1) /\ Front(h) <= Front(h)' /\ Back(t)' = Back(t)
  BY <1>1, <1>8 DEF Front, Back
<1> HIDE DEF left
<1>12. Producer(h)'
  BY Zenon, <1>1, <1>2, <1>5, <1>8, <1>9, <1>11 DEF Producer, Storing, Halves
<1>13. Consumer(t)'
  BY <1>1, <1>11 DEF At, Consumer, Storing
<1>14. ~ atomic64' => TwoWords(h, t)'
  BY <1>1, <1>8, <1>11, Ordering, SidesOf DEF At, TwoWords, Counters
<1>15. Contents(h, t)'
  <2>1. ~ Unfilled /\ ~ Unfilled' /\ (Taken' <=> Taken)
    BY <1>1, <1>8, <1>9 DEF Taken, Unfilled, Halves
  <2>2. t <= Front(h)' /\ (c.pc = "store" => t < Front(h)')
    BY <1>11, Ordering DEF At, Contents
  <2> QED
    BY <1>1, <1>11, <2>1, <2>2 DEF At, Contents
<1> QED
  BY <1>7, <1>10, <1>12, <1>13, <1>14, <1>15 DEF At

LEMMA ConsumeStep ==
  ASSUME NEW h \in Nat, NEW t \in Nat, Types, At(h, t), consume
  PROVE  Types' /\ At(h, t)'
<1>1. /\ c'.pc = "load" /\ c'.todo = Halves \cup {"slot"} /\ c'.seen = Counter(0) /\ c' \in Sides
      /\ c.pc = "idle" /\ UNCHANGED <<head, tail, slots, atomic64, p, flight, out>>
  BY Zenon, IdleSide DEF consume, Idle, Sides, Halves
<1>2. Types'
  BY <1>1 DEF Types
<1>3. Front(h)' = Front(h) /\ Back(t)' = Back(t)
  BY <1>1 DEF Front, Back
<1>4. Producer(h)' /\ Consumer(t)'
  BY <1>1, <1>3 DEF At, Producer, Consumer, Storing, Halves
<1>5. Contents(h, t)'
  BY <1>1, <1>3 DEF At, Contents, Taken, Unfilled
<1>6. Counter(0) = [hi |-> 0, lo |-> 0]
  BY SmallCounter, Positive
<1>7. ~ atomic64' => TwoWords(h, t)'
  BY <1>1, <1>3, <1>6 DEF At, TwoWords, Halves
<1> QED
  BY <1>2, <1>4, <1>5, <1>7 DEF At

(* What a load of head returns, when it is complete. *)
LEMMA LoadedHead ==
  ASSUME NEW h \in Nat, NEW t \in Nat, Types, At(h, t), c.pc = "load",
         NEW ws \in Accesses, ws \subseteq c.todo
  PROVE  LET x    == Mixed(c.seen, head, ws)
             left == c.todo \ ws
         IN
         /\ x \in Counters
         /\ ~ atomic64 => x.hi = 0 /\ ("lo" \notin left => x.lo \in t .. Front(h))
         /\ left \cap Halves = {} /\ x # tail => t < Front(h)
         /\ atomic64 => left \cap Halves = {}
<1> DEFINE x    == Mixed(c.seen, head, ws)
           left == c.todo \ ws
<1>1. /\ Front(h) \in Nat /\ t <= Front(h) /\ Front(h) <= h /\ head = Counter(Front(h)) /\ head \in Counters
      /\ Front(h) - t < SEQ_MOD /\ tail = Counter(t)
  BY Ordering, CounterNum DEF At, Producer, Consumer
<1>2. c.seen \in Counters
  BY SidesOf
<1>3. x \in Counters
  BY <1>1, <1>2 DEF Mixed, Counters, Halves
<1>4. CASE atomic64
  <2>1. ws = Halves /\ left \cap Halves = {}
    BY <1>4 DEF Accesses
  <2>2. x = head
    BY <1>1, <1>2, <2>1, MixedAll
  <2> QED
    BY <1>1, <1>3, <1>4, <2>1, <2>2
<1>5. CASE ~ atomic64
  <2>1. h < WORD /\ c.seen.hi = 0 /\ ("lo" \notin c.todo => c.seen.lo \in t .. Front(h))
    BY <1>5 DEF At, TwoWords
  <2>2. head = [hi |-> 0, lo |-> Front(h)] /\ tail = [hi |-> 0, lo |-> t]
    BY <1>1, <2>1, SmallCounter, Positive
  <2>3. x.hi = 0 /\ ("lo" \notin left => x.lo \in t .. Front(h))
    BY <1>1, <1>2, <2>1, <2>2 DEF Mixed, Halves, Counters
  <2>4. x = [hi |-> 0, lo |-> x.lo]
    BY <1>3, <2>3 DEF Counters
  <2>5. ASSUME left \cap Halves = {}, x # tail PROVE t < Front(h)
    <3>1. x.lo \in t .. Front(h) /\ x.lo # t
      BY <2>2, <2>3, <2>4, <2>5 DEF Halves
    <3> QED
      BY <1>1, <3>1
  <2> QED
    BY <1>3, <1>5, <2>3, <2>5
<1> QED
  BY <1>4, <1>5

LEMMA ConsumeLoadStep ==
  ASSUME NEW h \in Nat, NEW t \in Nat, Types, At(h, t), NEW ws \in Accesses, consume_load(ws)
  PROVE  Types' /\ At(h, t)'
<1> DEFINE x    == Mixed(c.seen, head, ws)
           left == c.todo \ ws
<1>1. /\ c.pc = "load" /\ ws \subseteq c.todo /\ "slot" \in left /\ left \subseteq Halves \cup {"slot"}
      /\ UNCHANGED <<head, tail, slots, atomic64, p, flight, out>>
  BY SidesOf DEF consume_load, At, Consumer, Accesses, Halves
<1>2. /\ x \in Counters
      /\ ~ atomic64 => x.hi = 0 /\ ("lo" \notin left => x.lo \in t .. Front(h))
      /\ left \cap Halves = {} /\ x # tail => t < Front(h)
      /\ atomic64 => left \cap Halves = {}
  BY <1>1, LoadedHead
<1>3. Front(h)' = Front(h) /\ Back(t) = t /\ tail = Counter(t) /\ ~ Taken
  BY <1>1 DEF Front, Back, At, Consumer, Taken
<1>4. \/ left \cap Halves # {} /\ c' = [c EXCEPT !.seen = x, !.todo = left]
      \/ c' = Idle
      \/ /\ left \cap Halves = {} /\ x # tail
         /\ c' = [c EXCEPT !.pc = "store", !.seen = Succ(tail), !.todo = left \cup Halves]
  BY DEF consume_load
<1>5. Producer(h)'
  BY <1>1, <1>3 DEF At, Producer, Storing
<1> HIDE DEF x, left
<1>6. Succ(tail) = Counter(t + 1) /\ Counter(t + 1) \in Counters
  BY <1>3, SuccIs, CounterNum
<1>7. /\ c' \in Sides /\ (c'.pc = "idle" => c' = Idle)
      /\ c'.pc = "load" => c'.seen = x /\ c'.todo = left /\ left \cap Halves # {}
      /\ c'.pc = "store" => /\ c'.seen = Counter(t + 1) /\ c'.todo = left \cup Halves
                            /\ left \cap Halves = {} /\ x # tail
  <2>1. CASE left \cap Halves # {} /\ c' = [c EXCEPT !.seen = x, !.todo = left]
    <3>1. c'.pc = "load" /\ c'.seen = x /\ c'.todo = left /\ c' \in Sides
      BY Zenon, <1>1, <1>2, <2>1 DEF Types, Sides
    <3> QED
      BY <2>1, <3>1
  <2>2. CASE c' = Idle
    BY <2>2, IdleSide
  <2>3. CASE /\ left \cap Halves = {} /\ x # tail
             /\ c' = [c EXCEPT !.pc = "store", !.seen = Succ(tail), !.todo = left \cup Halves]
    <3>1. c'.pc = "store" /\ c'.seen = Counter(t + 1) /\ c'.todo = left \cup Halves /\ c' \in Sides
      BY Zenon, <1>1, <1>6, <2>3 DEF Types, Sides, Halves
    <3> QED
      BY <2>3, <3>1
  <2> QED
    BY <1>4, <2>1, <2>2, <2>3
<1>8. Types'
  BY <1>1, <1>7 DEF Types
<1>9. Back(t)' = t /\ ~ Taken' /\ (c'.pc = "store" => t < Front(h))
  BY <1>1, <1>2, <1>7 DEF Back, Taken, Halves
<1>10. Consumer(t)'
  BY <1>1, <1>2, <1>3, <1>7, <1>9 DEF Consumer, Storing, Halves
<1>11. ~ atomic64' => TwoWords(h, t)'
  BY <1>1, <1>2, <1>3, <1>7, <1>9 DEF At, TwoWords
<1>12. Contents(h, t)'
  BY <1>1, <1>3, <1>9 DEF At, Contents, Unfilled
<1> QED
  BY <1>5, <1>8, <1>10, <1>11, <1>12 DEF At

LEMMA ConsumeSlotStep ==
  ASSUME Ordered = TRUE, NEW h \in Nat, NEW t \in Nat, Types, At(h, t), consume_slot
  PROVE  Types' /\ At(h, t)' /\ UNCHANGED out
<1>1. /\ c.pc = "store" /\ "slot" \in c.todo /\ Halves \subseteq c.todo /\ c.seen = Counter(t + 1)
      /\ UNCHANGED <<head, tail, slots, atomic64, p>>
  BY DEF consume_slot, AcquireOK, At, Consumer, Storing
<1>2. SlotToRead = t % ring_size /\ t % ring_size \in 0 .. ring_size - 1
  BY <1>1, SlotIs DEF SlotToRead
<1>3. c' = [c EXCEPT !.todo = c.todo \ {"slot"}, !.buf = slots[t % ring_size]] /\ UNCHANGED <<flight, out>>
  BY <1>1, <1>2 DEF consume_slot, ConsumerDone, Halves
<1>4. /\ c'.pc = "store" /\ c'.todo = c.todo \ {"slot"} /\ c'.seen = c.seen /\ c'.buf = slots[t % ring_size]
      /\ c' \in Sides /\ Halves \subseteq c'.todo
  BY Zenon, <1>1, <1>2, <1>3 DEF Types, Sides, Halves
<1>5. Types'
  BY <1>1, <1>3, <1>4 DEF Types
<1>6. Front(h)' = Front(h) /\ Back(t)' = Back(t)
  BY <1>1, <1>4 DEF Front, Back, Halves
<1>7. Producer(h)' /\ Consumer(t)'
  BY <1>1, <1>4, <1>6 DEF At, Producer, Consumer, Storing, Halves
<1>8. ~ atomic64' => TwoWords(h, t)'
  BY <1>1, <1>4, <1>6 DEF At, TwoWords
<1>9. slots[t % ring_size] = flight[1]
  <2>1. t < Front(h) /\ Front(h) <= h /\ Front(h) \in Nat /\ ~ Taken
    BY <1>1, Ordering DEF At, Contents, Taken
  <2>2. ~ (t = h - 1 /\ Unfilled)
    BY <2>1 DEF Unfilled, Front, At, Producer, Storing, Halves
  <2>3. t \in t .. h - 1 /\ t - t + 1 = 1
    BY <2>1
  <2> QED
    BY <2>1, <2>2, <2>3 DEF At, Contents
<1>10. Contents(h, t)'
  <2>1. Taken' /\ ~ Taken /\ (Unfilled' <=> Unfilled)
    BY <1>1, <1>4 DEF Taken, Unfilled
  <2> QED
    BY <1>1, <1>3, <1>4, <1>6, <1>9, <2>1 DEF At, Contents
<1> QED
  BY <1>3, <1>5, <1>7, <1>8, <1>10 DEF At

LEMMA ConsumeTailStep ==
  ASSUME Ordered = TRUE, NEW h \in Nat, NEW t \in Nat, Types, InOrder, At(h, t),
         NEW ws \in Accesses, consume_tail(ws)
  PROVE  Types' /\ InOrder' /\ \E k \in Nat : At(h, k)'
<1> DEFINE left == c.todo \ ws
<1>1. /\ c.pc = "store" /\ ws \subseteq c.todo /\ "slot" \notin c.todo /\ c.todo \subseteq Halves
      /\ UNCHANGED <<head, slots, atomic64, p>>
  BY SidesOf DEF consume_tail, Halves
<1>2. /\ c.seen = Counter(t + 1) /\ (atomic64 => c.todo = Halves)
      /\ t < Front(h) /\ Front(h) <= h /\ Front(h) \in Nat /\ c.buf = flight[1] /\ Taken
  BY Zenon, <1>1, Ordering DEF At, Consumer, Storing, Contents, Taken
<1>3. ~ atomic64 => t + 1 < WORD
  BY <1>2, Positive DEF At, TwoWords
<1>4. tail = Counter(IF "lo" \in c.todo THEN t ELSE t + 1)
  BY <1>1 DEF At, Consumer, Back
<1>5. tail' = Counter(IF "lo" \in left THEN t ELSE t + 1)
  BY Zenon, <1>1, <1>2, <1>3, <1>4, StoredCounter DEF consume_tail
<1>6. \/ left = {} /\ c' = Idle /\ out' = [got |-> c.buf, due |-> IF flight = <<>> THEN None ELSE Head(flight)]
         /\ flight' = IF flight = <<>> THEN <<>> ELSE Tail(flight)
      \/ left # {} /\ c' = [c EXCEPT !.todo = left, !.buf = c.buf] /\ UNCHANGED <<flight, out>>
  BY DEF consume_tail, ConsumerDone
<1>7. left \subseteq Halves /\ (atomic64 => left = {})
  BY <1>1, <1>2 DEF Accesses, Halves
<1>8. Front(h)' = Front(h) /\ Producer(h)' /\ (Unfilled' <=> Unfilled)
  BY <1>1 DEF Front, At, Producer, Storing, Unfilled
<1> HIDE DEF left
<1>9. CASE left # {} /\ c' = [c EXCEPT !.todo = left, !.buf = c.buf] /\ UNCHANGED <<flight, out>>
  <2>1. c'.pc = "store" /\ c'.todo = left /\ c'.seen = c.seen /\ c'.buf = c.buf /\ c' \in Sides
    BY Zenon, <1>1, <1>7, <1>9 DEF Types, Sides, Halves
  <2>2. Types' /\ InOrder'
    BY <1>1, <1>9, <2>1 DEF Types, InOrder
  <2>3. Back(t)' = (IF "lo" \in left THEN t ELSE t + 1) /\ Back(t) <= Back(t)'
    BY <1>1, <2>1 DEF Back, left
  <2>4. Consumer(t)'
    BY <1>1, <1>2, <1>5, <1>7, <1>9, <2>1, <2>3 DEF Consumer, Storing, Halves
  <2>5. ~ atomic64' => TwoWords(h, t)'
    BY <1>1, <1>8, <2>1, <2>3, Ordering, SidesOf DEF At, TwoWords, Counters
  <2>6. Taken'
    BY <1>7, <2>1 DEF Taken, Halves
  <2>7. h - Back(t)' <= ring_size
    <3> DEFINE b == Back(t)
               d == Back(t)'
    <3>1. b \in Nat /\ d \in Nat /\ b <= d /\ h - b <= ring_size /\ ring_size \in Int
      BY <2>3, Ordering, Positive
    <3> HIDE DEF b, d
    <3>2. h - d <= ring_size
      BY <3>1
    <3> QED
      BY <3>2 DEF d
  <2>8. Contents(h, t)'
    BY <1>1, <1>2, <1>8, <1>9, <2>1, <2>6, <2>7 DEF At, Contents
  <2> QED
    BY <1>8, <2>2, <2>4, <2>5, <2>8 DEF At
<1>10. CASE /\ left = {} /\ c' = Idle /\ out' = [got |-> c.buf, due |-> IF flight = <<>> THEN None ELSE Head(flight)]
            /\ flight' = IF flight = <<>> THEN <<>> ELSE Tail(flight)
  <2> PICK k \in Nat : k = t + 1
    OBVIOUS
  <2>1. flight \in Seq(Bufs) /\ Len(flight) = h - t /\ flight # <<>>
    BY <1>2 DEF Types, At, Contents
  <2>2. /\ flight' = Tail(flight) /\ flight' \in Seq(Bufs) /\ Len(flight') = h - k
        /\ \A i \in 1 .. h - k : flight'[i] = flight[i + 1]
    BY <1>10, <2>1
  <2>3. InOrder'
    BY <1>2, <1>10, <2>1 DEF InOrder
  <2>4. c'.pc = "idle" /\ c' = Idle /\ c' \in Sides
    BY <1>10, IdleSide
  <2>5. Types'
    BY <1>1, <2>2, <2>4 DEF Types
  <2>6. Back(k)' = k /\ Back(t) <= k /\ ~ Taken' /\ tail' = Counter(k)
    BY <1>5, <1>10, <2>4 DEF Back, Taken
  <2>7. Consumer(k)'
    BY <2>4, <2>6 DEF Consumer
  <2>8. ~ atomic64' => TwoWords(h, k)'
    BY <1>1, <1>8, <2>4, <2>6, Ordering, SidesOf DEF At, TwoWords, Counters
  <2>9. Contents(h, k)'
    <3>1. h - k <= ring_size /\ k <= Front(h)
      BY <1>2, <2>6, Ordering, Positive
    <3>2. \A i \in k .. h - 1 : ~ (i = h - 1 /\ Unfilled) => slots[i % ring_size] = flight'[i - k + 1]
      <4> SUFFICES ASSUME NEW i \in k .. h - 1, ~ (i = h - 1 /\ Unfilled)
                   PROVE  slots[i % ring_size] = flight'[i - k + 1]
        OBVIOUS
      <4>1. slots[i % ring_size] = flight[i - t + 1]
        BY DEF At, Contents
      <4>2. i - k + 1 \in 1 .. h - k /\ (i - k + 1) + 1 = i - t + 1
        OBVIOUS
      <4> QED
        BY <2>2, <4>1, <4>2
    <3>3. Unfilled => p.buf = flight'[h - k]
      <4> SUFFICES ASSUME Unfilled PROVE p.buf = flight'[h - k]
        OBVIOUS
      <4>1. Front(h) = h - 1 /\ p.buf = flight[h - t]
        BY DEF Unfilled, Front, At, Producer, Storing, Halves, Contents
      <4>2. h - k \in 1 .. h - k /\ (h - k) + 1 = h - t
        BY <1>2, <4>1
      <4> QED
        BY <2>2, <4>1, <4>2
    <3> QED
      BY Zenon, <1>1, <1>8, <2>2, <2>4, <2>6, <3>1, <3>2, <3>3 DEF Contents
  <2>10. At(h, k)'
    BY <1>8, <2>7, <2>8, <2>9 DEF At
  <2> QED
    BY <2>3, <2>5, <2>10
<1> QED
  BY <1>6, <1>9, <1>10

LEMMA NextInv ==
  ASSUME Ordered = TRUE, Carry = FALSE
  PROVE  IInv /\ [Next]_vars => IInv'
<1> SUFFICES ASSUME IInv, [Next]_vars PROVE IInv'
  OBVIOUS
<1> PICK h \in Nat, t \in Nat : At(h, t)
  BY DEF IInv
<1> USE DEF IInv
<1>1. ASSUME NEW b \in Bufs, publish(b) PROVE IInv'
  <2>1. Types' /\ At(h, t)'
    BY Zenon, <1>1, PublishStep
  <2>2. InOrder'
    BY <1>1 DEF publish, InOrder
  <2> QED
    BY <2>1, <2>2
<1>2. CASE publish_slot
  <2>1. Types' /\ At(h, t)'
    BY <1>2, PublishSlotStep
  <2>2. InOrder'
    BY <1>2 DEF publish_slot, InOrder
  <2> QED
    BY <2>1, <2>2
<1>3. CASE consume
  <2>1. Types' /\ At(h, t)'
    BY <1>3, ConsumeStep
  <2>2. InOrder'
    BY <1>3 DEF consume, InOrder
  <2> QED
    BY <2>1, <2>2
<1>4. CASE consume_slot
  <2>1. Types' /\ At(h, t)' /\ UNCHANGED out
    BY <1>4, ConsumeSlotStep
  <2>2. InOrder'
    BY <2>1 DEF InOrder
  <2> QED
    BY <2>1, <2>2
<1>5. ASSUME NEW ws \in Accesses, publish_load(ws) PROVE IInv'
  <2>1. Types' /\ \E k \in Nat : At(k, t)'
    BY <1>5, PublishLoadStep
  <2>2. InOrder'
    BY <1>5 DEF publish_load, InOrder
  <2> QED
    BY <2>1, <2>2
<1>6. ASSUME NEW ws \in Accesses, publish_head(ws) PROVE IInv'
  <2>1. Types' /\ InOrder' /\ At(h, t)'
    BY <1>6, PublishHeadStep
  <2> QED
    BY <2>1
<1>7. ASSUME NEW ws \in Accesses, consume_load(ws) PROVE IInv'
  <2>1. Types' /\ At(h, t)'
    BY <1>7, ConsumeLoadStep
  <2>2. InOrder'
    BY <1>7 DEF consume_load, InOrder
  <2> QED
    BY <2>1, <2>2
<1>8. ASSUME NEW ws \in Accesses, consume_tail(ws) PROVE IInv'
  <2>1. Types' /\ InOrder' /\ \E k \in Nat : At(h, k)'
    BY <1>8, ConsumeTailStep
  <2> QED
    BY <2>1
<1>9. CASE UNCHANGED vars
  <2>1. Types' /\ InOrder'
    BY <1>9 DEF vars, Types, InOrder
  <2>2. Front(h)' = Front(h) /\ Back(t)' = Back(t) /\ Taken' = Taken /\ Unfilled' = Unfilled
    BY <1>9 DEF vars, Front, Back, Taken, Unfilled
  <2>3. Producer(h)' /\ Consumer(t)'
    BY <1>9, <2>2 DEF vars, At, Producer, Consumer, Storing
  <2>4. ~ atomic64' => TwoWords(h, t)'
    BY Zenon, <1>9, <2>2 DEF vars, At, TwoWords
  <2>5. Contents(h, t)'
    BY <1>9, <2>2 DEF vars, At, Contents
  <2> QED
    BY <2>1, <2>3, <2>4, <2>5 DEF At
<1> QED
  BY <1>1, <1>2, <1>3, <1>4, <1>5, <1>6, <1>7, <1>8, <1>9 DEF Next

LEMMA RingInv ==
  ASSUME Ordered = TRUE, Carry = FALSE
  PROVE  Spec => []IInv
<1>1. Init => IInv
  BY InitInv
<1>2. IInv /\ [Next]_vars => IInv'
  BY Zenon, NextInv
<1> QED
  BY <1>1, <1>2, PTL DEF Spec

-----------------------------------------------------------------------------
(* netdev_ring_publish and netdev_ring_consume called at once, with the    *)
(* barriers they have and a platform that orders by them: every consume    *)
(* that succeeds returns the oldest buffer published and not yet consumed. *)
(* True of 64-bit counters read and written at once, whatever they have    *)
(* counted to and however often they wrap, and of counters accessed a word *)
(* at a time until the first carry, for every ring size.                   *)
THEOREM RingInOrder ==
  ASSUME Ordered = TRUE, Carry = FALSE
  PROVE  Spec => []InOrder
<1>1. IInv => InOrder
  BY DEF IInv
<1> QED
  BY <1>1, RingInv, PTL

(* netdev_ring_publish's store to slots[head & mask] and                   *)
(* netdev_ring_consume's read of slots[tail & mask] never meet in one slot *)
(* when both are still to come.                                            *)
THEOREM RingSlotsApart ==
  ASSUME Ordered = TRUE, Carry = FALSE
  PROVE  Spec => []SlotsApart
<1>1. IInv => SlotsApart
  <2> SUFFICES ASSUME IInv, p.pc = "store", "slot" \in p.todo, c.pc = "store", "slot" \in c.todo
               PROVE  (Num(p.seen) + SEQ_MOD - 1) % ring_size # SlotToRead
    BY DEF SlotsApart
  <2> PICK h \in Nat, t \in Nat : At(h, t)
    BY SMTT(30) DEF IInv
  <2>1. /\ h >= 1 /\ p.seen = Counter(h) /\ c.seen = Counter(t + 1)
        /\ Front(h) = h - 1 /\ Back(t) = t /\ t < Front(h)
    BY DEF At, Producer, Consumer, Contents, Storing, Front, Back, Halves
  <2>2. Types /\ h - t <= ring_size
    BY <2>1, Ordering DEF IInv
  <2> PICK n \in Nat : h = n + 1
    <3>1. h - 1 \in Nat /\ h = (h - 1) + 1
      BY <2>1
    <3> QED
      BY <3>1
  <2>3. (Num(p.seen) + SEQ_MOD - 1) % ring_size = n % ring_size /\ SlotToRead = t % ring_size
    BY <2>1, SlotIs DEF SlotToRead
  <2>4. t < n /\ n < t + ring_size
    BY <2>1, <2>2, Positive
  <2>5. t % ring_size # n % ring_size
    <3>1. ring_size \in Int /\ ring_size > 0 /\ t \in Nat /\ n \in Nat
      BY Positive
    <3> QED
      BY <2>4, <3>1, ModApart
  <2> QED
    BY <2>3, <2>5
<1> QED
  BY <1>1, RingInv, PTL

(* The counters stay within their words, and the ring never holds more     *)
(* buffers than it has slots: one more only while a consume that already   *)
(* gave its slot up is still to return.                                    *)
THEOREM RingTypes ==
  ASSUME Ordered = TRUE, Carry = FALSE
  PROVE  Spec => []TypeOK
<1>1. IInv => TypeOK
  <2> SUFFICES ASSUME IInv PROVE TypeOK
    OBVIOUS
  <2> PICK h \in Nat, t \in Nat : At(h, t)
    BY DEF IInv
  <2>1. Types
    BY DEF IInv
  <2>2. Front(h) \in Nat /\ Back(t) \in Nat /\ head = Counter(Front(h)) /\ tail = Counter(Back(t))
    BY <2>1, Ordering DEF At, Producer, Consumer
  <2>3. head \in Counters /\ tail \in Counters
    BY <2>2, CounterNum
  <2>4. Len(flight) <= IF c.pc = "store" THEN ring_size + 1 ELSE ring_size
    <3>1. Len(flight) = h - t /\ h - Back(t) <= ring_size /\ Back(t) <= t + 1
      BY DEF At, Contents, Back
    <3>2. c.pc # "store" => Back(t) = t
      BY DEF Back
    <3> QED
      BY <2>2, <3>1, <3>2, Positive
  <2> QED
    BY <2>1, <2>3, <2>4 DEF TypeOK, Types
<1> QED
  BY <1>1, RingInv, PTL

=============================================================================
