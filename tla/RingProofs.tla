----------------------------- MODULE RingProofs -----------------------------
(***************************************************************************)
(* The circular array implements a bounded queue, for an array of any size *)
(* and any entries.                                                        *)
(***************************************************************************)
EXTENDS Ring, SequenceTheorems, TLAPS

(* An index less than a lap ahead wraps at most once. *)
LEMMA Wraps ==
  ASSUME NEW a \in Nat, a < 2 * N
  PROVE  a % N = IF a < N THEN a ELSE a - N
BY RingAssumption, SMTT(20)

(* The place i after place h. *)
At(h, i) == (h + i) % N

LEMMA AtWraps ==
  ASSUME NEW h \in Slots, NEW i \in 0 .. N
  PROVE  /\ At(h, i) = IF h + i < N THEN h + i ELSE h + i - N
         /\ At(h, i) \in Slots
BY RingAssumption, Wraps DEF At, Slots

(* Going back one place is going on to the last but one of the lap. *)
LEMMA AtBack ==
  ASSUME NEW h \in Slots
  PROVE  (h - 1 + N) % N = At(h, N - 1) /\ (h + N - 1) % N = At(h, N - 1)
<1>1. h - 1 + N = h + (N - 1) /\ h + N - 1 = h + (N - 1)
  BY RingAssumption DEF Slots
<1> QED
  BY <1>1 DEF At

(* Different live positions are different places of the array. *)
LEMMA AtInjective ==
  ASSUME NEW h \in Slots, NEW i \in 0 .. N - 1, NEW j \in 0 .. N - 1, At(h, i) = At(h, j)
  PROVE  i = j
<1>1. i \in 0 .. N /\ j \in 0 .. N
  BY RingAssumption
<1>2. /\ At(h, i) = IF h + i < N THEN h + i ELSE h + i - N
      /\ At(h, j) = IF h + j < N THEN h + j ELSE h + j - N
  BY <1>1, AtWraps
<1>3. h \in Int /\ N \in Int /\ i \in Int /\ j \in Int
  BY RingAssumption DEF Slots
<1>4. (IF h + i < N THEN h + i ELSE h + i - N) = (IF h + j < N THEN h + j ELSE h + j - N)
  BY <1>2
<1>5. 0 <= i /\ i < N /\ 0 <= j /\ j < N
  BY RingAssumption
<1> QED
  BY <1>3, <1>4, <1>5

LEMMA AtNext ==
  ASSUME NEW h \in Slots, NEW i \in 0 .. N - 1
  PROVE  At(At(h, i), 1) = At(h, i + 1) /\ At(At(h, 1), i) = At(h, i + 1)
<1>1. i \in 0 .. N /\ i + 1 \in 0 .. N /\ 1 \in 0 .. N
  BY RingAssumption
<1>2. /\ At(h, i) = IF h + i < N THEN h + i ELSE h + i - N
      /\ At(h, 1) = IF h + 1 < N THEN h + 1 ELSE h + 1 - N
      /\ At(h, i + 1) = IF h + (i + 1) < N THEN h + (i + 1) ELSE h + (i + 1) - N
      /\ At(h, i) \in Slots /\ At(h, 1) \in Slots
  BY <1>1, AtWraps
<1>3. PICK a \in Slots, b \in Slots : a = At(h, i) /\ b = At(h, 1)
  BY <1>2
<1>4. /\ At(a, 1) = IF a + 1 < N THEN a + 1 ELSE a + 1 - N
      /\ At(b, i) = IF b + i < N THEN b + i ELSE b + i - N
  BY <1>1, AtWraps
<1> QED
  BY <1>1, <1>2, <1>3, <1>4, RingAssumption DEF Slots

LEMMA AtLap ==
  ASSUME NEW h \in Slots, NEW i \in 1 .. N
  PROVE  At(At(h, i), N - 1) = At(h, i - 1) /\ At(h, 0) = h
<1>1. i \in 0 .. N /\ i - 1 \in 0 .. N /\ N - 1 \in 0 .. N /\ 0 \in 0 .. N
  BY RingAssumption
<1>2. /\ At(h, i) = IF h + i < N THEN h + i ELSE h + i - N
      /\ At(h, 0) = IF h + 0 < N THEN h + 0 ELSE h + 0 - N
      /\ At(h, i - 1) = IF h + (i - 1) < N THEN h + (i - 1) ELSE h + (i - 1) - N
      /\ At(h, i) \in Slots
  BY <1>1, AtWraps
<1>3. PICK a \in Slots : a = At(h, i)
  BY <1>2
<1>4. At(a, N - 1) = IF a + (N - 1) < N THEN a + (N - 1) ELSE a + (N - 1) - N
  BY <1>1, AtWraps
<1> QED
  BY <1>1, <1>2, <1>3, <1>4, RingAssumption DEF Slots

(* RingInv over At. *)
LEMMA RingAt ==
  RingInv <=> /\ backlog \in [Slots -> Value \cup {Nil}]
              /\ backlog_head \in Slots /\ backlog_tail \in Slots
              /\ backlog_count \in 0 .. N
              /\ backlog_tail = At(backlog_head, backlog_count)
              /\ \A i \in 0 .. backlog_count - 1 : backlog[At(backlog_head, i)] \in Value
BY DEF RingInv, Index, At

LEMMA RingAtNext ==
  RingInv' <=> /\ backlog' \in [Slots -> Value \cup {Nil}]
               /\ backlog_head' \in Slots /\ backlog_tail' \in Slots
               /\ backlog_count' \in 0 .. N
               /\ backlog_tail' = At(backlog_head', backlog_count')
               /\ \A i \in 0 .. backlog_count' - 1 : backlog'[At(backlog_head', i)] \in Value
BY DEF RingInv, Index, At

-----------------------------------------------------------------------------
LEMMA InitRing == RingInit => RingInv
<1> SUFFICES ASSUME RingInit PROVE RingInv
  OBVIOUS
<1>1. 0 \in Slots /\ 1 \in 1 .. N
  BY RingAssumption DEF Slots
<1>2. At(0, 0) = 0
  BY <1>1, AtLap
<1> QED
  BY <1>1, <1>2, RingAt, RingAssumption DEF RingInit

LEMMA PushRing ==
  ASSUME RingInv, NEW x \in Value, Push(x) PROVE RingInv'
<1> USE RingAssumption, RingAt
<1>1. /\ backlog_count \in 0 .. N - 1 /\ backlog_count' = backlog_count + 1
      /\ backlog_head' = backlog_head
      /\ backlog_tail' = At(backlog_tail, 1) /\ backlog' = [backlog EXCEPT ![backlog_tail] = x]
  BY DEF Push, At
<1>2. backlog_tail' = At(backlog_head, backlog_count + 1) /\ backlog_tail' \in Slots
  BY <1>1, AtNext, AtWraps
<1>3. ASSUME NEW i \in 0 .. backlog_count PROVE backlog'[At(backlog_head, i)] \in Value
  <2>1. i \in 0 .. N - 1 /\ At(backlog_head, i) \in Slots
    BY <1>1, AtWraps
  <2>2. CASE i = backlog_count
    BY <1>1, <2>1, <2>2
  <2>3. CASE i # backlog_count
    <3>1. At(backlog_head, i) # backlog_tail /\ i \in 0 .. backlog_count - 1
      BY <1>1, <2>1, <2>3, AtInjective
    <3> QED
      BY <1>1, <2>1, <3>1
  <2> QED
    BY <2>2, <2>3
<1>4. /\ backlog' \in [Slots -> Value \cup {Nil}]
      /\ backlog_count' \in 0 .. N /\ backlog_count' - 1 = backlog_count
  BY <1>1
<1> QED
  BY <1>1, <1>2, <1>3, <1>4, RingAtNext

LEMMA PopRing ==
  ASSUME RingInv, Pop PROVE RingInv'
<1> USE RingAssumption, RingAt
<1>1. /\ backlog_count \in 1 .. N /\ backlog_count' = backlog_count - 1
      /\ backlog_head' = At(backlog_head, 1)
      /\ backlog_tail' = backlog_tail /\ backlog' = backlog
  BY DEF Pop, At
<1>2. backlog_head' \in Slots
  BY <1>1, AtWraps
<1>3. ASSUME NEW i \in 0 .. backlog_count' PROVE At(backlog_head', i) = At(backlog_head, i + 1)
  BY <1>1, AtNext
<1>4. backlog_tail' = At(backlog_head', backlog_count')
  BY <1>1, <1>3
<1>5. ASSUME NEW i \in 0 .. backlog_count' - 1 PROVE backlog'[At(backlog_head', i)] \in Value
  BY <1>1, <1>3
<1> QED
  BY <1>1, <1>2, <1>4, <1>5, RingAtNext

(* Handing the entry back puts everything where it was. *)
LEMMA RetryKeeps ==
  ASSUME RingInv, Retry PROVE UNCHANGED <<backlog, backlog_head, backlog_tail, backlog_count>>
<1> USE RingAssumption, RingAt
<1>1. At(backlog_head, 1) \in Slots
  BY AtWraps
<1>2. (At(backlog_head, 1) + N - 1) % N = backlog_head
  <2>1. (At(backlog_head, 1) + N - 1) % N = At(At(backlog_head, 1), N - 1)
    BY <1>1, AtBack
  <2> QED
    BY <2>1, AtLap
<1> QED
  BY <1>2 DEF Retry, At

(* What the loop of cv_timedwait leaves at each live position. *)
LEMMA RemoveShifts ==
  ASSUME RingInv, NEW i \in 0 .. backlog_count - 1,
         backlog' = [s \in Slots |->
                    IF \E j \in i .. backlog_count - 2 : s = Index(j)
                    THEN backlog[(s + 1) % N] ELSE backlog[s]],
         NEW k \in 0 .. backlog_count - 2
  PROVE  backlog'[Index(k)] = backlog[Index(IF k < i THEN k ELSE k + 1)]
<1> USE RingAssumption, RingAt
<1>1. /\ k \in 0 .. N - 1 /\ At(backlog_head, k) \in Slots
      /\ \A j \in i .. backlog_count - 2 : j \in 0 .. N - 1
  BY AtWraps
<1>2. (\E j \in i .. backlog_count - 2 : At(backlog_head, k) = At(backlog_head, j)) <=> k >= i
  BY <1>1, AtInjective
<1>3. (At(backlog_head, k) + 1) % N = At(backlog_head, k + 1)
  BY <1>1, AtNext DEF At
<1> QED
  BY <1>1, <1>2, <1>3 DEF Index, At

LEMMA RemoveRing ==
  ASSUME RingInv, NEW x \in Value, Remove(x) PROVE RingInv'
<1> USE RingAssumption, RingAt
<1>1. PICK i \in 0 .. backlog_count - 1 :
        backlog' = [s \in Slots |->
                   IF \E j \in i .. backlog_count - 2 : s = Index(j)
                   THEN backlog[(s + 1) % N] ELSE backlog[s]]
  BY DEF Remove
<1>2. /\ backlog_count \in 1 .. N /\ backlog_count' = backlog_count - 1
      /\ backlog_head' = backlog_head
      /\ backlog_tail' = At(backlog_tail, N - 1)
  BY AtBack DEF Remove
<1>3. backlog_tail' = At(backlog_head', backlog_count')
  BY <1>2, AtLap
<1>4. backlog_tail' \in Slots
  BY <1>2, AtWraps
<1>5. \A s \in Slots : (s + 1) % N \in Slots
  BY AtWraps DEF At
<1>6. backlog' \in [Slots -> Value \cup {Nil}]
  BY <1>1, <1>5
<1>7. ASSUME NEW k \in 0 .. backlog_count' - 1 PROVE backlog'[At(backlog_head', k)] \in Value
  <2>1. k \in 0 .. backlog_count - 2 /\ At(backlog_head', k) = Index(k)
    BY <1>2, <1>7 DEF Index, At
  <2>2. backlog'[Index(k)] = backlog[Index(IF k < i THEN k ELSE k + 1)]
    BY <1>1, <2>1, RemoveShifts
  <2>3. (IF k < i THEN k ELSE k + 1) \in 0 .. backlog_count - 1
    BY <2>1
  <2> QED
    BY <2>1, <2>2, <2>3 DEF Index, At
<1> QED
  BY <1>2, <1>3, <1>4, <1>6, <1>7, RingAtNext

LEMMA EmptyRing ==
  ASSUME RingInv, Empty PROVE RingInv'
<1>1. 0 \in Slots /\ 1 \in 1 .. N
  BY RingAssumption DEF Slots
<1>2. At(0, 0) = 0
  BY <1>1, AtLap
<1> QED
  BY <1>1, <1>2, RingAt, RingAtNext, RingAssumption DEF Empty

LEMMA NextRing == RingInv /\ [RingNext]_ringVars => RingInv'
<1> SUFFICES ASSUME RingInv, [RingNext]_ringVars PROVE RingInv'
  OBVIOUS
<1>1. CASE Retry
  BY <1>1, RetryKeeps DEF RingInv, Index
<1>2. CASE UNCHANGED ringVars
  BY <1>2 DEF ringVars, RingInv, Index
<1> QED
  BY <1>1, <1>2, PushRing, PopRing, RemoveRing, EmptyRing DEF RingNext

(* The indices of the accept backlog and of the waiter list stay inside    *)
(* the array and agree with the count, for an array of any size.           *)
THEOREM RingSafe == RingSpec => []RingInv
BY InitRing, NextRing, PTL DEF RingSpec

-----------------------------------------------------------------------------
(* The live part of the array as a sequence. *)
LEMMA ContentsIs ==
  ASSUME RingInv
  PROVE  /\ Contents \in Seq(Value)
         /\ Len(Contents) = backlog_count
         /\ \A i \in 1 .. backlog_count : Contents[i] = backlog[At(backlog_head, i - 1)]
<1>1. backlog_count \in Nat
  BY RingAt, RingAssumption
<1>2. Contents = [i \in 1 .. backlog_count |-> backlog[At(backlog_head, i - 1)]]
  BY DEF Contents, Index, At
<1>3. ASSUME NEW i \in 1 .. backlog_count PROVE backlog[At(backlog_head, i - 1)] \in Value
  <2>1. i - 1 \in 0 .. backlog_count - 1
    BY <1>1
  <2> QED
    BY <2>1, RingAt
<1> QED
  BY <1>1, <1>2, <1>3

(* After a step, given the ring invariant there too. *)
LEMMA ContentsIsNext ==
  ASSUME RingInv'
  PROVE  /\ Contents' \in Seq(Value)
         /\ Len(Contents') = backlog_count'
         /\ \A i \in 1 .. backlog_count' : Contents'[i] = backlog'[At(backlog_head', i - 1)]
<1>1. PICK n \in Nat : n = backlog_count'
  BY RingAtNext, RingAssumption
<1>2. Contents' = [i \in 1 .. n |-> backlog'[At(backlog_head', i - 1)]]
  BY <1>1 DEF Contents, Index, At
<1>3. ASSUME NEW i \in 1 .. n PROVE backlog'[At(backlog_head', i - 1)] \in Value
  <2>1. i - 1 \in 0 .. n - 1
    OBVIOUS
  <2> QED
    BY <1>1, <2>1, RingAtNext
<1> QED
  BY <1>1, <1>2, <1>3

LEMMA PushQueue ==
  ASSUME RingInv, NEW x \in Value, Push(x) PROVE AsQueue!Push(x)
<1> USE RingAssumption
<1>1. /\ backlog_count \in 0 .. N - 1 /\ backlog_count' = backlog_count + 1
      /\ backlog_head' = backlog_head /\ taken' = Nil
      /\ backlog' = [backlog EXCEPT ![backlog_tail] = x]
      /\ backlog_head \in Slots /\ backlog_tail = At(backlog_head, backlog_count)
      /\ backlog \in [Slots -> Value \cup {Nil}]
      /\ backlog_tail \in Slots
  BY RingAt DEF Push
<1>2. RingInv'
  BY PushRing
<1>3. ASSUME NEW i \in 1 .. backlog_count + 1
      PROVE  Contents'[i] = IF i <= backlog_count THEN Contents[i] ELSE x
  <2>1. Contents'[i] = backlog'[At(backlog_head, i - 1)] /\ i - 1 \in 0 .. N - 1
    BY <1>1, <1>2, ContentsIsNext
  <2>2. CASE i = backlog_count + 1
    BY <1>1, <2>1, <2>2
  <2>3. CASE i <= backlog_count
    <3>1. At(backlog_head, i - 1) # backlog_tail /\ At(backlog_head, i - 1) \in Slots
      BY <1>1, <2>1, <2>3, AtInjective, AtWraps
    <3> QED
      BY <1>1, <2>1, <2>3, <3>1, ContentsIs
  <2> QED
    BY <1>1, <2>2, <2>3
<1>4. Contents' = Append(Contents, x)
  BY <1>1, <1>2, <1>3, ContentsIs, ContentsIsNext
<1> QED
  BY <1>1, <1>4, ContentsIs DEF AsQueue!Push

LEMMA PopQueue ==
  ASSUME RingInv, Pop PROVE AsQueue!Pop
<1> USE RingAssumption
<1>1. /\ backlog_count \in 1 .. N /\ backlog_count' = backlog_count - 1
      /\ backlog_head' = At(backlog_head, 1)
      /\ backlog' = backlog /\ taken' = backlog[backlog_head] /\ backlog_head \in Slots
  BY RingAt DEF Pop, At
<1>2. RingInv'
  BY PopRing
<1>3. ASSUME NEW i \in 1 .. backlog_count - 1 PROVE Contents'[i] = Contents[i + 1]
  <2>1. Contents'[i] = backlog[At(At(backlog_head, 1), i - 1)]
    BY <1>1, <1>2, ContentsIsNext
  <2>2. Contents[i + 1] = backlog[At(backlog_head, i)]
    BY <1>1, ContentsIs, i + 1 - 1 = i
  <2>3. At(At(backlog_head, 1), i - 1) = At(backlog_head, i)
    BY <1>1, AtNext, i - 1 + 1 = i
  <2> QED
    BY <2>1, <2>2, <2>3
<1>4. Contents' = Tail(Contents)
  BY <1>1, <1>2, <1>3, ContentsIs, ContentsIsNext
<1>5. Contents # <<>> /\ Head(Contents) = backlog[backlog_head]
  BY <1>1, ContentsIs, AtLap, 1 \in 1 .. N, 1 - 1 = 0
<1> QED
  BY <1>1, <1>4, <1>5 DEF AsQueue!Pop

LEMMA RetryQueue ==
  ASSUME RingInv, Retry PROVE AsQueue!Retry
<1> USE RingAssumption
<1>1. Contents' = Contents
  BY RetryKeeps DEF Contents, Index
<1>2. backlog_count \in 1 .. N /\ taken' = backlog[backlog_head] /\ backlog_head \in Slots
  BY RingAt DEF Retry
<1>3. Contents # <<>> /\ Head(Contents) = backlog[backlog_head]
  BY <1>2, ContentsIs, AtLap, 1 \in 1 .. N, 1 - 1 = 0
<1> QED
  BY <1>1, <1>2, <1>3 DEF AsQueue!Retry

LEMMA RemoveQueue ==
  ASSUME RingInv, NEW x \in Value, Remove(x) PROVE AsQueue!Remove(x)
<1> USE RingAssumption
<1>1. PICK i \in 0 .. backlog_count - 1 :
        /\ Found(i, x)
        /\ backlog' = [s \in Slots |->
                     IF \E j \in i .. backlog_count - 2 : s = Index(j)
                     THEN backlog[(s + 1) % N] ELSE backlog[s]]
  BY DEF Remove
<1>2. /\ backlog_count \in 1 .. N /\ backlog_count' = backlog_count - 1
      /\ backlog_head' = backlog_head /\ taken' = Nil
  BY RingAt DEF Remove
<1>3. RingInv'
  BY RemoveRing
<1> DEFINE f == i + 1
<1>4. /\ f \in 1 .. backlog_count /\ Contents[f] = x /\ \A j \in 1 .. f - 1 : Contents[j] # x
  <2>1. f \in 1 .. backlog_count /\ f - 1 = i
    BY <1>2
  <2>2. Contents[f] = x
    BY <1>1, <2>1, ContentsIs DEF Found, Index, At
  <2>3. ASSUME NEW j \in 1 .. f - 1 PROVE Contents[j] # x
    <3>1. j \in 1 .. backlog_count /\ j - 1 \in 0 .. i - 1
      BY <1>2, <2>1
    <3> QED
      BY <1>1, <3>1, ContentsIs DEF Found, Index, At
  <2> QED
    BY <2>1, <2>2, <2>3
<1>5. f = AsQueue!FirstIndex(Contents, x)
  <2>1. DOMAIN Contents = 1 .. backlog_count
    BY ContentsIs, <1>2
  <2> QED
    BY <1>2, <1>4, <2>1 DEF AsQueue!FirstIndex
<1>6. ASSUME NEW k \in 1 .. backlog_count - 1
      PROVE  Contents'[k] = IF k < f THEN Contents[k] ELSE Contents[k + 1]
  <2>1. Contents'[k] = backlog'[Index(k - 1)] /\ k - 1 \in 0 .. backlog_count - 2
    BY <1>2, <1>3, ContentsIsNext DEF Index, At
  <2>2. backlog'[Index(k - 1)] = backlog[Index(IF k - 1 < i THEN k - 1 ELSE k - 1 + 1)]
    BY <1>1, <2>1, RemoveShifts
  <2>3. CASE k < f
    BY <1>2, <2>1, <2>2, <2>3, ContentsIs DEF Index, At
  <2>4. CASE ~(k < f)
    <3>1. k + 1 \in 1 .. backlog_count /\ k - 1 + 1 = k /\ k + 1 - 1 = k /\ ~(k - 1 < i)
      BY <1>2, <2>4
    <3> QED
      BY <2>1, <2>2, <2>4, <3>1, ContentsIs DEF Index, At
  <2> QED
    BY <2>3, <2>4
<1> HIDE DEF f
<1>7. Contents' = SubSeq(Contents, 1, f - 1) \o SubSeq(Contents, f + 1, Len(Contents))
  <2> DEFINE a == SubSeq(Contents, 1, f - 1)
             b == SubSeq(Contents, f + 1, Len(Contents))
  <2>1. a \in Seq(Value) /\ Len(a) = f - 1 /\ \A k \in 1 .. f - 1 : a[k] = Contents[k]
    BY <1>2, <1>4, ContentsIs
  <2>2. /\ b \in Seq(Value) /\ Len(b) = backlog_count - f
        /\ \A k \in 1 .. backlog_count - f : b[k] = Contents[f + k]
    BY <1>2, <1>4, ContentsIs
  <2> HIDE DEF a, b
  <2>3. /\ a \o b \in Seq(Value) /\ Len(a \o b) = backlog_count - 1
        /\ \A k \in 1 .. backlog_count - 1 : (a \o b)[k] = IF k < f THEN a[k] ELSE b[k - (f - 1)]
    <3>1. f \in Nat /\ backlog_count \in Nat /\ (f - 1) + (backlog_count - f) = backlog_count - 1
      BY <1>2, <1>4
    <3>2. /\ a \o b \in Seq(Value) /\ Len(a \o b) = Len(a) + Len(b)
          /\ \A k \in 1 .. Len(a) + Len(b) :
                (a \o b)[k] = IF k <= Len(a) THEN a[k] ELSE b[k - Len(a)]
      BY <2>1, <2>2, ConcatProperties
    <3>3. \A k \in 1 .. backlog_count - 1 : k <= f - 1 <=> k < f
      BY <3>1
    <3> QED
      BY <2>1, <2>2, <3>1, <3>2, <3>3
  <2>4. ASSUME NEW k \in 1 .. backlog_count - 1 PROVE (a \o b)[k] = Contents'[k]
    <3>1. CASE k < f
      BY <1>2, <1>4, <1>6, <2>1, <2>3, <3>1
    <3>2. CASE ~(k < f)
      <4>1. k - (f - 1) \in 1 .. backlog_count - f /\ f + (k - (f - 1)) = k + 1
        BY <1>2, <1>4, <3>2
      <4> QED
        BY <1>6, <2>2, <2>3, <3>2, <4>1
    <3> QED
      BY <3>1, <3>2
  <2>5. Contents' \in Seq(Value) /\ Len(Contents') = backlog_count - 1
    BY <1>2, <1>3, ContentsIsNext
  <2>6. Contents' = a \o b
    BY <2>3, <2>4, <2>5
  <2> QED
    BY <2>6 DEF a, b
<1>8. f \in DOMAIN Contents
  BY <1>2, <1>4, ContentsIs
<1> QED
  BY <1>2, <1>4, <1>5, <1>7, <1>8 DEF AsQueue!Remove

LEMMA EmptyQueue ==
  ASSUME RingInv, Empty PROVE AsQueue!Empty
<1>1. RingInv' /\ backlog_count' = 0 /\ taken' = Nil
  BY EmptyRing DEF Empty
<1> QED
  BY <1>1, ContentsIsNext DEF AsQueue!Empty

(* The arrays of the accept backlog and of the waiter list, of any size,   *)
(* behave as a bounded first-in first-out queue: wrap-around, handing back *)
(* and removal from the middle lose, duplicate and reorder nothing.        *)
THEOREM RingIsQueue == RingSpec => ImplementsQueue
<1>1. RingInit => AsQueue!Init
  <2> SUFFICES ASSUME RingInit PROVE AsQueue!Init
    OBVIOUS
  <2> QED
    BY InitRing, ContentsIs DEF RingInit, AsQueue!Init
<1>2. RingInv /\ [RingNext]_ringVars => [AsQueue!Next]_(AsQueue!vars)
  <2> SUFFICES ASSUME RingInv, [RingNext]_ringVars PROVE [AsQueue!Next]_(AsQueue!vars)
    OBVIOUS
  <2>1. CASE UNCHANGED ringVars
    BY <2>1 DEF ringVars, AsQueue!vars, Contents, Index
  <2> QED
    BY <2>1, PushQueue, PopQueue, RetryQueue, RemoveQueue, EmptyQueue DEF RingNext, AsQueue!Next
<1> QED
  BY <1>1, <1>2, RingSafe, PTL DEF RingSpec, ImplementsQueue, AsQueue!Spec
=============================================================================
