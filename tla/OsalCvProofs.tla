---------------------------- MODULE OsalCvProofs ----------------------------
(***************************************************************************)
(* The condition variable for any number of tasks, any size of the waiter  *)
(* list, any timeout and any depth of nesting of the mutex.                *)
(***************************************************************************)
EXTENDS OsalCv, SequenceTheorems, WellFoundedInduction, TLAPS

(* Who holds the mutex: the task inside, or asleep in cv_wait with levels  *)
(* left over.                                                              *)
Held ==
    /\ owner = None <=> nest = 0
    /\ \A t \in Tasks :
          /\ pc[t] \in {"in", "push", "unlock", "panic"} => owner = t
          /\ pc[t] = "out" => owner # t
          /\ pc[t] \in {"wait", "poll", "relock"} => 1 <= MAX_NEST /\ (owner = t => nest < MAX_NEST)

(* From SetSignal to the end of the wait. *)
InWait(t) == pc[t] = "push" \/ Waiting(t)

(* A wait has one entry, until it is popped.  What then ends the wait is   *)
(* the signal of that pop, but for a late signal.                          *)
Token(t) ==
    /\ InList(t) => Waiting(t) /\ ~ due[t]
    /\ sig[t] /\ InWait(t) => due[t]
    /\ \A s \in Tasks \ overtaken : w[s] = t /\ InWait(t) => due[t]
    /\ \A i, j \in DOMAIN waiters : waiters[i] = t /\ waiters[j] = t => i = j

Tokens ==
    /\ \A t \in Tasks : due[t] => Waiting(t) \/ pc[t] = "relock"
    /\ \A t \in Tasks \ late : Token(t)

Inv == TypeOK /\ Held /\ NoLostWakeup /\ Tokens

-----------------------------------------------------------------------------
(* The mutex and the types. *)

LEMMA InitInv == Init => Inv
BY OsalCvAssumption DEF Init, Inv, TypeOK, Held, NoLostWakeup, Tokens, Token, InList, InWait, Waiting

LEMMA LeastNat ==
  ASSUME NEW S \in SUBSET Nat, S # {}
  PROVE  \E m \in S : \A n \in S : m <= n
<1> DEFINE R == OpToRel(<, Nat)
<1>1. IsWellFoundedOn(R, Nat)
  BY NatLessThanWellFounded
<1>2. \A x, y \in Nat : x < y => <<x, y>> \in R
  BY DEF OpToRel
<1> HIDE DEF R
<1>3. PICK m \in S : \A n \in S : <<n, m>> \notin R
  BY <1>1, WFMin
<1>4. ASSUME NEW n \in S PROVE m <= n
  <2>1. m \in Nat /\ n \in Nat /\ ~ (n < m)
    BY <1>2, <1>3
  <2> QED
    BY <2>1
<1> QED
  BY <1>4

(* What the loop of cv_timedwait leaves. *)
LEMMA WithoutIs ==
  ASSUME waiters \in Seq(Tasks), NEW t \in Tasks, InList(t)
  PROVE  /\ Without(t) \in Seq(Tasks) /\ Len(Without(t)) = Len(waiters) - 1
         /\ \E k \in 1 .. Len(waiters) :
               /\ waiters[k] = t
               /\ \A i \in 1 .. Len(waiters) - 1 :
                     Without(t)[i] = waiters[IF i < k THEN i ELSE i + 1]
<1> DEFINE n == Len(waiters)
           First(i) == waiters[i] = t /\ \A j \in 1 .. i - 1 : waiters[j] # t
           S == {i \in 1 .. n : waiters[i] = t}
<1>1. n \in Nat /\ DOMAIN waiters = 1 .. n /\ \A i \in 1 .. n : waiters[i] \in Tasks
  OBVIOUS
<1>2. \E i \in DOMAIN waiters : First(i)
  <2>1. S \in SUBSET Nat /\ S # {}
    BY <1>1 DEF InList
  <2> HIDE DEF S
  <2>2. PICK m \in S : \A i \in S : m <= i
    BY <2>1, LeastNat
  <2> USE DEF S
  <2>3. m \in 1 .. n /\ waiters[m] = t
    OBVIOUS
  <2>4. ASSUME NEW j \in 1 .. m - 1, waiters[j] = t PROVE FALSE
    <3>1. j \in S /\ j < m
      BY <1>1, <2>3, <2>4
    <3> QED
      BY <1>1, <2>2, <2>3, <3>1
  <2> QED
    BY <1>1, <2>3, <2>4
<1> DEFINE k == CHOOSE i \in DOMAIN waiters : First(i)
<1>3. k \in 1 .. n /\ waiters[k] = t
  BY <1>1, <1>2
<1>4. Without(t) = SubSeq(waiters, 1, k - 1) \o SubSeq(waiters, k + 1, n)
  BY DEF Without
<1> HIDE DEF k, n
<1> DEFINE a == SubSeq(waiters, 1, k - 1)
           b == SubSeq(waiters, k + 1, n)
<1>5. a \in Seq(Tasks) /\ Len(a) = k - 1 /\ \A i \in 1 .. k - 1 : a[i] = waiters[i]
  BY <1>1, <1>3 DEF n
<1>6. b \in Seq(Tasks) /\ Len(b) = n - k /\ \A i \in 1 .. n - k : b[i] = waiters[k + i]
  <2>1. /\ b \in Seq(Tasks) /\ Len(b) = IF k + 1 <= n THEN n - (k + 1) + 1 ELSE 0
        /\ \A i \in 1 .. n - (k + 1) + 1 : b[i] = waiters[k + 1 + i - 1]
    <3>1. k + 1 \in Int /\ n \in Int /\ \A i \in k + 1 .. n : waiters[i] \in Tasks
      BY <1>1, <1>3
    <3> QED
      BY <3>1, SubSeqProperties
  <2>2. n - (k + 1) + 1 = n - k /\ (k + 1 <= n \/ n - k = 0)
    BY <1>1, <1>3
  <2>3. \A i \in 1 .. n - k : k + 1 + i - 1 = k + i
    BY <1>1, <1>3
  <2> HIDE DEF b
  <2> QED
    BY <2>1, <2>2, <2>3
<1> HIDE DEF a, b
<1>7. /\ a \o b \in Seq(Tasks) /\ Len(a \o b) = Len(a) + Len(b)
      /\ \A i \in 1 .. Len(a) + Len(b) : (a \o b)[i] = IF i <= Len(a) THEN a[i] ELSE b[i - Len(a)]
  BY <1>5, <1>6, ConcatProperties
<1>8. (k - 1) + (n - k) = n - 1
  BY <1>1, <1>3
<1>9. ASSUME NEW i \in 1 .. n - 1 PROVE (a \o b)[i] = waiters[IF i < k THEN i ELSE i + 1]
  <2>1. CASE i < k
    <3>1. i \in 1 .. k - 1 /\ i <= k - 1
      BY <1>1, <1>3, <2>1
    <3> QED
      BY <1>5, <1>6, <1>7, <1>8, <2>1, <3>1
  <2>2. CASE ~ (i < k)
    <3>1. ~ (i <= k - 1) /\ i - (k - 1) \in 1 .. n - k /\ k + (i - (k - 1)) = i + 1
      BY <1>1, <1>3, <2>2
    <3> QED
      BY <1>5, <1>6, <1>7, <1>8, <2>2, <3>1
  <2> QED
    BY <2>1, <2>2
<1>10. Without(t) = a \o b
  BY <1>4 DEF a, b
<1> QED
  BY ZenonT(60), <1>3, <1>5, <1>6, <1>7, <1>8, <1>9, <1>10 DEF n

(* Every other task keeps its entries. *)
LEMMA WithoutKeeps ==
  ASSUME waiters \in Seq(Tasks), NEW t \in Tasks
  PROVE  /\ Without(t) \in Seq(Tasks) /\ Len(Without(t)) <= Len(waiters)
         /\ \A u \in Tasks : (\E i \in DOMAIN Without(t) : Without(t)[i] = u) => InList(u)
         /\ \A u \in Tasks \ {t} : InList(u) => \E i \in DOMAIN Without(t) : Without(t)[i] = u
         /\ \A u \in Tasks :
               (\A i, j \in DOMAIN waiters : waiters[i] = u /\ waiters[j] = u => i = j)
               => /\ \A i, j \in DOMAIN Without(t) : Without(t)[i] = u /\ Without(t)[j] = u => i = j
                  /\ u = t => \A i \in DOMAIN Without(t) : Without(t)[i] # t
<1>1. CASE ~ InList(t)
  BY <1>1 DEF Without, InList
<1>2. CASE InList(t)
  <2> DEFINE v == Without(t)
             n == Len(waiters)
  <2>1. v \in Seq(Tasks) /\ Len(v) = n - 1 /\ n \in Nat
    BY <1>2, WithoutIs
  <2>2. PICK k \in 1 .. n :
          /\ waiters[k] = t
          /\ \A i \in 1 .. n - 1 : v[i] = waiters[IF i < k THEN i ELSE i + 1]
    BY <1>2, WithoutIs
  <2>3. DOMAIN v = 1 .. n - 1 /\ DOMAIN waiters = 1 .. n
    BY <2>1
  <2> HIDE DEF v, n
  <2>4. ASSUME NEW i \in 1 .. n - 1
        PROVE  (IF i < k THEN i ELSE i + 1) \in 1 .. n
    BY <2>1
  <2>5. \A u \in Tasks : (\E i \in DOMAIN v : v[i] = u) => InList(u)
    BY <2>2, <2>3, <2>4 DEF InList
  <2>6. ASSUME NEW u \in Tasks \ {t}, InList(u) PROVE \E i \in DOMAIN v : v[i] = u
    <3>1. PICK j \in 1 .. n : waiters[j] = u
      BY <2>3, <2>6 DEF InList
    <3>2. CASE j < k
      <4>1. j \in 1 .. n - 1
        BY <2>1, <3>2
      <4> QED
        BY <2>2, <2>3, <3>1, <3>2, <4>1
    <3>3. CASE ~ (j < k)
      <4>1. j - 1 \in 1 .. n - 1 /\ ~ (j - 1 < k) /\ j - 1 + 1 = j
        BY <2>1, <2>2, <3>1, <3>3
      <4> QED
        BY <2>2, <2>3, <3>1, <4>1
    <3> QED
      BY <3>2, <3>3
  <2>7. ASSUME NEW u \in Tasks,
               \A i, j \in DOMAIN waiters : waiters[i] = u /\ waiters[j] = u => i = j,
               NEW i \in DOMAIN v, NEW j \in DOMAIN v, v[i] = u, v[j] = u
        PROVE  i = j
    <3>1. (IF i < k THEN i ELSE i + 1) = (IF j < k THEN j ELSE j + 1)
      BY <2>2, <2>3, <2>4, <2>7
    <3> QED
      BY <2>1, <2>3, <3>1
  <2>8. ASSUME \A i, j \in DOMAIN waiters : waiters[i] = t /\ waiters[j] = t => i = j,
               NEW i \in DOMAIN v, v[i] = t
        PROVE  FALSE
    <3>1. (IF i < k THEN i ELSE i + 1) = k
      BY <2>2, <2>3, <2>4, <2>8
    <3> QED
      BY <2>1, <2>3, <3>1
  <2> QED
    BY <2>1, <2>5, <2>6, <2>7, <2>8 DEF v, n
<1> QED
  BY <1>1, <1>2

LEMMA TimedOutKeeps ==
  ASSUME TypeOK, NEW t \in Tasks, timed_out(t), NEW u \in Tasks
  PROVE  /\ InList(u)' => InList(u)
         /\ u # t /\ InList(u) => InList(u)'
         /\ (\A i, j \in DOMAIN waiters : waiters[i] = u /\ waiters[j] = u => i = j)
            => /\ (\A i, j \in DOMAIN waiters : waiters[i] = u /\ waiters[j] = u => i = j)'
               /\ u = t => ~ InList(u)'
<1>1. waiters \in Seq(Tasks) /\ waiters' = Without(t)
  BY DEF TypeOK, timed_out
<1>2. InList(u)' <=> \E i \in DOMAIN Without(t) : Without(t)[i] = u
  BY <1>1 DEF InList
<1>3. (\A i, j \in DOMAIN waiters : waiters[i] = u /\ waiters[j] = u => i = j)'
      <=> \A i, j \in DOMAIN Without(t) : Without(t)[i] = u /\ Without(t)[j] = u => i = j
  BY <1>1
<1> QED
  BY <1>1, <1>2, <1>3, WithoutKeeps

(* What cv_signal leaves. *)
LEMMA PopKeeps ==
  ASSUME waiters \in Seq(Tasks), waiters # <<>>, waiters' = Tail(waiters), NEW u \in Tasks
  PROVE  /\ InList(u) => u = Head(waiters) \/ InList(u)'
         /\ InList(u)' \/ u = Head(waiters) => InList(u)
         /\ (\A i, j \in DOMAIN waiters : waiters[i] = u /\ waiters[j] = u => i = j)
            => /\ \A i, j \in DOMAIN waiters' : waiters'[i] = u /\ waiters'[j] = u => i = j
               /\ u = Head(waiters) => ~ InList(u)'
<1> PICK n \in Nat : n = Len(waiters) - 1
  OBVIOUS
<1>1. /\ DOMAIN waiters = 1 .. n + 1 /\ DOMAIN waiters' = 1 .. n
      /\ waiters[1] = Head(waiters) /\ \A i \in 1 .. n : waiters'[i] = waiters[i + 1]
  OBVIOUS
<1>2. \A i \in 1 .. n : i + 1 \in 1 .. n + 1 /\ i + 1 # 1
  OBVIOUS
<1>3. \A i \in 1 .. n + 1 : i = 1 \/ (i - 1 \in 1 .. n /\ i - 1 + 1 = i)
  OBVIOUS
<1>4. 1 \in 1 .. n + 1
  OBVIOUS
<1>5. \A i, j \in 1 .. n : i + 1 = j + 1 => i = j
  OBVIOUS
<1>6. ASSUME InList(u), u # Head(waiters) PROVE InList(u)'
  <2>1. PICK i \in 1 .. n + 1 : waiters[i] = u
    BY <1>1, <1>6 DEF InList
  <2>2. i - 1 \in 1 .. n /\ i - 1 + 1 = i
    BY <1>1, <1>3, <1>6, <2>1
  <2>3. waiters'[i - 1] = u
    BY <1>1, <2>1, <2>2
  <2> QED
    BY <1>1, <2>2, <2>3 DEF InList
<1>7. InList(u)' \/ u = Head(waiters) => InList(u)
  BY <1>1, <1>2, <1>4 DEF InList
<1>8. ASSUME \A i, j \in DOMAIN waiters : waiters[i] = u /\ waiters[j] = u => i = j
      PROVE  /\ \A i, j \in DOMAIN waiters' : waiters'[i] = u /\ waiters'[j] = u => i = j
             /\ u = Head(waiters) => ~ InList(u)'
  <2>1. ASSUME NEW i \in 1 .. n, NEW j \in 1 .. n, waiters'[i] = u, waiters'[j] = u
        PROVE  i = j
    BY <1>1, <1>2, <1>5, <1>8, <2>1
  <2>2. ASSUME u = Head(waiters), NEW i \in 1 .. n, waiters'[i] = u PROVE FALSE
    BY SMTT(30), <1>1, <1>2, <1>4, <1>8, <2>2
  <2> QED
    BY SMTT(30), <1>1, <2>1, <2>2 DEF InList
<1> QED
  BY <1>6, <1>7, <1>8

-----------------------------------------------------------------------------
LEMMA NextType == Inv /\ [Next]_vars => TypeOK'
<1> SUFFICES ASSUME Inv, [Next]_vars PROVE TypeOK'
  OBVIOUS
<1> USE OsalCvAssumption DEF Inv, TypeOK, Go, Held, history
<1>1. ASSUME NEW t \in Tasks, osal_mutex_lock(t) PROVE TypeOK'
  BY <1>1 DEF osal_mutex_lock, ObtainSemaphore
<1>2. ASSUME NEW t \in Tasks, osal_mutex_unlock(t) PROVE TypeOK'
  BY <1>2 DEF osal_mutex_unlock, ReleaseSemaphore
<1>3. ASSUME NEW t \in Tasks, wait_clear(t) PROVE TypeOK'
  BY <1>3 DEF wait_clear
<1>4. ASSUME NEW t \in Tasks, wait_push(t) PROVE TypeOK'
  BY <1>4 DEF wait_push
<1>5. ASSUME NEW t \in Tasks, wait_overflow(t) PROVE TypeOK'
  BY <1>5 DEF wait_overflow
<1>6. ASSUME NEW t \in Tasks, wait_unlock(t) PROVE TypeOK'
  BY <1>6 DEF wait_unlock, ReleaseSemaphore
<1>7. ASSUME NEW t \in Tasks, wait_wake(t) PROVE TypeOK'
  BY <1>7 DEF wait_wake
<1>8. ASSUME NEW t \in Tasks, wait_relock(t) PROVE TypeOK'
  BY <1>8 DEF wait_relock, ObtainSemaphore
<1>9. ASSUME NEW t \in Tasks, timed_poll(t) PROVE TypeOK'
  <2>1. polls[t] \in 0 .. POLLS /\ polls[t] + 1 \in 0 .. POLLS
    BY <1>9 DEF timed_poll
  <2>2. polls' \in [Tasks -> 0 .. POLLS]
    <3>1. polls' = polls \/ polls' = [polls EXCEPT ![t] = polls[t] + 1]
      BY <1>9 DEF timed_poll
    <3> QED
      BY <2>1, <3>1
  <2>3. pc[t] = "poll" /\ pc' \in {[pc EXCEPT ![t] = "poll"], [pc EXCEPT ![t] = "relock"]}
    BY <1>9 DEF timed_poll
  <2>4. sig' \in [Tasks -> BOOLEAN]
    BY <1>9 DEF timed_poll
  <2>5. rv' \in [Tasks -> {"none", "signaled", "ETIMEDOUT"}]
    BY <1>9 DEF timed_poll
  <2> QED
    BY <1>9, <2>2, <2>3, <2>4, <2>5 DEF timed_poll
<1>10. ASSUME NEW t \in Tasks, timed_out(t) PROVE TypeOK'
  <2>1. waiters' \in Seq(Tasks) /\ Len(waiters') <= MAX_WAITERS
    BY <1>10, WithoutKeeps DEF timed_out
  <2> QED
    BY <1>10, <2>1 DEF timed_out
<1>11. ASSUME NEW t \in Tasks, osal_cv_signal(t) PROVE TypeOK'
  BY <1>11 DEF osal_cv_signal, Caller
<1>12. ASSUME NEW t \in Tasks, signal_send(t) PROVE TypeOK'
  BY <1>12 DEF signal_send
<1>13. ASSUME NEW t \in Tasks, osal_cv_broadcast(t) PROVE TypeOK'
  BY <1>13 DEF osal_cv_broadcast, Caller
<1>14. CASE UNCHANGED vars
  BY SMTT(30), <1>14 DEF vars
<1> QED
  BY SMTT(30), <1>1, <1>2, <1>3, <1>4, <1>5, <1>6, <1>7, <1>8, <1>9, <1>10, <1>11, <1>12, <1>13, <1>14 DEF Next, InCall

LEMMA NextHeld == Inv /\ [Next]_vars => Held'
<1> SUFFICES ASSUME Inv, [Next]_vars PROVE Held'
  OBVIOUS
<1> USE OsalCvAssumption DEF Inv, TypeOK, Go, Held, history
<1>1. ASSUME NEW t \in Tasks, osal_mutex_lock(t) PROVE Held'
  BY <1>1 DEF osal_mutex_lock, ObtainSemaphore
<1>2. ASSUME NEW t \in Tasks, osal_mutex_unlock(t) PROVE Held'
  BY <1>2 DEF osal_mutex_unlock, ReleaseSemaphore
<1>3. ASSUME NEW t \in Tasks, wait_clear(t) PROVE Held'
  BY <1>3 DEF wait_clear
<1>4. ASSUME NEW t \in Tasks, wait_push(t) PROVE Held'
  BY <1>4 DEF wait_push
<1>5. ASSUME NEW t \in Tasks, wait_overflow(t) PROVE Held'
  BY <1>5 DEF wait_overflow
<1>6. ASSUME NEW t \in Tasks, wait_unlock(t) PROVE Held'
  BY <1>6 DEF wait_unlock, ReleaseSemaphore
<1>7. ASSUME NEW t \in Tasks, wait_wake(t) PROVE Held'
  BY <1>7 DEF wait_wake
<1>8. ASSUME NEW t \in Tasks, wait_relock(t) PROVE Held'
  BY <1>8 DEF wait_relock, ObtainSemaphore
<1>9. ASSUME NEW t \in Tasks, timed_poll(t) PROVE Held'
  BY <1>9 DEF timed_poll
<1>10. ASSUME NEW t \in Tasks, timed_out(t) PROVE Held'
  BY <1>10, WithoutKeeps DEF timed_out
<1>11. ASSUME NEW t \in Tasks, osal_cv_signal(t) PROVE Held'
  BY <1>11 DEF osal_cv_signal, Caller
<1>12. ASSUME NEW t \in Tasks, signal_send(t) PROVE Held'
  BY <1>12 DEF signal_send
<1>13. ASSUME NEW t \in Tasks, osal_cv_broadcast(t) PROVE Held'
  BY <1>13 DEF osal_cv_broadcast, Caller
<1>14. CASE UNCHANGED vars
  BY SMTT(30), <1>14 DEF vars
<1> QED
  BY <1>1, <1>2, <1>3, <1>4, <1>5, <1>6, <1>7, <1>8, <1>9, <1>10, <1>11, <1>12, <1>13, <1>14 DEF Next, InCall

LEMMA NextWakeup == Inv /\ [Next]_vars => NoLostWakeup'
<1> SUFFICES ASSUME Inv, [Next]_vars PROVE NoLostWakeup'
  OBVIOUS
<1> USE OsalCvAssumption DEF Inv, TypeOK, Go, NoLostWakeup, InList, history
<1>1. ASSUME NEW t \in Tasks, osal_mutex_lock(t) PROVE NoLostWakeup'
  BY <1>1 DEF osal_mutex_lock, ObtainSemaphore
<1>2. ASSUME NEW t \in Tasks, osal_mutex_unlock(t) PROVE NoLostWakeup'
  BY SMTT(30), <1>2 DEF osal_mutex_unlock, ReleaseSemaphore
<1>3. ASSUME NEW t \in Tasks, wait_clear(t) PROVE NoLostWakeup'
  BY <1>3 DEF wait_clear
<1>4. ASSUME NEW t \in Tasks, wait_push(t) PROVE NoLostWakeup'
  <2>1. \A u \in Tasks : u = t \/ InList(u) => InList(u)'
    <3>1. waiters \in Seq(Tasks) /\ waiters' = Append(waiters, t) /\ Len(waiters) \in Nat
      BY <1>4 DEF wait_push
    <3>2. /\ DOMAIN waiters' = 1 .. Len(waiters) + 1 /\ waiters'[Len(waiters) + 1] = t
          /\ \A i \in DOMAIN waiters : i \in DOMAIN waiters' /\ waiters'[i] = waiters[i]
      BY <3>1
    <3>3. Len(waiters) + 1 \in 1 .. Len(waiters) + 1
      BY <3>1
    <3> QED
      BY SMTT(30), <3>2, <3>3
  <2> QED
    BY SMTT(30), <1>4, <2>1 DEF wait_push
<1>5. ASSUME NEW t \in Tasks, wait_overflow(t) PROVE NoLostWakeup'
  BY <1>5 DEF wait_overflow
<1>6. ASSUME NEW t \in Tasks, wait_unlock(t) PROVE NoLostWakeup'
  BY SMTT(30), <1>6 DEF wait_unlock, ReleaseSemaphore
<1>7. ASSUME NEW t \in Tasks, wait_wake(t) PROVE NoLostWakeup'
  BY <1>7 DEF wait_wake
<1>8. ASSUME NEW t \in Tasks, wait_relock(t) PROVE NoLostWakeup'
  BY <1>8 DEF wait_relock, ObtainSemaphore
<1>9. ASSUME NEW t \in Tasks, timed_poll(t) PROVE NoLostWakeup'
  <2>1. pc'[t] \notin {"unlock", "wait"} /\ \A u \in Tasks \ {t} : pc'[u] = pc[u] /\ sig'[u] = sig[u]
    BY <1>9 DEF timed_poll
  <2>2. waiters' = waiters /\ w' = w
    BY <1>9 DEF timed_poll
  <2> QED
    BY <2>1, <2>2
<1>10. ASSUME NEW t \in Tasks, timed_out(t) PROVE NoLostWakeup'
  <2>1. \A u \in Tasks \ {t} : InList(u) => InList(u)'
    BY <1>10, TimedOutKeeps
  <2>2. pc'[t] \notin {"unlock", "wait"} /\ \A u \in Tasks \ {t} : pc'[u] = pc[u]
    BY <1>10 DEF timed_out
  <2> HIDE DEF InList
  <2> QED
    BY <1>10, <2>1, <2>2 DEF timed_out
<1>11. ASSUME NEW t \in Tasks, osal_cv_signal(t) PROVE NoLostWakeup'
  <2>1. \A u \in Tasks : InList(u) => u = Head(waiters) \/ InList(u)'
    BY <1>11, PopKeeps DEF osal_cv_signal
  <2>2. w[t] = None /\ w' = [w EXCEPT ![t] = Head(waiters)] /\ pc' = pc /\ sig' = sig
    BY <1>11 DEF osal_cv_signal, Caller
  <2> HIDE DEF InList
  <2> QED
    BY <2>1, <2>2
<1>12. ASSUME NEW t \in Tasks, signal_send(t) PROVE NoLostWakeup'
  BY SMTT(30), <1>12 DEF signal_send
<1>13. ASSUME NEW t \in Tasks, osal_cv_broadcast(t) PROVE NoLostWakeup'
  BY <1>13 DEF osal_cv_broadcast, Caller
<1>14. CASE UNCHANGED vars
  BY <1>14 DEF vars
<1> QED
  BY <1>1, <1>2, <1>3, <1>4, <1>5, <1>6, <1>7, <1>8, <1>9, <1>10, <1>11, <1>12, <1>13, <1>14 DEF Next, InCall

(* A step that leaves the list and the signallers alone. *)
LEMMA TokenKept ==
  ASSUME NEW u \in Tasks, Token(u), waiters' = waiters, w' = w, overtaken \subseteq overtaken',
         due'[u] = due[u], sig'[u] => sig[u], InWait(u)' => InWait(u),
         InList(u) /\ Waiting(u) => Waiting(u)'
  PROVE  Token(u)'
<1>1. InList(u)' = InList(u)
  BY DEF InList
<1> QED
  BY Zenon, <1>1 DEF Token

LEMMA NextTokens == Inv /\ [Next]_vars => Tokens'
<1> SUFFICES ASSUME Inv, [Next]_vars PROVE Tokens'
  OBVIOUS
<1>0. /\ \A t \in Tasks \ late : Token(t)
      /\ \A t \in Tasks : due[t] => Waiting(t) \/ pc[t] = "relock"
  BY DEF Inv, Tokens
<1>t. TypeOK
  BY DEF Inv
<1>1. ASSUME NEW t \in Tasks, osal_mutex_lock(t) PROVE Tokens'
  <2>1. /\ UNCHANGED <<waiters, w, overtaken, late, due, sig>> /\ pc[t] = "out"
        /\ pc' = [pc EXCEPT ![t] = "in"]
    BY <1>1 DEF osal_mutex_lock, Go, history
  <2>2. ASSUME NEW u \in Tasks PROVE InWait(u)' = InWait(u) /\ Waiting(u)' = Waiting(u) /\ (pc[u] = "relock" => pc'[u] = "relock")
    BY <1>t, <2>1 DEF InWait, Waiting, TypeOK
  <2> QED
    BY <1>0, <2>1, <2>2, TokenKept DEF Tokens
<1>2. ASSUME NEW t \in Tasks, osal_mutex_unlock(t) PROVE Tokens'
  <2>1. /\ UNCHANGED <<waiters, w, overtaken, late, due, sig>> /\ pc[t] = "in"
        /\ pc' \in {[pc EXCEPT ![t] = "in"], [pc EXCEPT ![t] = "out"]}
    BY <1>2 DEF osal_mutex_unlock, Go, history
  <2>2. ASSUME NEW u \in Tasks PROVE InWait(u)' = InWait(u) /\ Waiting(u)' = Waiting(u) /\ (pc[u] = "relock" => pc'[u] = "relock")
    BY <1>t, <2>1 DEF InWait, Waiting, TypeOK
  <2> QED
    BY <1>0, <2>1, <2>2, TokenKept DEF Tokens
<1>3. ASSUME NEW t \in Tasks, wait_clear(t) PROVE Tokens'
  <2>1. /\ UNCHANGED <<waiters, w, due>> /\ pc[t] = "in"
        /\ pc' = [pc EXCEPT ![t] = "push"] /\ sig' = [sig EXCEPT ![t] = FALSE]
        /\ overtaken' = overtaken \cup {s \in Tasks : w[s] = t}
        /\ late' = IF InList(t) THEN late ELSE late \ {t}
    BY <1>3 DEF wait_clear, Go
  <2>2. ASSUME NEW u \in Tasks \ {t} PROVE pc'[u] = pc[u] /\ sig'[u] = sig[u]
    BY <1>t, <2>1 DEF TypeOK
  <2>3. pc'[t] = "push" /\ ~ sig'[t] /\ ~ Waiting(t) /\ ~ due[t]
    BY <1>0, <1>t, <2>1 DEF TypeOK, Waiting
  <2>4. ASSUME t \notin late' PROVE Token(t)'
    <3>1. ~ InList(t)
      BY <1>0, <2>1, <2>3, <2>4 DEF Token
    <3>2. ~ InList(t)' /\ \A i \in DOMAIN waiters' : waiters'[i] # t
      BY <2>1, <3>1 DEF InList
    <3>3. \A s \in Tasks \ overtaken' : w'[s] # t
      BY <2>1
    <3> QED
      BY Zenon, <2>3, <3>2, <3>3 DEF Token
  <2>5. ASSUME NEW u \in Tasks \ late' PROVE Token(u)'
    <3>1. CASE u = t
      BY <2>4, <2>5, <3>1
    <3>2. CASE u # t
      <4>1. u \in Tasks \ late /\ InWait(u)' = InWait(u) /\ Waiting(u)' = Waiting(u)
        BY <2>1, <2>2, <2>5, <3>2 DEF InWait, Waiting
      <4> QED
        BY <1>0, <2>1, <2>2, <3>2, <4>1, TokenKept
    <3> QED
      BY <3>1, <3>2
  <2>6. ASSUME NEW u \in Tasks, due'[u] PROVE Waiting(u)' \/ pc'[u] = "relock"
    <3>1. due[u] /\ u # t
      BY <2>1, <2>3, <2>6
    <3> QED
      BY <1>0, <2>2, <3>1 DEF Waiting
  <2> QED
    BY <2>5, <2>6 DEF Tokens
<1>4. ASSUME NEW t \in Tasks, wait_push(t) PROVE Tokens'
  <2>1. /\ UNCHANGED <<w, overtaken, late, due, sig>> /\ pc[t] = "push"
        /\ pc' = [pc EXCEPT ![t] = "unlock"] /\ waiters' = Append(waiters, t)
    BY <1>4 DEF wait_push, Go, history
  <2> PICK n \in Nat : n = Len(waiters)
    BY <1>t DEF TypeOK
  <2>2. /\ DOMAIN waiters = 1 .. n /\ DOMAIN waiters' = 1 .. n + 1 /\ waiters'[n + 1] = t
        /\ \A i \in 1 .. n : waiters'[i] = waiters[i]
    BY <1>t, <2>1 DEF TypeOK
  <2>3. ASSUME NEW u \in Tasks \ {t} PROVE pc'[u] = pc[u]
    BY <1>t, <2>1 DEF TypeOK
  <2>4. pc'[t] = "unlock" /\ ~ Waiting(t) /\ InWait(t) /\ ~ due[t] /\ Waiting(t)'
    BY <1>0, <1>t, <2>1 DEF TypeOK, Waiting, InWait
  <2>5. ASSUME NEW u \in Tasks \ late' PROVE Token(u)'
    <3>1. CASE u = t
      <4>1. ~ InList(t) /\ ~ sig[t] /\ \A s \in Tasks \ overtaken : w[s] # t
        BY <1>0, <2>1, <2>4, <2>5, <3>1 DEF Token
      <4>2. \A i \in 1 .. n + 1 : waiters'[i] = t => i = n + 1
        <5>1. \A i \in 1 .. n + 1 : i \in 1 .. n \/ i = n + 1
          OBVIOUS
        <5> QED
          BY <2>2, <4>1, <5>1 DEF InList
      <4> QED
        BY Zenon, <2>1, <2>2, <2>4, <3>1, <4>1, <4>2 DEF Token
    <3>2. CASE u # t
      <4>1. InWait(u)' = InWait(u) /\ Waiting(u)' = Waiting(u) /\ Token(u)
        BY <1>0, <2>1, <2>3, <2>5, <3>2 DEF InWait, Waiting
      <4>2. \A i \in 1 .. n + 1 : waiters'[i] = u => i \in 1 .. n /\ waiters[i] = u
        <5>1. \A i \in 1 .. n + 1 : i \in 1 .. n \/ i = n + 1
          OBVIOUS
        <5> QED
          BY <2>2, <3>2, <5>1
      <4>3. InList(u)' => InList(u)
        BY <2>2, <4>2 DEF InList
      <4> QED
        BY Zenon, <2>1, <2>2, <4>1, <4>2, <4>3 DEF Token
    <3> QED
      BY <3>1, <3>2
  <2>6. ASSUME NEW u \in Tasks, due'[u] PROVE Waiting(u)' \/ pc'[u] = "relock"
    <3>1. due[u] /\ u # t
      BY <2>1, <2>4, <2>6
    <3> QED
      BY <1>0, <2>3, <3>1 DEF Waiting
  <2> QED
    BY <2>5, <2>6 DEF Tokens
<1>5. ASSUME NEW t \in Tasks, wait_overflow(t) PROVE Tokens'
  <2>1. /\ UNCHANGED <<waiters, w, overtaken, late, due, sig>> /\ pc[t] = "push"
        /\ pc' = [pc EXCEPT ![t] = "panic"]
    BY <1>5 DEF wait_overflow, Go, history
  <2>2. ASSUME NEW u \in Tasks
        PROVE (InWait(u)' => InWait(u)) /\ Waiting(u)' = Waiting(u) /\ (pc[u] = "relock" => pc'[u] = "relock")
    BY <1>t, <2>1 DEF InWait, Waiting, TypeOK
  <2> QED
    BY <1>0, <2>1, <2>2, TokenKept DEF Tokens
<1>6. ASSUME NEW t \in Tasks, wait_unlock(t) PROVE Tokens'
  <2>1. /\ UNCHANGED <<waiters, w, overtaken, late, due, sig>> /\ pc[t] = "unlock"
        /\ pc' \in {[pc EXCEPT ![t] = "wait"], [pc EXCEPT ![t] = "poll"]}
    BY <1>6 DEF wait_unlock, Go, history
  <2>2. ASSUME NEW u \in Tasks PROVE InWait(u)' = InWait(u) /\ Waiting(u)' = Waiting(u) /\ (pc[u] = "relock" => pc'[u] = "relock")
    BY <1>t, <2>1 DEF InWait, Waiting, TypeOK
  <2> QED
    BY <1>0, <2>1, <2>2, TokenKept DEF Tokens
<1>e. ASSUME NEW t \in Tasks, Waiting(t), sig[t],
             UNCHANGED <<waiters, w, overtaken, late, due>>,
             pc' = [pc EXCEPT ![t] = "relock"], sig' = [sig EXCEPT ![t] = FALSE]
      PROVE  Tokens'
  <2>1. t \notin late => ~ InList(t)
    BY <1>0, <1>e DEF Token, InWait
  <2>2. ASSUME NEW u \in Tasks
        PROVE /\ InWait(u)' => InWait(u)
              /\ u # t => Waiting(u)' = Waiting(u)
              /\ (pc[u] = "relock" \/ u = t) => pc'[u] = "relock"
              /\ sig'[u] => sig[u]
    BY <1>e, <1>t DEF InWait, Waiting, TypeOK
  <2>3. ASSUME NEW u \in Tasks \ late' PROVE Token(u)'
    <3>1. u \in Tasks \ late /\ Token(u) /\ (InList(u) => u # t)
      BY <1>0, <1>e, <2>1
    <3> QED
      BY <1>e, <2>2, <3>1, TokenKept
  <2>4. ASSUME NEW u \in Tasks, due'[u] PROVE Waiting(u)' \/ pc'[u] = "relock"
    BY <1>0, <1>e, <2>2, <2>4
  <2> QED
    BY <2>3, <2>4 DEF Tokens
<1>7. ASSUME NEW t \in Tasks, wait_wake(t) PROVE Tokens'
  BY <1>7, <1>e DEF wait_wake, Go, Waiting, history
<1>8. ASSUME NEW t \in Tasks, wait_relock(t) PROVE Tokens'
  <2>1. /\ UNCHANGED <<waiters, w, overtaken, late, sig>> /\ pc[t] = "relock"
        /\ pc' = [pc EXCEPT ![t] = "in"] /\ due' = [due EXCEPT ![t] = FALSE]
    BY <1>8 DEF wait_relock, Go
  <2>2. ASSUME NEW u \in Tasks
        PROVE /\ InWait(u)' = InWait(u) /\ Waiting(u)' = Waiting(u)
              /\ u # t => pc'[u] = pc[u] /\ due'[u] = due[u]
    <3>1. pc'[u] = IF u = t THEN "in" ELSE pc[u]
      BY <1>t, <2>1 DEF TypeOK
    <3>2. u # t => due'[u] = due[u]
      BY <1>t, <2>1 DEF TypeOK
    <3>3. InWait(u)' = InWait(u) /\ Waiting(u)' = Waiting(u)
      BY <2>1, <3>1 DEF InWait, Waiting
    <3> QED
      BY <3>1, <3>2, <3>3
  <2>3. ~ due'[t] /\ ~ Waiting(t) /\ ~ InWait(t)
    BY <1>t, <2>1 DEF InWait, Waiting, TypeOK
  <2>4. ASSUME NEW u \in Tasks \ late' PROVE Token(u)'
    <3>1. u \in Tasks \ late /\ Token(u) /\ InList(u)' = InList(u)
      BY <1>0, <2>1, <2>4 DEF InList
    <3> QED
      BY Zenon, <2>1, <2>2, <2>3, <3>1 DEF Token
  <2>5. ASSUME NEW u \in Tasks, due'[u] PROVE Waiting(u)' \/ pc'[u] = "relock"
    BY <1>0, <2>2, <2>3, <2>5
  <2> QED
    BY <2>4, <2>5 DEF Tokens
<1>9. ASSUME NEW t \in Tasks, timed_poll(t) PROVE Tokens'
  <2>1. CASE sig[t]
    BY <1>9, <1>e, <2>1 DEF timed_poll, Go, Waiting, history
  <2>2. CASE ~ sig[t]
    <3>1. UNCHANGED <<waiters, w, overtaken, late, due, sig>> /\ pc' = pc
      BY <1>9, <1>t, <2>2 DEF timed_poll, Go, history, TypeOK
    <3>2. ASSUME NEW u \in Tasks PROVE InWait(u)' = InWait(u) /\ Waiting(u)' = Waiting(u)
      BY SMTT(30), <3>1 DEF InWait, Waiting
    <3> QED
      BY <1>0, <3>1, <3>2, TokenKept DEF Tokens
  <2> QED
    BY <2>1, <2>2
<1>10. ASSUME NEW t \in Tasks, timed_out(t) PROVE Tokens'
  <2>1. UNCHANGED <<w, overtaken, late, due, sig>> /\ pc[t] = "poll" /\ pc' = [pc EXCEPT ![t] = "relock"]
    BY <1>10 DEF timed_out, Go, history
  <2>2. ASSUME NEW u \in Tasks
        PROVE /\ InWait(u)' => InWait(u)
              /\ u # t => Waiting(u)' = Waiting(u)
              /\ (pc[u] = "relock" \/ u = t) => pc'[u] = "relock"
    BY <1>t, <2>1 DEF InWait, Waiting, TypeOK
  <2>3. ASSUME NEW u \in Tasks \ late' PROVE Token(u)'
    <3>1. u \in Tasks \ late /\ Token(u)
      BY <1>0, <2>1, <2>3
    <3>2. /\ InList(u)' => InList(u) /\ u # t
          /\ (\A i, j \in DOMAIN waiters : waiters[i] = u /\ waiters[j] = u => i = j)'
      BY <1>10, <1>t, <3>1, TimedOutKeeps DEF Token
    <3> QED
      BY Zenon, <2>1, <2>2, <3>1, <3>2 DEF Token
  <2>4. ASSUME NEW u \in Tasks, due'[u] PROVE Waiting(u)' \/ pc'[u] = "relock"
    BY <1>0, <2>1, <2>2, <2>4
  <2> QED
    BY <2>3, <2>4 DEF Tokens
<1>11. ASSUME NEW t \in Tasks, osal_cv_signal(t) PROVE Tokens'
  <2> DEFINE h == Head(waiters)
  <2>1. /\ UNCHANGED <<overtaken, late, sig, pc>> /\ waiters # <<>> /\ waiters' = Tail(waiters)
        /\ w' = [w EXCEPT ![t] = h] /\ due' = [due EXCEPT ![h] = @ \/ Waiting(h)]
    BY <1>11 DEF osal_cv_signal
  <2>2. h \in Tasks
    BY <1>t, <2>1 DEF TypeOK
  <2> HIDE DEF h
  <2>3. ASSUME NEW u \in Tasks
        PROVE /\ InWait(u)' = InWait(u) /\ Waiting(u)' = Waiting(u)
              /\ due'[u] <=> due[u] \/ (u = h /\ Waiting(u))
              /\ \A s \in Tasks : w'[s] = u => w[s] = u \/ u = h
    BY <1>t, <2>1, <2>2 DEF InWait, Waiting, TypeOK
  <2>4. ASSUME NEW u \in Tasks \ late' PROVE Token(u)'
    <3>1. u \in Tasks \ late /\ Token(u)
      BY <1>0, <2>1, <2>4
    <3>2. /\ InList(u)' \/ u = h => InList(u)
          /\ (\A i, j \in DOMAIN waiters : waiters[i] = u /\ waiters[j] = u => i = j)'
          /\ u = h => ~ InList(u)'
      BY SMTT(30), <1>t, <2>1, <3>1, PopKeeps DEF Token, TypeOK, h
    <3>3. u = h => Waiting(u)
      BY <3>1, <3>2 DEF Token
    <3> QED
      BY Zenon, <2>1, <2>3, <3>1, <3>2, <3>3 DEF Token
  <2>5. ASSUME NEW u \in Tasks, due'[u] PROVE Waiting(u)' \/ pc'[u] = "relock"
    BY <1>0, <2>1, <2>3, <2>5
  <2> QED
    BY <2>4, <2>5 DEF Tokens
<1>12. ASSUME NEW t \in Tasks, signal_send(t) PROVE Tokens'
  <2>1. /\ UNCHANGED <<waiters, due, pc>> /\ w[t] # None
        /\ sig' = [sig EXCEPT ![w[t]] = TRUE] /\ w' = [w EXCEPT ![t] = None]
        /\ late' = IF t \in overtaken THEN late \cup {w[t]} ELSE late
        /\ overtaken' = overtaken \ {t}
    BY <1>12 DEF signal_send
  <2>2. ASSUME NEW u \in Tasks
        PROVE /\ InWait(u)' = InWait(u) /\ Waiting(u)' = Waiting(u) /\ InList(u)' = InList(u)
              /\ sig'[u] => sig[u] \/ w[t] = u
    BY <1>t, <2>1 DEF InWait, Waiting, TypeOK, InList
  <2>3. ASSUME NEW s \in Tasks, w'[s] \in Tasks PROVE s # t /\ w'[s] = w[s]
    BY <1>t, <2>1, <2>3, OsalCvAssumption DEF TypeOK
  <2>4. ASSUME NEW u \in Tasks \ late' PROVE Token(u)'
    <3>1. u \in Tasks \ late /\ Token(u) /\ (w[t] = u => t \notin overtaken)
      BY <1>0, <2>1, <2>4
    <3>2. sig'[u] /\ InWait(u) => due[u]
      BY Zenon, <2>2, <3>1 DEF Token
    <3>3. \A s \in Tasks \ overtaken' : w'[s] = u /\ InWait(u) => due[u]
      BY <2>1, <2>3, <3>1 DEF Token
    <3> QED
      BY Zenon, <2>1, <2>2, <3>1, <3>2, <3>3 DEF Token
  <2>5. ASSUME NEW u \in Tasks, due'[u] PROVE Waiting(u)' \/ pc'[u] = "relock"
    BY SMTT(30), <1>0, <2>1, <2>2, <2>5
  <2> QED
    BY <2>4, <2>5 DEF Tokens
<1>13. ASSUME NEW t \in Tasks, osal_cv_broadcast(t) PROVE Tokens'
  <2>1. /\ UNCHANGED <<w, overtaken, late, pc>> /\ waiters' = <<>>
        /\ sig' = [x \in Tasks |-> sig[x] \/ InList(x)]
        /\ due' = [x \in Tasks |-> due[x] \/ (InList(x) /\ Waiting(x))]
    BY <1>13 DEF osal_cv_broadcast
  <2>2. ASSUME NEW u \in Tasks
        PROVE /\ InWait(u)' = InWait(u) /\ Waiting(u)' = Waiting(u) /\ ~ InList(u)'
              /\ sig'[u] => sig[u] \/ InList(u)
              /\ due'[u] <=> due[u] \/ (InList(u) /\ Waiting(u))
    <3>1. InWait(u)' = InWait(u) /\ Waiting(u)' = Waiting(u)
      BY <2>1 DEF InWait, Waiting
    <3>2. ~ InList(u)'
      BY <2>1 DEF InList
    <3> QED
      BY Zenon, <2>1, <3>1, <3>2
  <2>3. DOMAIN waiters' = {}
    BY <2>1
  <2>4. ASSUME NEW u \in Tasks \ late' PROVE Token(u)'
    <3>1. u \in Tasks \ late /\ Token(u)
      BY <1>0, <2>1, <2>4
    <3> QED
      BY Zenon, <2>1, <2>2, <2>3, <3>1 DEF Token
  <2>5. ASSUME NEW u \in Tasks, due'[u] PROVE Waiting(u)' \/ pc'[u] = "relock"
    BY <1>0, <2>1, <2>2, <2>5
  <2> QED
    BY <2>4, <2>5 DEF Tokens
<1>14. CASE UNCHANGED vars
  <2>1. UNCHANGED <<waiters, w, overtaken, late, due, sig, pc>>
    BY <1>14 DEF vars, history
  <2>2. ASSUME NEW u \in Tasks PROVE InWait(u)' = InWait(u) /\ Waiting(u)' = Waiting(u)
    BY <2>1 DEF InWait, Waiting
  <2> QED
    BY <1>0, <2>1, <2>2, TokenKept DEF Tokens
<1> QED
  BY <1>1, <1>2, <1>3, <1>4, <1>5, <1>6, <1>7, <1>8, <1>9, <1>10, <1>11, <1>12, <1>13, <1>14 DEF Next, InCall

-----------------------------------------------------------------------------
LEMMA EntriesFromTokens == Inv => EntriesWait
<1> SUFFICES ASSUME Inv, NEW i \in DOMAIN waiters, waiters[i] \notin late
             PROVE  /\ pc[waiters[i]] \in {"unlock", "wait", "poll"}
                    /\ \A j \in DOMAIN waiters : waiters[i] = waiters[j] => i = j
  BY DEF EntriesWait
<1>1. waiters[i] \in Tasks \ late
  BY DEF Inv, TypeOK
<1>2. InList(waiters[i]) /\ Token(waiters[i])
  BY <1>1 DEF Inv, Tokens, InList
<1> QED
  BY <1>2 DEF Token, Waiting

LEMMA CvInv == Spec => []Inv
<1>1. Inv /\ [Next]_vars => Inv'
  BY NextType, NextHeld, NextWakeup, NextTokens DEF Inv
<1> QED
  BY <1>1, InitInv, PTL DEF Spec

(* No task that cv_wait has put to sleep is ever without an entry on the   *)
(* list, a signal pending or a signaller about to send one: for any number *)
(* of tasks, each of which may use both waits.                             *)
THEOREM CvSafe == Spec => []NoLostWakeup
BY CvInv, PTL DEF Inv

(* Every entry is of a task now waiting, once, so that a cv_signal is not  *)
(* spent on a task that has gone, unless a late signal has reached that    *)
(* task: for tasks that use cv_wait and cv_timedwait in any order.         *)
THEOREM CvEntries == Spec => []EntriesWait
BY CvInv, EntriesFromTokens, PTL DEF Inv

(* The waiter list never overflows its array, whatever the tasks do, and   *)
(* the mutex has the task inside it as its owner.                          *)
THEOREM CvTypes == Spec => [](TypeOK /\ Held)
BY CvInv, PTL DEF Inv
=============================================================================
