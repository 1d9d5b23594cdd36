------------------------ MODULE LoginRateLimit_proof ------------------------
(***************************************************************************)
(* Proofs about LoginRateLimit: the deque holds the tail of the attempts   *)
(* ever admitted, which is all that its decisions depend on.               *)
(***************************************************************************)
EXTENDS LoginRateLimit, TLAPS

------------------------------------------------------------------------------
(* The inductive invariant *)

\* The bucket is the end of the log, and all of the log before it has expired.
Remembers(bucket, log) ==
  /\ Len(bucket) <= Len(log)
  /\ \A i \in 1..Len(bucket) : bucket[i] = log[Len(log) - Len(bucket) + i]
  /\ \A i \in 1..(Len(log) - Len(bucket)) : Expired(log[i])

DequeIsTail == \A c \in Clients : Remembers(attempts[c], admitted[c])

Past == \A c \in Clients : \A i \in 1..Len(admitted[c]) : admitted[c][i] <= clock

\* Who is refused finds an attempt in the way.
RefusedByDeque ==
  \A c \in Clients : answer[c].verdict = "refused" => Len(attempts[c]) > 0

IInv ==
  /\ TypeOK
  /\ DequeIsTail
  /\ Past
  /\ RefusedByDeque
  /\ WindowBudget
  /\ RetryAfterWithinASecond

\* The window is some number of ticks, at least one.
LEMMA WindowPositive == WINDOW \in Nat /\ WINDOW > 0
  BY WindowAssumption DEF WINDOW

\* Cutting a positive wait to whole seconds, and at least one, loses less than
\* a second and adds none unless the wait was shorter than one.
LEMMA WholeSeconds ==
  ASSUME NEW wait \in Int, wait > 0,
         NEW told, told = IF wait \div SECOND >= 1 THEN wait \div SECOND ELSE 1
  PROVE  /\ told \in Nat
         /\ wait < (told + 1) * SECOND
         /\ told = 1 \/ told * SECOND <= wait
<1> DEFINE q == wait \div SECOND
<1>1. SECOND \in Int /\ SECOND > 0
  BY WindowAssumption
<1>2. q \in Int /\ q * SECOND <= wait /\ wait < (q + 1) * SECOND
  BY <1>1, Z3
<1>3. CASE q >= 1
  BY <1>1, <1>2, <1>3
<1>4. CASE ~(q >= 1)
  <2>1. q + 1 <= 1 /\ told = 1
    BY <1>2, <1>4
  <2>2. (q + 1) * SECOND <= 1 * SECOND
    BY <2>1, <1>1, <1>2
  <2>3. QED
    BY <2>1, <2>2, <1>1, <1>2
<1>5. QED
  BY <1>3, <1>4

------------------------------------------------------------------------------
(* The deque *)

\* Popping the expired entries forgets nothing that counts.
LEMMA PoppedRemembers ==
  ASSUME clock \in Nat,
         NEW bucket \in Seq(Nat), NEW log \in Seq(Nat), Remembers(bucket, log),
         NEW k \in 0..Len(bucket), PopsFrom(bucket, k),
         NEW rest, rest = SubSeq(bucket, k + 1, Len(bucket))
  PROVE  /\ rest \in Seq(Nat)
         /\ Len(rest) = Len(bucket) - k
         /\ Remembers(rest, log)
         /\ Len(rest) > 0 => ~Expired(rest[1])
<1>1. /\ rest \in Seq(Nat)
      /\ Len(rest) = Len(bucket) - k
      /\ \A i \in 1..(Len(bucket) - k) : rest[i] = bucket[k + i]
  OBVIOUS
<1>2. \A i \in 1..Len(rest) : rest[i] = log[Len(log) - Len(rest) + i]
  <2> SUFFICES ASSUME NEW i \in 1..Len(rest)
               PROVE  rest[i] = log[Len(log) - Len(rest) + i]
    OBVIOUS
  <2>1. k + i \in 1..Len(bucket)
    BY <1>1
  <2>2. rest[i] = log[Len(log) - Len(bucket) + (k + i)]
    BY <1>1, <2>1 DEF Remembers
  <2>3. Len(log) - Len(bucket) + (k + i) = Len(log) - Len(rest) + i
    BY <1>1
  <2>4. QED
    BY <2>2, <2>3
<1>3. \A i \in 1..(Len(log) - Len(rest)) : Expired(log[i])
  <2> SUFFICES ASSUME NEW i \in 1..(Len(log) - Len(rest))
               PROVE  Expired(log[i])
    OBVIOUS
  <2>1. CASE i <= Len(log) - Len(bucket)
    BY <2>1 DEF Remembers
  <2>2. CASE ~(i <= Len(log) - Len(bucket))
    <3> DEFINE j == i - (Len(log) - Len(bucket))
    <3>1. j \in 1..k /\ j \in 1..Len(bucket)
      BY <2>2, <1>1
    <3>2. bucket[j] = log[Len(log) - Len(bucket) + j]
      BY <3>1 DEF Remembers
    <3>3. Len(log) - Len(bucket) + j = i
      BY <1>1
    <3>4. Expired(bucket[j])
      BY <3>1 DEF PopsFrom
    <3>5. QED
      BY <3>2, <3>3, <3>4
  <2>3. QED
    BY <2>1, <2>2
<1>4. Len(rest) > 0 => ~Expired(rest[1])
  BY <1>1 DEF PopsFrom
<1>5. Len(rest) <= Len(log)
  BY <1>1 DEF Remembers
<1>6. QED
  BY <1>1, <1>2, <1>3, <1>4, <1>5 DEF Remembers

\* Recording an attempt records it at both ends.
LEMMA AppendedRemembers ==
  ASSUME NEW bucket \in Seq(Nat), NEW log \in Seq(Nat), NEW time \in Nat,
         Remembers(bucket, log)
  PROVE  Remembers(Append(bucket, time), Append(log, time))
<1> DEFINE b == Append(bucket, time)  l == Append(log, time)
<1>1. Len(b) = Len(bucket) + 1 /\ Len(l) = Len(log) + 1
  OBVIOUS
<1>2. \A i \in 1..Len(bucket) : b[i] = bucket[i]
  OBVIOUS
<1>3. \A i \in 1..Len(log) : l[i] = log[i]
  OBVIOUS
<1>4. b[Len(b)] = time /\ l[Len(l)] = time
  OBVIOUS
<1> HIDE DEF b, l
<1>5. ASSUME NEW i \in 1..Len(b) PROVE b[i] = l[Len(l) - Len(b) + i]
  <2>1. CASE i \in 1..Len(bucket)
    <3>1. bucket[i] = log[Len(log) - Len(bucket) + i]
      BY <2>1 DEF Remembers
    <3>2. Len(log) - Len(bucket) + i \in 1..Len(log)
      BY <2>1 DEF Remembers
    <3>3. Len(l) - Len(b) + i = Len(log) - Len(bucket) + i
      BY <1>1
    <3>4. QED
      BY <3>1, <3>2, <3>3, <2>1, <1>2, <1>3
  <2>2. CASE i = Len(b)
    BY <2>2, <1>1, <1>4
  <2>3. QED
    BY <2>1, <2>2, <1>1
<1>6. ASSUME NEW i \in 1..(Len(l) - Len(b)) PROVE Expired(l[i])
  <2>1. i \in 1..(Len(log) - Len(bucket)) /\ i \in 1..Len(log)
    BY <1>1 DEF Remembers
  <2>2. QED
    BY <2>1, <1>3 DEF Remembers
<1>7. Len(b) <= Len(l)
  BY <1>1 DEF Remembers
<1>8. Remembers(b, l)
  BY <1>5, <1>6, <1>7 DEF Remembers
<1>9. QED
  BY <1>8 DEF b, l

------------------------------------------------------------------------------
(* The inductive invariant is inductive *)

\* The process starts with no attempt.
LEMMA InitIInv == Init => IInv
<1> SUFFICES ASSUME Init PROVE IInv
  OBVIOUS
<1> USE LimitAssumption DEF Init, NoAnswer
<1>1. TypeOK
  BY DEF TypeOK, Answers
<1>2. DequeIsTail /\ Past /\ WindowBudget
  BY DEF DequeIsTail, Remembers, Past, WindowBudget
<1>3. RefusedByDeque /\ RetryAfterWithinASecond
  BY DEF RefusedByDeque, RetryAfterWithinASecond
<1>4. QED
  BY <1>1, <1>2, <1>3 DEF IInv

\* What is known of one client.
ClientOK(bucket, log, a) ==
  /\ bucket \in Seq(Nat) /\ Len(bucket) <= MAX_ATTEMPTS
  /\ log \in Seq(Nat)
  /\ a \in Answers
  /\ Remembers(bucket, log)
  /\ \A i \in 1..Len(log) : log[i] <= clock
  /\ \A i, j \in 1..Len(log) : j = i + MAX_ATTEMPTS => log[i] + WINDOW <= log[j]
  /\ a.verdict = "refused" =>
       /\ Len(bucket) > 0
       /\ clock >= a.at
       /\ bucket[1] + WINDOW < a.at + (a.retry_after + 1) * SECOND
       /\ a.retry_after = 1 \/ a.at + a.retry_after * SECOND <= bucket[1] + WINDOW

Functions ==
  /\ attempts = [c \in Clients |-> attempts[c]]
  /\ admitted = [c \in Clients |-> admitted[c]]
  /\ answer = [c \in Clients |-> answer[c]]

AllClientsOK ==
  /\ clock \in Nat
  /\ Functions
  /\ \A c \in Clients : ClientOK(attempts[c], admitted[c], answer[c])

\* The invariant speaks of each client alone.
LEMMA ByClient == IInv <=> AllClientsOK
<1>1. ASSUME IInv PROVE /\ clock \in Nat
                       /\ Functions
                       /\ \A c \in Clients : ClientOK(attempts[c], admitted[c], answer[c])
  <2>1. clock \in Nat /\ Functions
    BY <1>1 DEF IInv, TypeOK, Functions
  <2>2. ASSUME NEW c \in Clients PROVE ClientOK(attempts[c], admitted[c], answer[c])
    BY <1>1, <2>2 DEF IInv, TypeOK, DequeIsTail, Past, RefusedByDeque, WindowBudget,
                      RetryAfterWithinASecond, ClientOK
  <2>3. QED
    BY <2>1, <2>2
<1>2. ASSUME clock \in Nat, Functions,
             \A c \in Clients : ClientOK(attempts[c], admitted[c], answer[c])
      PROVE  IInv
  <2>1. TypeOK
    <3>1. attempts \in [Clients -> Seq(Nat)] /\ admitted \in [Clients -> Seq(Nat)]
          /\ answer \in [Clients -> Answers]
      BY <1>2 DEF Functions, ClientOK
    <3>2. QED
      BY <1>2, <3>1 DEF TypeOK, ClientOK
  <2>2. DequeIsTail /\ Past /\ RefusedByDeque
    BY <1>2 DEF DequeIsTail, Past, RefusedByDeque, ClientOK
  <2>3. WindowBudget
    BY <1>2 DEF WindowBudget, ClientOK
  <2>4. RetryAfterWithinASecond
    BY <1>2 DEF RetryAfterWithinASecond, ClientOK
  <2>5. QED
    BY <2>1, <2>2, <2>3, <2>4 DEF IInv
<1>3. QED
  BY <1>1, <1>2 DEF AllClientsOK

Refusal(bucket) ==
  [verdict |-> "refused", at |-> clock, retry_after |-> RetryAfter(bucket)]

Admission == [verdict |-> "admitted", at |-> clock, retry_after |-> 0]

\* A refusal leaves a client with a full deque and an honest Retry-After.
LEMMA RefusalKeeps ==
  ASSUME clock \in Nat,
         NEW bucket, NEW log, NEW a, ClientOK(bucket, log, a),
         NEW k \in 0..Len(bucket), PopsFrom(bucket, k),
         NEW rest, rest = SubSeq(bucket, k + 1, Len(bucket)), Full(rest)
  PROVE  ClientOK(rest, log, Refusal(rest))
<1> DEFINE head == rest[1]  wait == head + WINDOW - clock
<1>1. bucket \in Seq(Nat) /\ log \in Seq(Nat) /\ Len(bucket) <= MAX_ATTEMPTS
      /\ Remembers(bucket, log)
  BY DEF ClientOK
<1>2. /\ rest \in Seq(Nat)
      /\ Len(rest) = Len(bucket) - k
      /\ Remembers(rest, log)
      /\ Len(rest) > 0 => ~Expired(rest[1])
  BY <1>1, PoppedRemembers, ZenonT(30)
<1>3. Len(rest) > 0 /\ Len(rest) <= MAX_ATTEMPTS
  BY <1>1, <1>2, LimitAssumption DEF Full
<1>4. head \in Nat /\ WINDOW \in Nat /\ clock \in Nat
  BY <1>2, <1>3, WindowPositive
<1>5. wait \in Int /\ wait > 0
  <2>1. ~(head + WINDOW <= clock)
    BY <1>2, <1>3 DEF Expired
  <2> HIDE DEF head
  <2>2. QED
    BY <2>1, <1>4
<1>6. WINDOW - (clock - rest[1]) = wait
  <2>1. WINDOW - (clock - head) = wait
    <3> HIDE DEF head
    <3>1. QED
      BY <1>4
  <2>2. QED
    BY <2>1
<1> DEFINE told == RetryAfter(rest)
<1>7. told = IF wait \div SECOND >= 1 THEN wait \div SECOND ELSE 1
  BY <1>6 DEF RetryAfter
<1> HIDE DEF head, wait, told
<1>8. /\ told \in Nat
      /\ wait < (told + 1) * SECOND
      /\ told = 1 \/ told * SECOND <= wait
  BY <1>5, <1>7, WholeSeconds
<1>9. SECOND \in Nat
  BY WindowAssumption
<1>10. (told + 1) * SECOND \in Nat /\ told * SECOND \in Nat
  BY <1>8, <1>9
<1>11. /\ head + WINDOW < clock + (told + 1) * SECOND
       /\ told = 1 \/ clock + told * SECOND <= head + WINDOW
  <2> DEFINE x == (told + 1) * SECOND  y == told * SECOND
  <2>1. x \in Nat /\ y \in Nat /\ wait < x /\ (told = 1 \/ y <= wait)
    BY <1>8, <1>10
  <2> HIDE DEF x, y
  <2>2. head + WINDOW < clock + x /\ (told = 1 \/ clock + y <= head + WINDOW)
    BY <2>1, <1>4 DEF wait
  <2>3. QED
    BY <2>2 DEF x, y
<1>12. Refusal(rest) = [verdict |-> "refused", at |-> clock, retry_after |-> told]
  BY DEF Refusal, told
<1> DEFINE r == Refusal(rest)
<1>13. r.verdict = "refused" /\ r.at = clock /\ r.retry_after = told
  BY <1>12
<1>14. r \in Answers
  BY <1>8, <1>12 DEF Answers
<1> HIDE DEF r
<1>15. /\ clock >= r.at
       /\ head + WINDOW < r.at + (r.retry_after + 1) * SECOND
       /\ r.retry_after = 1 \/ r.at + r.retry_after * SECOND <= head + WINDOW
  <2>1. clock >= r.at
    BY <1>4, <1>13
  <2>2. QED
    BY ONLY <2>1, <1>11, <1>13, Zenon
<1>16. /\ \A i \in 1..Len(log) : log[i] <= clock
       /\ \A i, j \in 1..Len(log) : j = i + MAX_ATTEMPTS => log[i] + WINDOW <= log[j]
  BY DEF ClientOK
<1>17. ClientOK(rest, log, r)
  BY <1>1, <1>2, <1>3, <1>14, <1>15, <1>16 DEF ClientOK, head
<1>18. QED
  BY <1>17 DEF r

\* An attempt is only admitted when the one MAX_ATTEMPTS places back expired.
LEMMA RoomWhenNotFull ==
  ASSUME NEW bucket \in Seq(Nat), NEW log \in Seq(Nat), Remembers(bucket, log),
         ~Full(bucket), Len(log) >= MAX_ATTEMPTS
  PROVE  Expired(log[Len(log) - MAX_ATTEMPTS + 1])
<1>1. Len(log) - MAX_ATTEMPTS + 1 \in 1..(Len(log) - Len(bucket))
  BY LimitAssumption DEF Full
<1>2. QED
  BY <1>1 DEF Remembers

\* An admission keeps to the budget.
LEMMA AdmissionKeeps ==
  ASSUME clock \in Nat,
         NEW bucket, NEW log, NEW a, ClientOK(bucket, log, a),
         NEW k \in 0..Len(bucket), PopsFrom(bucket, k),
         NEW rest, rest = SubSeq(bucket, k + 1, Len(bucket)), ~Full(rest)
  PROVE  ClientOK(Append(rest, clock), Append(log, clock), Admission)
<1> DEFINE b == Append(rest, clock)  l == Append(log, clock)
<1>1. bucket \in Seq(Nat) /\ log \in Seq(Nat) /\ Remembers(bucket, log)
  BY DEF ClientOK
<1>2. rest \in Seq(Nat) /\ Remembers(rest, log)
  BY <1>1, PoppedRemembers, ZenonT(30)
<1>3. b \in Seq(Nat) /\ l \in Seq(Nat) /\ Len(b) = Len(rest) + 1 /\ Len(l) = Len(log) + 1
  BY <1>1, <1>2
<1>4. Len(b) <= MAX_ATTEMPTS
  BY <1>2, <1>3, LimitAssumption DEF Full
<1>5. Remembers(b, l)
  BY <1>1, <1>2, AppendedRemembers
<1>6. (\A i \in 1..Len(log) : l[i] = log[i]) /\ l[Len(log) + 1] = clock
  BY <1>1
<1> HIDE DEF b, l
<1>7. ASSUME NEW i \in 1..Len(l) PROVE l[i] <= clock
  <2>1. CASE i \in 1..Len(log)
    BY <1>6, <2>1 DEF ClientOK
  <2>2. CASE i = Len(log) + 1
    BY <1>6, <2>2
  <2>3. QED
    BY <1>1, <1>3, <2>1, <2>2
<1>8. ASSUME NEW i \in 1..Len(l), NEW j \in 1..Len(l), j = i + MAX_ATTEMPTS
      PROVE  l[i] + WINDOW <= l[j]
  <2>0. i \in 1..Len(log)
    BY <1>1, <1>3, <1>8, LimitAssumption
  <2>1. CASE j \in 1..Len(log)
    <3>1. log[i] + WINDOW <= log[j]
      BY <1>8, <2>0, <2>1 DEF ClientOK
    <3>2. QED
      BY <3>1, <2>0, <2>1, <1>6
  <2>2. CASE j = Len(log) + 1
    <3>0. Len(log) \in Nat
      BY <1>1
    <3>1. i = Len(log) - MAX_ATTEMPTS + 1 /\ Len(log) >= MAX_ATTEMPTS
      BY <3>0, <1>8, <2>2, <2>0, LimitAssumption
    <3>2. Expired(log[i])
      BY <1>1, <1>2, <3>1, RoomWhenNotFull
    <3>3. QED
      BY <3>2, <2>0, <2>2, <1>6 DEF Expired
  <2>3. QED
    BY <1>1, <1>3, <2>1, <2>2
<1>9. Admission \in Answers /\ Admission.verdict # "refused"
  BY DEF Admission, Answers
<1>10. ClientOK(b, l, Admission)
  BY <1>3, <1>4, <1>5, <1>7, <1>8, <1>9 DEF ClientOK
<1>11. QED
  BY <1>10 DEF b, l

\* What a call does for its client, and that it does nothing for the others.
LEMMA CallIsDecision ==
  ASSUME IInv, NEW c \in Clients, EnforceLoginRateLimit(c)
  PROVE  /\ clock' = clock
         /\ Functions'
         /\ \A d \in Clients \ {c} : /\ attempts'[d] = attempts[d]
                                     /\ admitted'[d] = admitted[d]
                                     /\ answer'[d] = answer[d]
         /\ ClientOK(attempts'[c], admitted'[c], answer'[c])
<1>1. /\ clock \in Nat /\ Functions
      /\ ClientOK(attempts[c], admitted[c], answer[c])
  BY ByClient DEF AllClientsOK
<1>2. PICK k \in 0..Len(attempts[c]) :
        /\ PopsFrom(attempts[c], k)
        /\ \/ Full(SubSeq(attempts[c], k + 1, Len(attempts[c])))
              /\ Refuse(c, SubSeq(attempts[c], k + 1, Len(attempts[c])))
           \/ ~Full(SubSeq(attempts[c], k + 1, Len(attempts[c])))
              /\ Admit(c, SubSeq(attempts[c], k + 1, Len(attempts[c])))
  BY DEF EnforceLoginRateLimit
<1> DEFINE rest == SubSeq(attempts[c], k + 1, Len(attempts[c]))
<1>3. clock' = clock
  BY DEF EnforceLoginRateLimit
<1>4. CASE Full(rest) /\ Refuse(c, rest)
  <2>1. ClientOK(rest, admitted[c], Refusal(rest))
    BY <1>1, <1>2, <1>4, RefusalKeeps
  <2> HIDE DEF rest
  <2>2. /\ attempts' = [attempts EXCEPT ![c] = rest]
        /\ answer' = [answer EXCEPT ![c] = Refusal(rest)]
        /\ admitted' = admitted
    BY <1>4 DEF Refuse, Refusal
  <2>3. attempts'[c] = rest /\ answer'[c] = Refusal(rest) /\ admitted'[c] = admitted[c]
    BY <1>1, <2>2 DEF Functions
  <2>4. Functions'
    BY <1>1, <2>2 DEF Functions
  <2>5. QED
    BY <1>1, <1>3, <2>1, <2>2, <2>3, <2>4 DEF Functions
<1>5. CASE ~Full(rest) /\ Admit(c, rest)
  <2>1. ClientOK(Append(rest, clock), Append(admitted[c], clock), Admission)
    BY <1>1, <1>2, <1>5, AdmissionKeeps
  <2> HIDE DEF rest
  <2>2. /\ attempts' = [attempts EXCEPT ![c] = Append(rest, clock)]
        /\ admitted' = [admitted EXCEPT ![c] = Append(admitted[c], clock)]
        /\ answer' = [answer EXCEPT ![c] = Admission]
    BY <1>5 DEF Admit, Admission
  <2>3. /\ attempts'[c] = Append(rest, clock)
        /\ admitted'[c] = Append(admitted[c], clock)
        /\ answer'[c] = Admission
    BY <1>1, <2>2 DEF Functions
  <2>4. Functions'
    BY <1>1, <2>2 DEF Functions
  <2>5. QED
    BY <1>1, <1>3, <2>1, <2>2, <2>3, <2>4 DEF Functions
<1>6. QED
  BY <1>2, <1>4, <1>5

\* IInv is inductive.
LEMMA StepIInv == IInv /\ [Next]_vars => IInv'
<1> SUFFICES ASSUME IInv, [Next]_vars PROVE IInv'
  OBVIOUS
<1>1. /\ clock \in Nat /\ Functions
      /\ \A c \in Clients : ClientOK(attempts[c], admitted[c], answer[c])
  BY ByClient DEF AllClientsOK
<1>0. AllClientsOK' => IInv'
  BY ByClient, PTL
<1>2. ASSUME NEW c \in Clients, EnforceLoginRateLimit(c) PROVE IInv'
  <2>1. /\ clock' = clock
        /\ Functions'
        /\ \A d \in Clients \ {c} : /\ attempts'[d] = attempts[d]
                                    /\ admitted'[d] = admitted[d]
                                    /\ answer'[d] = answer[d]
        /\ ClientOK(attempts'[c], admitted'[c], answer'[c])
    BY <1>2, CallIsDecision
  <2>2. ASSUME NEW d \in Clients PROVE ClientOK(attempts'[d], admitted'[d], answer'[d])
    BY <1>1, <2>1
  <2>3. ASSUME NEW d \in Clients PROVE ClientOK(attempts[d], admitted[d], answer[d])'
    BY <2>1, <2>2 DEF ClientOK, Remembers, Expired
  <2>4. QED
    BY <1>0, <1>1, <2>1, <2>3 DEF AllClientsOK
<1>3. CASE Restart
  <2>1. /\ clock' = clock
        /\ attempts' = [c \in Clients |-> <<>>]
        /\ admitted' = [c \in Clients |-> <<>>]
        /\ answer' = [c \in Clients |-> NoAnswer]
    BY <1>3 DEF Restart
  <2>2. Functions'
    BY <2>1 DEF Functions
  <2>3. ASSUME NEW c \in Clients PROVE ClientOK(attempts[c], admitted[c], answer[c])'
    BY <1>1, <2>1, LimitAssumption DEF ClientOK, Remembers, NoAnswer, Answers
  <2>4. QED
    BY <1>0, <1>1, <2>1, <2>2, <2>3 DEF AllClientsOK
<1>4. CASE Tick
  <2>1. clock' = clock + 1 /\ attempts' = attempts /\ admitted' = admitted /\ answer' = answer
    BY <1>4 DEF Tick
  <2>2. Functions' /\ clock' \in Nat
    BY <1>1, <2>1 DEF Functions
  <2>3. ASSUME NEW c \in Clients PROVE ClientOK(attempts[c], admitted[c], answer[c])'
    <3> DEFINE b == attempts[c]  l == admitted[c]  a == answer[c]
    <3>1. ClientOK(b, l, a) /\ b' = b /\ l' = l /\ a' = a
      BY <1>1, <2>1
    <3>2. \A i \in 1..Len(l) : l[i] \in Nat
      BY <3>1 DEF ClientOK
    <3>3. (\A i \in 1..Len(l) : l[i] <= clock)'
      BY <1>1, <2>1, <3>1, <3>2 DEF ClientOK
    <3>4. Remembers(b, l)'
      <4>1. ASSUME NEW i \in 1..(Len(l) - Len(b)) PROVE Expired(l[i])'
        <5>1. i \in 1..Len(l) /\ Expired(l[i])
          BY <3>1 DEF ClientOK, Remembers
        <5>2. l[i] + WINDOW \in Nat
          BY <3>2, <5>1, WindowPositive
        <5>3. QED
          BY <1>1, <2>1, <5>1, <5>2 DEF Expired
      <4>2. QED
        BY <2>1, <3>1, <4>1 DEF ClientOK, Remembers
    <3>5. (a.verdict = "refused" => clock >= a.at)'
      BY <1>1, <2>1, <3>1 DEF ClientOK, Answers
    <3>6. QED
      BY <2>1, <3>1, <3>3, <3>4, <3>5 DEF ClientOK
  <2>4. QED
    BY <1>0, <2>2, <2>3 DEF AllClientsOK
<1>5. CASE UNCHANGED vars
  <2>1. clock' = clock /\ attempts' = attempts /\ admitted' = admitted /\ answer' = answer
    BY <1>5 DEF vars
  <2>2. QED
    BY <1>0, <1>1, <2>1 DEF AllClientsOK, Functions, ClientOK, Remembers, Expired
<1>6. QED
  BY <1>2, <1>3, <1>4, <1>5 DEF Next

------------------------------------------------------------------------------
(* Theorems *)

\* The inductive invariant holds in every reachable state, for any clients, any
\* limit, any window and any length of a tick.
THEOREM Invariance == Spec => []IInv
  BY InitIInv, StepIInv, PTL DEF Spec

\* Every reachable state is well typed, and no deque outgrows the limit.
THEOREM TypeCorrect == Spec => []TypeOK
<1>1. IInv => TypeOK
  BY DEF IInv
<1>2. QED
  BY <1>1, Invariance, PTL

\* No window holds more than MAX_ATTEMPTS admitted attempts of one client.
THEOREM NoWindowOverfull == Spec => []WindowBudget
<1>1. IInv => WindowBudget
  BY DEF IInv
<1>2. QED
  BY <1>1, Invariance, PTL

\* A refused client finds room within a second of the time it was told.
THEOREM WaitIsHonest == Spec => []RetryAfterWithinASecond
<1>1. IInv => RetryAfterWithinASecond
  BY DEF IInv
<1>2. QED
  BY <1>1, Invariance, PTL

------------------------------------------------------------------------------
(* Refinement *)

Verdicts == [c \in Clients |-> answer[c].verdict]

\* The attempt MAX_ATTEMPTS places back stands at the head of a full deque.
LEMMA NoRoomWhenFull ==
  ASSUME NEW bucket \in Seq(Nat), NEW log \in Seq(Nat), Remembers(bucket, log),
         Len(bucket) = MAX_ATTEMPTS, ~Expired(bucket[1])
  PROVE  Len(log) >= MAX_ATTEMPTS /\ ~Expired(log[Len(log) - MAX_ATTEMPTS + 1])
<1>1. Len(log) >= MAX_ATTEMPTS
  BY DEF Remembers
<1>2. 1 \in 1..Len(bucket)
  BY LimitAssumption
<1>3. bucket[1] = log[Len(log) - MAX_ATTEMPTS + 1]
  BY <1>2 DEF Remembers
<1>4. QED
  BY <1>1, <1>3

\* The attempt MAX_ATTEMPTS places back, if there is one, has expired.
HasRoom(log) == Len(log) >= MAX_ATTEMPTS => Expired(log[Len(log) - MAX_ATTEMPTS + 1])

\* A popped deque is full exactly when the log leaves no room.
LEMMA DequeDecides ==
  ASSUME clock \in Nat,
         NEW bucket, NEW log, NEW a, ClientOK(bucket, log, a),
         NEW k \in 0..Len(bucket), PopsFrom(bucket, k),
         NEW rest, rest = SubSeq(bucket, k + 1, Len(bucket))
  PROVE  Full(rest) <=> ~HasRoom(log)
<1>1. bucket \in Seq(Nat) /\ log \in Seq(Nat) /\ Len(bucket) <= MAX_ATTEMPTS
      /\ Remembers(bucket, log)
  BY DEF ClientOK
<1>2. /\ rest \in Seq(Nat)
      /\ Len(rest) = Len(bucket) - k
      /\ Remembers(rest, log)
      /\ Len(rest) > 0 => ~Expired(rest[1])
  BY <1>1, PoppedRemembers, ZenonT(30)
<1>3. CASE Full(rest)
  <2>1. Len(rest) = MAX_ATTEMPTS /\ Len(rest) > 0
    BY <1>1, <1>2, <1>3, LimitAssumption DEF Full
  <2>2. QED
    BY <1>1, <1>2, <1>3, <2>1, NoRoomWhenFull DEF HasRoom
<1>4. CASE ~Full(rest)
  BY <1>1, <1>2, <1>4, RoomWhenNotFull DEF HasRoom
<1>5. QED
  BY <1>3, <1>4

\* Every step of the limiter is a step of the sliding window, or none.
LEMMA StepSliding == IInv /\ [Next]_vars => [Sliding!Next]_(Sliding!window)
<1> SUFFICES ASSUME IInv, [Next]_vars PROVE [Sliding!Next]_(Sliding!window)
  OBVIOUS
<1> USE DEF Sliding!window
<1>1. /\ clock \in Nat /\ Functions
      /\ \A c \in Clients : ClientOK(attempts[c], admitted[c], answer[c])
  BY ByClient DEF AllClientsOK
<1>2. ASSUME NEW c \in Clients, EnforceLoginRateLimit(c)
      PROVE  Sliding!Admit(c) \/ Sliding!Refuse(c)
  <2>1. PICK k \in 0..Len(attempts[c]) :
        /\ PopsFrom(attempts[c], k)
        /\ \/ Full(SubSeq(attempts[c], k + 1, Len(attempts[c])))
              /\ Refuse(c, SubSeq(attempts[c], k + 1, Len(attempts[c])))
           \/ ~Full(SubSeq(attempts[c], k + 1, Len(attempts[c])))
              /\ Admit(c, SubSeq(attempts[c], k + 1, Len(attempts[c])))
    BY <1>2 DEF EnforceLoginRateLimit
  <2> DEFINE rest == SubSeq(attempts[c], k + 1, Len(attempts[c]))
  <2>2. clock' = clock
    BY <1>2 DEF EnforceLoginRateLimit
  <2>3. ClientOK(attempts[c], admitted[c], answer[c])
    BY <1>1
  <2>4. Full(rest) <=> ~Sliding!Room(c)
    <3>1. Full(rest) <=> ~HasRoom(admitted[c])
      BY <1>1, <2>1, <2>3, DequeDecides
    <3>2. QED
      BY <3>1 DEF HasRoom, Sliding!Room, Expired
  <2>5. CASE Full(rest) /\ Refuse(c, rest)
    <3>1. ~Sliding!Room(c)
      BY <2>4, <2>5
    <3>2. /\ admitted' = admitted
          /\ answer' = [answer EXCEPT ![c] = Refusal(rest)]
      BY <2>5 DEF Refuse, Refusal
    <3>3. Refusal(rest).verdict = "refused"
      BY DEF Refusal
    <3> HIDE DEF rest
    <3>4. Verdicts' = [Verdicts EXCEPT ![c] = "refused"]
      BY <1>1, <3>2, <3>3 DEF Verdicts, Functions
    <3>5. QED
      BY <2>2, <3>1, <3>2, <3>4 DEF Sliding!Refuse, Verdicts
  <2>6. CASE ~Full(rest) /\ Admit(c, rest)
    <3>1. Sliding!Room(c)
      BY <2>4, <2>6
    <3> HIDE DEF rest
    <3>2. /\ admitted' = [admitted EXCEPT ![c] = Append(@, clock)]
          /\ answer' = [answer EXCEPT ![c] = Admission]
      BY <2>6 DEF Admit, Admission
    <3>3. Admission.verdict = "admitted"
      BY DEF Admission
    <3>4. Verdicts' = [Verdicts EXCEPT ![c] = "admitted"]
      BY <1>1, <3>2, <3>3 DEF Verdicts, Functions
    <3>5. QED
      BY <2>2, <3>1, <3>2, <3>4 DEF Sliding!Admit, Verdicts
  <2>7. QED
    BY <2>1, <2>5, <2>6
<1>3. CASE Restart
  <2>1. Verdicts' = [c \in Clients |-> "none"]
    BY <1>3 DEF Restart, Verdicts, NoAnswer
  <2>2. QED
    BY <1>3, <2>1 DEF Restart, Verdicts, Sliding!Restart, Sliding!Next
<1>4. CASE Tick
  BY <1>4 DEF Tick, Sliding!Pass, Sliding!Next
<1>5. CASE UNCHANGED vars
  BY <1>5 DEF vars
<1>6. QED
  BY <1>2, <1>3, <1>4, <1>5 DEF Next, Sliding!Next

\* Nobody is admitted over budget and nobody is refused under it: the deque,
\* which forgets, decides like the log, which does not.
THEOREM ImplementsSlidingWindow == Spec => SlidingSpec
<1>1. Init => Sliding!Init
  BY DEF Init, Sliding!Init, NoAnswer
<1>2. QED
  BY <1>1, StepSliding, Invariance, PTL DEF Spec, SlidingSpec, Sliding!Spec
=============================================================================
