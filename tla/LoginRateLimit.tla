---------------------------- MODULE LoginRateLimit ----------------------------
(***************************************************************************)
(* The login throttle of app/core/rate_limit.py: for each client address a *)
(* deque of the times of its recent attempts.                              *)
(*                                                                         *)
(* enforce_login_rate_limit has no await, so one call is one step.  Times  *)
(* are counted in ticks, SECOND of them to a second: several attempts may  *)
(* have the same time, and Retry-After is cut to whole seconds.            *)
(***************************************************************************)
EXTENDS Integers, Sequences

CONSTANTS
  Clients,           \* client addresses
  MAX_ATTEMPTS,      \* _MAX_ATTEMPTS
  WINDOW_SECONDS,    \* _WINDOW_SECONDS
  SECOND,            \* ticks of time.monotonic() to a second
  MaxClock           \* the clock stops here (bound)

ASSUME LimitAssumption == MAX_ATTEMPTS \in Nat \ {0}
ASSUME WindowAssumption == WINDOW_SECONDS \in Nat \ {0} /\ SECOND \in Nat \ {0}
ASSUME ClockAssumption == MaxClock \in Nat

WINDOW == WINDOW_SECONDS * SECOND

VARIABLES
  attempts,     \* _attempts
  clock         \* time.monotonic()

\* History variables: no step of the program reads them.
VARIABLES
  admitted,     \* all attempts admitted by this process, oldest first
  answer        \* the last answer to each client

vars == <<attempts, clock, admitted, answer>>

------------------------------------------------------------------------------

\* retry_after is the header of a refusal, and at the time it was sent.
Answers == [verdict : {"none", "admitted", "refused"}, at : Nat, retry_after : Nat]

NoAnswer == [verdict |-> "none", at |-> 0, retry_after |-> 0]

\* A deque never outgrows the limit.
TypeOK ==
  /\ attempts \in [Clients -> Seq(Nat)]
  /\ \A c \in Clients : Len(attempts[c]) <= MAX_ATTEMPTS
  /\ clock \in Nat
  /\ admitted \in [Clients -> Seq(Nat)]
  /\ answer \in [Clients -> Answers]

Init ==
  /\ attempts = [c \in Clients |-> <<>>]
  /\ clock = 0
  /\ admitted = [c \in Clients |-> <<>>]
  /\ answer = [c \in Clients |-> NoAnswer]

------------------------------------------------------------------------------
(* The operators with a suffix (F_Suffix) are faulty variants of F that the   *)
(* properties are tried against; Spec uses none of them.                      *)

\* bucket[0] <= cutoff.
Expired_Early(time) == time + WINDOW <= clock + 1
Expired_Late(time) == time + WINDOW < clock
Expired(time) == time + WINDOW <= clock

\* The loop stops after k entries: those are expired and the next one is not.
PopsFrom(bucket, k) ==
  /\ \A i \in 1..k : Expired(bucket[i])
  /\ k < Len(bucket) => ~Expired(bucket[k + 1])

Full_OffByOne(bucket) == Len(bucket) > MAX_ATTEMPTS
Full(bucket) == Len(bucket) >= MAX_ATTEMPTS

RetryAfter_FromNewest(bucket) ==
  LET seconds == (WINDOW - (clock - bucket[Len(bucket)])) \div SECOND
  IN  IF seconds >= 1 THEN seconds ELSE 1

\* max(1, int(...)): cut to whole seconds, and at least one.
RetryAfter(bucket) ==
  LET seconds == (WINDOW - (clock - bucket[1])) \div SECOND
  IN  IF seconds >= 1 THEN seconds ELSE 1

Refuse(c, bucket) ==
  /\ attempts' = [attempts EXCEPT ![c] = bucket]
  /\ answer' = [answer EXCEPT ![c] = [verdict |-> "refused", at |-> clock,
                                      retry_after |-> RetryAfter(bucket)]]
  /\ UNCHANGED admitted

Admit(c, bucket) ==
  /\ attempts' = [attempts EXCEPT ![c] = Append(bucket, clock)]
  /\ admitted' = [admitted EXCEPT ![c] = Append(@, clock)]
  /\ answer' = [answer EXCEPT ![c] = [verdict |-> "admitted", at |-> clock,
                                      retry_after |-> 0]]

EnforceLoginRateLimit(c) ==
  /\ \E k \in 0..Len(attempts[c]) :
       LET bucket == SubSeq(attempts[c], k + 1, Len(attempts[c])) IN
       /\ PopsFrom(attempts[c], k)
       /\ \/ Full(bucket) /\ Refuse(c, bucket)
          \/ ~Full(bucket) /\ Admit(c, bucket)
  /\ UNCHANGED clock

\* The counters are in the memory of the process.
Restart ==
  /\ attempts' = [c \in Clients |-> <<>>]
  /\ admitted' = [c \in Clients |-> <<>>]
  /\ answer' = [c \in Clients |-> NoAnswer]
  /\ UNCHANGED clock

Tick ==
  /\ clock < MaxClock
  /\ clock' = clock + 1
  /\ UNCHANGED <<attempts, admitted, answer>>

Next == (\E c \in Clients : EnforceLoginRateLimit(c)) \/ Restart \/ Tick

Spec == Init /\ [][Next]_vars

------------------------------------------------------------------------------
(* Properties *)

\* No window of WINDOW_SECONDS, wherever it begins, holds more than
\* MAX_ATTEMPTS admitted attempts of one client, although the deque forgets.
WindowBudget ==
  \A c \in Clients : \A i, j \in DOMAIN admitted[c] :
    j = i + MAX_ATTEMPTS => admitted[c][i] + WINDOW <= admitted[c][j]

\* A client refused has, for the time its Retry-After tells and not quite one
\* second more, a full deque; and it is told to wait no longer than that, but
\* at least a second.
RetryAfterWithinASecond ==
  \A c \in Clients :
    LET a == answer[c]
        roomAt == attempts[c][1] + WINDOW
    IN  a.verdict = "refused" =>
          /\ clock >= a.at
          /\ roomAt < a.at + (a.retry_after + 1) * SECOND
          /\ a.retry_after = 1 \/ a.at + a.retry_after * SECOND <= roomAt

------------------------------------------------------------------------------
(* Refinement *)

Sliding ==
  INSTANCE SlidingWindow WITH
    Limit   <- MAX_ATTEMPTS,
    Window  <- WINDOW,
    now     <- clock,
    log     <- admitted,
    verdict <- [c \in Clients |-> answer[c].verdict]

\* The deque decides as if no attempt were ever forgotten: nobody is admitted
\* over budget, nobody is refused under it.
SlidingSpec == Sliding!Spec
==============================================================================
