--------------------------- MODULE TransportProofs ---------------------------
(***************************************************************************)
(* Proofs about Transport, for deadlines of every width, every timeout and *)
(* buffer length, and any number of partial writes, spurious returns of    *)
(* epoll_wait and stolen readiness.                                        *)
(***************************************************************************)
EXTENDS Transport, TLAPS

-----------------------------------------------------------------------------
(* Arithmetic *)

(* What fits into a uint64_t does not wrap. *)
LEMMA NoWrap == \A x \in 0 .. UintMax : Wrap(x) = x
BY ConstantsAssumption, Z3 DEF Wrap

(* The numbers the constants are *)
LEMMA Widths ==
    /\ IntMax \in Nat /\ UintMax \in Nat /\ UintMax = 2 * IntMax + 1 /\ Ms \in Nat \ {0}
    /\ Int32Max \in Nat \ {0} /\ MaxNow \in Nat /\ 2 * MaxNow + Ms < IntMax
BY ConstantsAssumption

(* deadline_after saturates, and is the exact sum otherwise. *)
LEMMA DeadlineAfterIs ==
    ASSUME now \in Nat, now < IntMax, NEW ns \in 0 .. UintMax
    PROVE  /\ DeadlineAfter(ns) \in 0 .. UintMax
           /\ DeadlineAfter(ns) = NO_DEADLINE \/ DeadlineAfter(ns) = now + ns
<1>1. CASE ns > NO_DEADLINE - now
  BY <1>1, Widths DEF DeadlineAfter, NO_DEADLINE
<1>2. CASE ~ (ns > NO_DEADLINE - now)
  <2>1. now + ns \in 0 .. UintMax
    BY <1>2, Widths DEF NO_DEADLINE
  <2>2. DeadlineAfter(ns) = now + ns
    BY <1>2, <2>1, NoWrap DEF DeadlineAfter
  <2> QED BY <2>1, <2>2
<1> QED BY <1>1, <1>2

(* Quotient and remainder by Ms *)
LEMMA DivMs ==
    \A x \in Nat : /\ x \div Ms \in Nat
                   /\ Ms * (x \div Ms) <= x /\ x < Ms * (x \div Ms) + Ms
BY Widths, Z3

(* The rounding of next_timeout_ms: up, by less than a millisecond *)
LEMMA RoundUpIs ==
    ASSUME NEW t \in Nat, t < Int32Max * Ms
    PROVE  RoundUp(t) \in Nat /\ t <= RoundUp(t) * Ms /\ RoundUp(t) * Ms < t + Ms
<1>0. Int32Max * Ms \in Nat /\ Int32Max * Ms + Ms <= UintMax
  BY ConstantsAssumption, Z3
<1>1. t + Ms - 1 \in 0 .. UintMax /\ t + Ms - 1 \in Nat
  BY <1>0, Widths
<1> DEFINE q == (t + Ms - 1) \div Ms
<1>2. RoundUp(t) = q
  BY <1>1, NoWrap DEF RoundUp
<1>3. q \in Nat /\ Ms * q <= t + Ms - 1 /\ t + Ms - 1 < Ms * q + Ms
  BY <1>1, DivMs
<1> HIDE DEF q
<1>4. Ms * q \in Nat /\ Ms * q = q * Ms
  BY <1>3, Widths, Z3
<1>5. t <= q * Ms /\ q * Ms < t + Ms
  BY <1>3, <1>4, Widths
<1> QED BY <1>2, <1>3, <1>5

-----------------------------------------------------------------------------
(* The invariant *)

(* Ranges *)
Types ==
    /\ now \in Nat /\ now <= 2 * MaxNow + Ms
    /\ n \in Nat /\ off \in Nat
    /\ deadline \in 0 .. UintMax
    /\ due \in Nat \cup {None}
    /\ left \in -1 .. IntMax
    /\ timer \in -1 .. UintMax
    /\ stream \in Seq(Nat)

(* A call's deadline is not before it is due, nor further away than an      *)
(* int64_t can hold, so that remaining_ns loses nothing; and the time left  *)
(* that was computed from it reaches it, however late it is made a deadline *)
(* again.                                                                   *)
Deadlines ==
    /\ deadline # NO_DEADLINE => due # None /\ deadline >= due /\ deadline <= now + IntMax
    /\ left >= 0 => deadline # NO_DEADLINE /\ now + left >= deadline
    /\ pc = "idle" => deadline = NO_DEADLINE /\ left = None /\ timer = None

(* There is no result before the end, and only a connect is at connect. *)
ResultAtEnd ==
    /\ pc # "done" => result = "none"
    /\ pc = "connect" => op = "connect"

(* The inductive invariant *)
IInv == Types /\ Deadlines /\ ResultAtEnd /\ NeverEarly /\ ResultIsTrue /\ SleepsJustLongEnough

(* The clock stays below INT64_MAX. *)
LEMMA Clock == Types => now < IntMax
BY Widths DEF Types

(* The three parts of the state a step may leave alone *)
LEMMA TimesSame ==
    ASSUME Types, Deadlines, NeverEarly, UNCHANGED <<now, op, n, deadline, due, left, timer>>,
           off' \in Nat, stream' \in Seq(Nat), pc # "idle", pc' # "idle",
           result' = "timeout" => result = "timeout"
    PROVE  Types' /\ Deadlines' /\ NeverEarly'
<1>1. Types'
  BY DEF Types
<1>2. Deadlines'
  BY DEF Deadlines
<1>3. NeverEarly'
  BY DEF NeverEarly, NO_DEADLINE
<1> QED BY <1>1, <1>2, <1>3

(* Begin: the deadline is the time of the call plus what it was given. *)
LEMMA BeginStep ==
    ASSUME IInv, NEW o, NEW len \in Nat, NEW timeout \in -1 .. IntMax, NEW start,
           start = "call" \/ (start = "connect" /\ o = "connect"), Begin(o, len, timeout, start)
    PROVE  IInv'
<1>1. /\ pc = "idle" /\ op' = o /\ n' = len /\ pc' = start
      /\ deadline' = DeadlineAfterOpt(timeout)
      /\ due' = IF timeout < 0 THEN None ELSE now + timeout
      /\ UNCHANGED <<now, off, result, left, timer, until, polled, able, sock, stream, steals>>
  BY DEF Begin, waitVars, netVars
<1>2. now \in Nat /\ now < IntMax /\ result = "none" /\ left = None /\ timer = None
  BY <1>1, Clock DEF IInv, Types, Deadlines, ResultAtEnd
<1>3. /\ deadline' \in 0 .. UintMax /\ due' \in Nat \cup {None}
      /\ deadline' # NO_DEADLINE => due' # None /\ deadline' >= due' /\ deadline' <= now + IntMax
  <2>1. CASE timeout < 0
    BY <1>1, <2>1, Widths DEF DeadlineAfterOpt, NO_DEADLINE
  <2>2. CASE ~ (timeout < 0)
    <3>1. timeout \in 0 .. UintMax /\ timeout <= IntMax
      BY <2>2, Widths
    <3>2. deadline' = DeadlineAfter(timeout) /\ due' = now + timeout
      BY <1>1, <2>2 DEF DeadlineAfterOpt
    <3>3. deadline' \in 0 .. UintMax /\ (deadline' = NO_DEADLINE \/ deadline' = now + timeout)
      BY <1>2, <3>1, <3>2, DeadlineAfterIs
    <3> QED BY <1>2, <3>1, <3>2, <3>3, Widths DEF None
  <2> QED BY <2>1, <2>2
<1>4. Types'
  BY <1>1, <1>3 DEF IInv, Types
<1>5. Deadlines'
  BY <1>1, <1>2, <1>3 DEF Deadlines, None
<1>6. ResultAtEnd' /\ NeverEarly' /\ SleepsJustLongEnough'
  BY <1>1, <1>2 DEF ResultAtEnd, NeverEarly, SleepsJustLongEnough, NO_DEADLINE
<1>7. ResultIsTrue'
  BY <1>1, <1>2 DEF IInv, ResultIsTrue
<1> QED BY <1>4, <1>5, <1>6, <1>7 DEF IInv

(* SleepBegins *)
LEMMA SleepStep ==
    ASSUME IInv, NEW ns \in Sleeps, SleepBegins(ns)
    PROVE  IInv'
<1>1. /\ pc = "idle" /\ op' = "sleep" /\ pc' = "park" /\ timer' = DeadlineAfter(ns) /\ due' = now + ns
      /\ UNCHANGED <<now, n, deadline, off, result, left, until, polled, able, sock, stream, steals>>
  BY DEF SleepBegins, netVars
<1>2. /\ now \in Nat /\ now < IntMax /\ result = "none" /\ left = None /\ deadline = NO_DEADLINE
      /\ ns \in 0 .. UintMax
  BY <1>1, Clock, ConstantsAssumption DEF IInv, Types, Deadlines, ResultAtEnd
<1>3. timer' \in 0 .. UintMax /\ (timer' = NO_DEADLINE \/ timer' = now + ns)
  BY <1>1, <1>2, DeadlineAfterIs
<1>4. due' \in Nat /\ due' # None
  BY <1>1, <1>2, Widths DEF None
<1>5. Types'
  BY <1>1, <1>3, <1>4, Widths DEF IInv, Types
<1>6. Deadlines'
  BY <1>1, <1>2 DEF Deadlines, None, NO_DEADLINE
<1>7. NeverEarly'
  BY <1>1, <1>2, <1>3, <1>4 DEF NeverEarly, NO_DEADLINE
<1>8. ResultAtEnd' /\ SleepsJustLongEnough'
  BY <1>1, <1>2 DEF ResultAtEnd, SleepsJustLongEnough
<1>9. ResultIsTrue'
  BY <1>1, <1>2 DEF IInv, ResultIsTrue
<1> QED BY <1>5, <1>6, <1>7, <1>8, <1>9 DEF IInv

(* Steps of the call that move no data *)
LEMMA CallStep ==
    ASSUME IInv, Connect \/ ConnectEnds \/ Take \/ CallFails \/ TryAgain \/ WaitRefused
    PROVE  IInv'
<1>1. /\ pc # "idle" /\ pc # "done" /\ pc # "sleep" /\ pc' \in {"left", "done"}
      /\ result' \in {result, "ok", "error"} /\ (pc' = "left" => result' = result)
      /\ (result' = "ok" /\ result # "ok") => op # "write" /\ (op = "connect" => sock' = "up")
      /\ UNCHANGED <<now, op, n, deadline, off, due, left, timer, until, polled, stream>>
  BY DEF IInv, ResultAtEnd, Connect, ConnectEnds, Take, CallFails, TryAgain, WaitRefused, Return, SoError,
         callVars, waitVars, netVars
<1>2. result = "none"
  BY <1>1 DEF IInv, ResultAtEnd
<1>3. Types' /\ Deadlines' /\ NeverEarly'
  <2>1. off' \in Nat /\ stream' \in Seq(Nat) /\ pc' # "idle" /\ (result' = "timeout" => result = "timeout")
    BY <1>1, <1>2 DEF IInv, Types
  <2> QED BY <1>1, <2>1, TimesSame DEF IInv
<1>4. ResultAtEnd' /\ SleepsJustLongEnough'
  BY <1>1, <1>2 DEF ResultAtEnd, SleepsJustLongEnough
<1>5. ResultIsTrue'
  BY <1>1, <1>2 DEF IInv, ResultIsTrue
<1> QED BY <1>3, <1>4, <1>5 DEF IInv

(* What the peer has after a partial write: one byte more than before, and  *)
(* so on, to the w-th.                                                      *)
LEMMA Continued ==
    ASSUME NEW s \in Seq(Nat), \A i \in DOMAIN s : s[i] = i, NEW w \in Nat, NEW c,
           c = [i \in 1 .. w |-> Len(s) + i]
    PROVE  /\ s \o c \in Seq(Nat) /\ Len(s \o c) = Len(s) + w
           /\ \A i \in DOMAIN (s \o c) : (s \o c)[i] = i
<1>1. Len(s) \in Nat /\ DOMAIN s = 1 .. Len(s)
  OBVIOUS
<1>2. c \in [1 .. w -> Nat]
  BY <1>1
<1>3. c \in Seq(Nat) /\ Len(c) = w
  BY <1>2
<1>4. s \o c \in Seq(Nat) /\ Len(s \o c) = Len(s) + w
  BY <1>3
<1>5. ASSUME NEW i \in 1 .. Len(s) + w PROVE (s \o c)[i] = i
  <2>1. CASE i <= Len(s)
    <3>1. i \in 1 .. Len(s)
      BY <1>1, <2>1
    <3>2. (s \o c)[i] = s[i]
      BY <1>3, <3>1
    <3> QED BY <1>1, <3>1, <3>2
  <2>2. CASE ~ (i <= Len(s))
    <3>1. i - Len(s) \in 1 .. w
      BY <1>1, <2>2
    <3>2. (s \o c)[i] = c[i - Len(s)]
      BY <1>1, <1>3, <2>2, <3>1
    <3>3. c[i - Len(s)] = Len(s) + (i - Len(s))
      BY <3>1
    <3> QED BY <1>1, <3>2, <3>3
  <2> QED BY <2>1, <2>2
<1> QED BY <1>4, <1>5

(* Put *)
LEMMA PutStep ==
    ASSUME IInv, Put
    PROVE  IInv'
<1>1. /\ pc = "call" /\ op = "write"
      /\ UNCHANGED <<now, op, n, deadline, due, left, timer, until, polled, sock>>
  BY DEF Put, Return, waitVars
<1>2. result = "none"
  BY <1>1 DEF IInv, ResultAtEnd
<1>3. /\ stream \in Seq(Nat) /\ off \in Nat /\ n \in Nat /\ Len(stream) = off
      /\ \A i \in DOMAIN stream : stream[i] = i
  BY DEF IInv, Types, ResultIsTrue
<1>4. CASE UNCHANGED pc
  <2>1. PICK w \in 1 .. n - off : off' = off + w /\ stream' = stream \o Chunk(w)
    BY <1>1, <1>4 DEF Put, Return
  <2>2. result' = result
    BY <1>1, <1>4 DEF Put, Return
  <2>3. w \in Nat /\ Chunk(w) = [i \in 1 .. w |-> Len(stream) + i]
    BY <1>3 DEF Chunk
  <2>4. /\ stream' \in Seq(Nat) /\ Len(stream') = Len(stream) + w
        /\ \A i \in DOMAIN stream' : stream'[i] = i
    BY <1>3, <2>1, <2>3, Continued
  <2>5. off' \in Nat /\ Len(stream') = off'
    BY <1>3, <2>1, <2>3, <2>4
  <2>6. Types' /\ Deadlines' /\ NeverEarly'
    BY <1>1, <1>4, <2>2, <2>4, <2>5, TimesSame DEF IInv
  <2>7. ResultAtEnd' /\ SleepsJustLongEnough'
    BY <1>1, <1>2, <1>4, <2>2 DEF ResultAtEnd, SleepsJustLongEnough
  <2>8. ResultIsTrue'
    BY <1>2, <2>2, <2>4, <2>5 DEF ResultIsTrue
  <2> QED BY <2>6, <2>7, <2>8 DEF IInv
<1>5. CASE ~ UNCHANGED pc
  <2>1. off = n /\ pc' = "done" /\ result' = "ok" /\ UNCHANGED <<off, stream>>
    BY <1>1, <1>5 DEF Put, Return
  <2>2. Types' /\ Deadlines' /\ NeverEarly'
    BY <1>1, <1>3, <2>1, TimesSame DEF IInv
  <2>3. ResultAtEnd' /\ SleepsJustLongEnough'
    BY <2>1 DEF ResultAtEnd, SleepsJustLongEnough
  <2>4. ResultIsTrue'
    BY <1>1, <1>3, <2>1 DEF ResultIsTrue
  <2> QED BY <2>2, <2>3, <2>4 DEF IInv
<1> QED BY <1>4, <1>5

(* TimeLeft: remaining_ns never cuts the time short. *)
LEMMA TimeLeftStep ==
    ASSUME IInv, TimeLeft
    PROVE  IInv'
<1>1. /\ pc = "left" /\ pc' = "wait" /\ left' = Remaining(deadline)
      /\ UNCHANGED <<now, op, n, deadline, off, result, due, timer, until, polled, sock, stream>>
  BY DEF TimeLeft, callVars, netVars
<1>2. now \in Nat /\ now < IntMax /\ deadline \in 0 .. UintMax /\ result = "none"
  BY <1>1, Clock DEF IInv, Types, ResultAtEnd
<1>3. deadline # NO_DEADLINE => deadline <= now + IntMax
  BY DEF IInv, Deadlines
<1>4. left' \in -1 .. IntMax /\ (left' >= 0 => deadline # NO_DEADLINE /\ now + left' >= deadline)
  BY <1>1, <1>2, <1>3, Widths DEF Remaining
<1>5. Types'
  BY <1>1, <1>4 DEF IInv, Types
<1>6. Deadlines'
  BY <1>1, <1>4 DEF IInv, Deadlines, NO_DEADLINE
<1>7. NeverEarly' /\ ResultAtEnd' /\ SleepsJustLongEnough'
  BY <1>1, <1>2 DEF IInv, NeverEarly, ResultAtEnd, SleepsJustLongEnough, NO_DEADLINE
<1>8. ResultIsTrue'
  BY <1>1, <1>2 DEF IInv, ResultIsTrue
<1> QED BY <1>5, <1>6, <1>7, <1>8 DEF IInv

(* Wait *)
LEMMA WaitStep ==
    ASSUME IInv, Wait
    PROVE  IInv'
<1>1. /\ pc = "wait" /\ pc' = "park" /\ timer' = IF left >= 0 THEN DeadlineAfter(left) ELSE None
      /\ UNCHANGED <<now, op, n, deadline, off, result, due, left, until, polled, sock, stream>>
  BY DEF Wait, callVars, netVars
<1>2. /\ now \in Nat /\ now < IntMax /\ result = "none" /\ left \in -1 .. IntMax
      /\ deadline \in 0 .. UintMax /\ due \in Nat \cup {None}
  BY <1>1, Clock DEF IInv, Types, ResultAtEnd
<1>3. left >= 0 => /\ due # None /\ now + left >= due /\ left \in 0 .. UintMax
  <2>1. left >= 0 => deadline # NO_DEADLINE /\ now + left >= deadline
    BY DEF IInv, Deadlines
  <2>2. deadline # NO_DEADLINE => due # None /\ deadline >= due
    BY DEF IInv, Deadlines
  <2> QED BY <1>2, <2>1, <2>2, Widths
<1>4. timer' \in -1 .. UintMax /\ (timer' \notin {None, NO_DEADLINE} => due # None /\ timer' >= due)
  <2>1. CASE left >= 0
    <3>1. timer' \in 0 .. UintMax /\ (timer' = NO_DEADLINE \/ timer' = now + left)
      BY <1>1, <1>2, <1>3, <2>1, DeadlineAfterIs
    <3> QED BY <1>3, <2>1, <3>1
  <2>2. CASE ~ (left >= 0)
    BY <1>1, <2>2, Widths DEF None
  <2> QED BY <2>1, <2>2
<1>5. Types'
  BY <1>1, <1>4 DEF IInv, Types
<1>6. Deadlines'
  BY <1>1 DEF IInv, Deadlines, NO_DEADLINE
<1>7. NeverEarly' /\ ResultAtEnd' /\ SleepsJustLongEnough'
  BY <1>1, <1>2, <1>4 DEF NeverEarly, ResultAtEnd, SleepsJustLongEnough, NO_DEADLINE
<1>8. ResultIsTrue'
  BY <1>1, <1>2 DEF IInv, ResultIsTrue
<1> QED BY <1>5, <1>6, <1>7, <1>8 DEF IInv

(* Poll: the timeout given to epoll_wait *)
LEMMA PollStep ==
    ASSUME IInv, Poll
    PROVE  IInv'
<1>1. /\ pc = "park" /\ pc' = "sleep" /\ polled' = now
      /\ until' = IF NextTimeoutMs < 0 THEN None ELSE now + NextTimeoutMs * Ms
      /\ UNCHANGED <<now, op, n, deadline, off, result, due, left, timer, sock, stream>>
  BY DEF Poll, callVars, netVars
<1>2. now \in Nat /\ timer \in -1 .. UintMax /\ result = "none"
  BY <1>1 DEF IInv, Types, ResultAtEnd
<1>3. Types' /\ Deadlines' /\ NeverEarly'
  BY <1>1, TimesSame DEF IInv, Types
<1>4. ResultAtEnd'
  BY <1>1, <1>2 DEF ResultAtEnd
<1>5. ResultIsTrue'
  BY <1>1, <1>2 DEF IInv, ResultIsTrue
<1>6. Int32Max * Ms \in Nat
  BY Widths, Z3
<1>7. SleepsJustLongEnough'
  <2> SUFFICES ASSUME timer # None
               PROVE  \/ timer <= polled' /\ until' = polled'
                      \/ timer <= until' /\ until' < timer + Ms
                      \/ until' - polled' = Int32Max * Ms /\ until' <= timer
    BY <1>1 DEF SleepsJustLongEnough
  <2>1. CASE timer <= now
    <3>1. NextTimeoutMs = 0
      BY <2>1 DEF NextTimeoutMs
    <3>2. 0 * Ms = 0
      BY Widths
    <3>3. until' = now
      BY <1>1, <1>2, <3>1, <3>2
    <3> QED BY <1>1, <2>1, <3>3
  <2>2. CASE ~ (timer <= now) /\ timer - now >= Int32Max * Ms
    <3>1. NextTimeoutMs = Int32Max
      BY <2>2 DEF NextTimeoutMs
    <3>2. until' = now + Int32Max * Ms
      BY <1>1, <3>1, Widths
    <3> QED BY <1>1, <1>2, <1>6, <2>2, <3>2, Widths
  <2>3. CASE ~ (timer <= now) /\ ~ (timer - now >= Int32Max * Ms)
    <3> DEFINE t == timer - now
               q == RoundUp(t)
    <3>1. t \in Nat /\ t < Int32Max * Ms /\ timer = now + t
      BY <1>2, <1>6, <2>3, Widths
    <3>2. NextTimeoutMs = q
      BY <2>3 DEF NextTimeoutMs
    <3> HIDE DEF t
    <3>3. q \in Nat /\ t <= q * Ms /\ q * Ms < t + Ms
      BY <3>1, RoundUpIs
    <3> HIDE DEF q
    <3>4. until' = now + q * Ms /\ q * Ms \in Nat
      <4>1. ~ (q < 0)
        BY <3>3
      <4>2. q * Ms \in Nat
        BY <3>3, Widths, Z3
      <4> QED BY <1>1, <3>2, <4>1, <4>2
    <3> QED BY <1>2, <3>1, <3>3, <3>4, Widths
  <2> QED BY <2>1, <2>2, <2>3
<1> QED BY <1>3, <1>4, <1>5, <1>7 DEF IInv

(* PollReturns and NotYet *)
LEMMA ReturnsStep ==
    ASSUME IInv, PollReturns \/ NotYet
    PROVE  IInv'
<1>1. /\ pc \in {"sleep", "fire"} /\ pc' \in {"fire", "park"}
      /\ UNCHANGED <<now, op, n, deadline, off, result, due, left, timer, sock, stream>>
  BY DEF PollReturns, NotYet, callVars, waitVars, netVars
<1>2. Types' /\ Deadlines' /\ NeverEarly'
  BY <1>1, TimesSame DEF IInv, Types
<1>3. ResultAtEnd' /\ SleepsJustLongEnough'
  BY <1>1 DEF IInv, ResultAtEnd, SleepsJustLongEnough
<1>4. ResultIsTrue'
  BY <1>1 DEF IInv, ResultIsTrue
<1> QED BY <1>2, <1>3, <1>4 DEF IInv

(* Event, Fire and Cancel: the wait is over. *)
LEMMA ResumedStep ==
    ASSUME IInv, Event \/ Fire \/ Cancel
    PROVE  IInv'
<1>1. /\ pc \in {"park", "sleep", "fire"} /\ pc' \in {"call", "done"} /\ timer' = None /\ left' = None
      /\ result' \in {result, "timeout", "cancelled"} /\ (pc' = "call" => result' = result)
      /\ result' = "timeout" /\ result # "timeout" => timer # None /\ timer <= now
      /\ UNCHANGED <<now, op, n, deadline, off, due, sock, stream>>
  BY DEF Event, Fire, Cancel, Resumed, callVars, netVars
<1>2. /\ now \in Nat /\ now < IntMax /\ result = "none" /\ timer \in -1 .. UintMax
      /\ due \in Nat \cup {None}
  BY <1>1, Clock DEF IInv, Types, ResultAtEnd
<1>3. Types'
  BY <1>1, Widths DEF IInv, Types, None
<1>4. Deadlines'
  BY <1>1 DEF IInv, Deadlines, None, NO_DEADLINE
<1>5. NeverEarly'
  <2>1. ASSUME result' = "timeout" PROVE due # None /\ now >= due
    <3>1. timer # None /\ timer <= now
      BY <1>1, <1>2, <2>1
    <3>2. timer # NO_DEADLINE
      BY <1>2, <3>1, Widths DEF NO_DEADLINE
    <3>3. due # None /\ timer >= due
      BY <3>1, <3>2 DEF IInv, NeverEarly
    <3> QED BY <1>2, <3>1, <3>3
  <2> QED BY <1>1, <2>1 DEF NeverEarly
<1>6. ResultAtEnd' /\ SleepsJustLongEnough'
  BY <1>1, <1>2 DEF ResultAtEnd, SleepsJustLongEnough
<1>7. ResultIsTrue'
  BY <1>1, <1>2 DEF IInv, ResultIsTrue
<1> QED BY <1>3, <1>4, <1>5, <1>6, <1>7 DEF IInv

(* What is reached by a sum is reached by a later one. *)
LEMMA Later ==
    \A a, b, c, d \in Int : a <= b => (d <= a + c => d <= b + c) /\ (a + c >= d => b + c >= d)
OBVIOUS

(* BecomesAble, Steal, Tick and stuttering: the call does nothing. *)
LEMMA OutsideStep ==
    ASSUME IInv, BecomesAble \/ Steal \/ Tick \/ UNCHANGED vars
    PROVE  IInv'
<1>1. /\ sock = "up" => sock' = "up"
      /\ UNCHANGED <<op, n, deadline, off, result, due, pc, left, timer, until, polled, stream>>
  BY DEF BecomesAble, Steal, Tick, vars, callVars, waitVars, netVars
<1>2. now' = now \/ (now' = now + 1 /\ (now < MaxNow \/ (timer \in 0 .. 2 * MaxNow /\ now < timer + Ms)))
  BY DEF BecomesAble, Steal, Tick, vars
<1>3. now \in Nat /\ now' \in Nat /\ now <= now' /\ now' <= 2 * MaxNow + Ms
  BY <1>2, Widths DEF IInv, Types
<1>4. Types'
  BY <1>1, <1>3 DEF IInv, Types
<1>5. Deadlines'
  <2>1. /\ deadline # NO_DEADLINE => due # None /\ deadline >= due /\ deadline <= now' + IntMax
        /\ left >= 0 => deadline # NO_DEADLINE /\ now' + left >= deadline
    <3>1. deadline \in Int /\ left \in Int /\ IntMax \in Int
      BY Widths DEF IInv, Types
    <3>2. /\ deadline # NO_DEADLINE => due # None /\ deadline >= due /\ deadline <= now + IntMax
          /\ left >= 0 => deadline # NO_DEADLINE /\ now + left >= deadline
      BY DEF IInv, Deadlines
    <3>3. now \in Int /\ now' \in Int /\ now <= now'
      BY <1>3
    <3>4. deadline <= now + IntMax => deadline <= now' + IntMax
      BY <3>1, <3>3, Later, Zenon
    <3>5. now + left >= deadline => now' + left >= deadline
      BY <3>1, <3>3, Later, Zenon
    <3> QED BY <3>2, <3>4, <3>5
  <2> QED BY <1>1, <2>1 DEF IInv, Deadlines, NO_DEADLINE
<1>6. NeverEarly'
  BY <1>1, <1>3 DEF IInv, Types, NeverEarly, NO_DEADLINE
<1>7. ResultAtEnd' /\ SleepsJustLongEnough'
  BY <1>1 DEF IInv, ResultAtEnd, SleepsJustLongEnough
<1>8. ResultIsTrue'
  BY <1>1 DEF IInv, ResultIsTrue
<1> QED BY <1>4, <1>5, <1>6, <1>7, <1>8 DEF IInv

(* Every step preserves the invariant. *)
LEMMA NextIInv == IInv /\ [Next]_vars => IInv'
<1> SUFFICES ASSUME IInv, [Next]_vars PROVE IInv'
  OBVIOUS
<1>1. CASE ReadBegins \/ WriteBegins \/ AcceptBegins \/ ConnectBegins
  <2>1. ASSUME NEW timeout \in Timeouts, Begin("read", 1, timeout, "call") PROVE IInv'
    BY <2>1, BeginStep, ConstantsAssumption
  <2>2. ASSUME NEW len \in Sizes, NEW timeout \in Timeouts, Begin("write", len, timeout, "call") PROVE IInv'
    BY <2>2, BeginStep, ConstantsAssumption
  <2>3. -1 \in -1 .. IntMax
    BY Widths
  <2>4. CASE AcceptBegins \/ ConnectBegins
    BY <2>3, <2>4, BeginStep DEF AcceptBegins, ConnectBegins
  <2> QED BY <1>1, <2>1, <2>2, <2>4 DEF ReadBegins, WriteBegins
<1>2. ASSUME NEW ns \in Sleeps, SleepBegins(ns) PROVE IInv'
  BY <1>2, SleepStep
<1>3. CASE Call
  BY <1>3, CallStep, PutStep, TimeLeftStep, WaitStep DEF Call
<1>4. CASE Loop \/ PollReturns \/ Cancel
  BY <1>4, PollStep, ReturnsStep, ResumedStep DEF Loop, TimesOut
<1>5. CASE BecomesAble \/ Steal \/ Tick \/ UNCHANGED vars
  BY <1>5, OutsideStep
<1> QED BY <1>1, <1>2, <1>3, <1>4, <1>5 DEF Next

(* The state before the call *)
LEMMA InitIInv == Init => IInv
<1> SUFFICES ASSUME Init PROVE IInv
  OBVIOUS
<1>1. Types
  BY Widths DEF Init, Types, NO_DEADLINE, None
<1>2. Deadlines /\ ResultAtEnd /\ SleepsJustLongEnough /\ NeverEarly
  BY DEF Init, Deadlines, ResultAtEnd, SleepsJustLongEnough, NeverEarly, None, NO_DEADLINE
<1>3. ResultIsTrue
  BY DEF Init, ResultIsTrue
<1> QED BY <1>1, <1>2, <1>3 DEF IInv

(* The inductive invariant holds in every state of a call. *)
LEMMA Invariance == Spec => []IInv
BY InitIInv, NextIInv, PTL DEF Spec

(* A call times out only after the time it was given, measured over all its *)
(* waits, and never when it was given none or more than the clock can hold: *)
(* deadline_after saturates, remaining_ns never cuts short, and the second  *)
(* reading of the clock in cfiber_ev_wait only makes a deadline later.      *)
THEOREM TimeoutsAreNeverEarly == Spec => []NeverEarly
<1>1. IInv => NeverEarly
  BY DEF IInv
<1> QED BY <1>1, Invariance, PTL

(* What write_impl and cfiber_ev_connect report is what happened: all bytes *)
(* of the buffer once and in order, or a connection; and after an error the *)
(* peer has a prefix.                                                       *)
THEOREM ResultsAreTrue == Spec => []ResultIsTrue
<1>1. IInv => ResultIsTrue
  BY DEF IInv
<1> QED BY <1>1, Invariance, PTL

(* next_timeout_ms neither makes the loop spin before the earliest deadline *)
(* nor oversleep it by a millisecond, and its rounding does not overflow.   *)
THEOREM LoopSleepsJustLongEnough == Spec => []SleepsJustLongEnough
<1>1. IInv => SleepsJustLongEnough
  BY DEF IInv
<1> QED BY <1>1, Invariance, PTL
=============================================================================
