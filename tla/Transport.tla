------------------------------ MODULE Transport ------------------------------
(***************************************************************************)
(* One call of a transport helper or of cfiber_ev_sleep (reactor.c): the   *)
(* system call, the waits in between, the deadline of the whole call, and  *)
(* the loop's poll timeout.  Deadlines are unsigned integers of a small    *)
(* width, so that saturation and wrapping happen.                          *)
(*                                                                         *)
(* The call is alone in its reactor: what other fibers do to it is in      *)
(* module Reactor.  EINTR tries again at once and changes nothing.         *)
(***************************************************************************)
EXTENDS Integers, Sequences

CONSTANTS
    Sizes,       \* lengths of the buffers to write
    Timeouts,    \* timeout_ns of the timed calls, negative for none
    Sleeps,      \* arguments of cfiber_ev_sleep
    UintMax,     \* UINT64_MAX
    IntMax,      \* INT64_MAX
    Int32Max,    \* INT32_MAX
    Ms,          \* clock units in a millisecond
    MaxNow,      \* bound of the model: the clock stops here when nothing waits
    MaxSteals    \* bound of the model: readiness that is gone before it is used

ASSUME ConstantsAssumption ==
    /\ Sizes \subseteq Nat /\ Sleeps \subseteq 0 .. UintMax
    /\ Timeouts \subseteq -1 .. IntMax
    /\ IntMax \in Nat /\ UintMax = 2 * IntMax + 1
    /\ Int32Max \in Nat \ {0} /\ Ms \in Nat \ {0}
    /\ Int32Max * Ms + Ms <= UintMax
    /\ MaxNow \in Nat /\ 2 * MaxNow + Ms < IntMax /\ MaxSteals \in Nat

VARIABLES
    now,         \* CLOCK_MONOTONIC
    op, n,       \* the call and its buffer's length
    deadline,    \* its local deadline
    off,         \* write_impl's local off
    pc, result,
    left,        \* cfiber_ev_wait's argument timeout_ns
    timer,       \* deadline_ns in the timer heap, or None
    until,       \* when epoll_wait times out, or None
    \* the kernel
    able,        \* the system call would not return EAGAIN
    sock,        \* the state of a connecting socket
    stream,      \* what the peer has received, each byte by its place in buf
    \* history
    due,         \* when the call has to time out, as an unbounded integer, or None
    polled,      \* when epoll_wait was called
    steals

callVars == <<op, n, deadline, off, result, due>>
waitVars == <<left, timer, until, polled>>
netVars == <<able, sock, stream, steals>>
vars == <<now, callVars, pc, waitVars, netVars>>

None == -1
NO_DEADLINE == UintMax

Wrap(x) == x % (UintMax + 1)

-----------------------------------------------------------------------------
(* Time *)

(* Mutant: the sum wraps. *)
DeadlineAfterWraps(ns) == Wrap(now + ns)

(* deadline_after *)
DeadlineAfter(ns) == IF ns > NO_DEADLINE - now THEN NO_DEADLINE ELSE Wrap(now + ns)

DeadlineAfterOpt(timeout) == IF timeout < 0 THEN NO_DEADLINE ELSE DeadlineAfter(timeout)

(* Mutant: the deadline that never comes is waited for like any other, and  *)
(* one that has passed is waited for without a timeout.                     *)
RemainingNoZero(d) == IF d = NO_DEADLINE \/ d <= now THEN -1 ELSE d - now

(* remaining_ns *)
Remaining(d) ==
    IF d = NO_DEADLINE THEN -1
    ELSE IF d <= now THEN 0
    ELSE IF d - now > IntMax THEN IntMax ELSE d - now

(* Mutant: the time left is rounded down. *)
RoundDown(t) == t \div Ms

RoundUp(t) == Wrap(t + Ms - 1) \div Ms

(* next_timeout_ms *)
NextTimeoutMs ==
    IF timer = None THEN -1
    ELSE IF timer <= now THEN 0
    ELSE IF timer - now >= Int32Max * Ms THEN Int32Max
    ELSE RoundUp(timer - now)

-----------------------------------------------------------------------------
Init ==
    /\ now \in 0 .. 1
    /\ op = "none" /\ n = 0 /\ deadline = NO_DEADLINE /\ off = 0
    /\ pc = "idle" /\ result = "none"
    /\ left = None /\ timer = None /\ until = None /\ polled = 0
    /\ able \in BOOLEAN /\ sock = "new" /\ stream = <<>>
    /\ due = None /\ steals = 0

Begin(o, len, timeout, start) ==
    /\ pc = "idle"
    /\ op' = o /\ n' = len
    /\ deadline' = DeadlineAfterOpt(timeout)
    /\ due' = IF timeout < 0 THEN None ELSE now + timeout
    /\ pc' = start
    /\ UNCHANGED <<now, off, result, waitVars, netVars>>

ReadBegins == \E timeout \in Timeouts : Begin("read", 1, timeout, "call")
WriteBegins == \E len \in Sizes, timeout \in Timeouts : Begin("write", len, timeout, "call")
AcceptBegins == Begin("accept", 0, -1, "call")
ConnectBegins == Begin("connect", 0, -1, "connect")

(* cfiber_ev_sleep: the argument is unsigned *)
SleepBegins(ns) ==
    /\ pc = "idle"
    /\ op' = "sleep"
    /\ timer' = DeadlineAfter(ns)
    /\ due' = now + ns
    /\ pc' = "park"
    /\ UNCHANGED <<now, n, deadline, off, result, left, until, polled, netVars>>

(* The call returns *)
Return(r) == pc' = "done" /\ result' = r /\ UNCHANGED <<op, n, deadline, due>>

(* connect: done at once, refused at once, or EINPROGRESS *)
Connect ==
    /\ pc = "connect"
    /\ able' = FALSE
    /\ \/ sock' = "up" /\ Return("ok") /\ UNCHANGED off
       \/ sock' = "refused" /\ Return("error") /\ UNCHANGED off
       \/ sock' = "connecting" /\ pc' = "left" /\ UNCHANGED callVars
    /\ UNCHANGED <<now, waitVars, stream, steals>>

(* getsockopt(SO_ERROR), after the wait *)
SoError == IF sock = "up" THEN "ok" ELSE "error"

ConnectEnds ==
    /\ pc = "call" /\ op = "connect"
    /\ Return(SoError)
    /\ UNCHANGED <<now, off, waitVars, netVars>>

(* read and accept succeed *)
Take ==
    /\ pc = "call" /\ op \in {"read", "accept"} /\ able
    /\ able' \in BOOLEAN
    /\ Return("ok")
    /\ UNCHANGED <<now, off, waitVars, sock, stream, steals>>

(* Mutant: a partial write is continued from the start of the buffer. *)
ChunkFromStart(w) == [i \in 1 .. w |-> i]

(* What write is given: the buffer from off on *)
Chunk(w) == [i \in 1 .. w |-> off + i]

(* write takes some of it; a buffer of length 0 needs no call *)
Put ==
    /\ pc = "call" /\ op = "write"
    /\ \/ /\ off < n /\ able
          /\ \E w \in 1 .. n - off : off' = off + w /\ stream' = stream \o Chunk(w)
          /\ able' \in BOOLEAN
          /\ UNCHANGED <<pc, op, n, deadline, result, due>>
       \/ /\ off = n
          /\ Return("ok")
          /\ UNCHANGED <<off, able, stream>>
    /\ UNCHANGED <<now, waitVars, sock, steals>>

(* Any error but EAGAIN, and a write of 0 bytes: the call fails at once *)
CallFails ==
    /\ pc = "call" /\ op # "connect"
    /\ op = "write" => off < n
    /\ Return("error")
    /\ UNCHANGED <<now, off, waitVars, netVars>>

(* EAGAIN: the time left is computed ... *)
TryAgain ==
    /\ pc = "call" /\ op # "connect" /\ ~ able
    /\ op = "write" => off < n
    /\ pc' = "left"
    /\ UNCHANGED <<now, callVars, waitVars, netVars>>

TimeLeft ==
    /\ pc = "left"
    /\ left' = Remaining(deadline)
    /\ pc' = "wait"
    /\ UNCHANGED <<now, callVars, timer, until, polled, netVars>>

(* ... and made a deadline again by cfiber_ev_wait, later by the time       *)
(* between the two readings of the clock.                                   *)
Wait ==
    /\ pc = "wait"
    /\ timer' = IF left >= 0 THEN DeadlineAfter(left) ELSE None
    /\ pc' = "park"
    /\ UNCHANGED <<now, callVars, left, until, polled, netVars>>

(* EBUSY, ENOMEM, or what epoll_ctl says: wait_failed *)
WaitRefused ==
    /\ pc = "wait"
    /\ Return("error")
    /\ UNCHANGED <<now, off, waitVars, netVars>>

-----------------------------------------------------------------------------
(* The loop *)

Poll ==
    /\ pc = "park"
    /\ polled' = now
    /\ until' = IF NextTimeoutMs < 0 THEN None ELSE now + NextTimeoutMs * Ms
    /\ pc' = "sleep"
    /\ UNCHANGED <<now, callVars, left, timer, netVars>>

Resumed(wake) ==
    /\ pc' = wake
    /\ timer' = None /\ until' = None /\ polled' = 0 /\ left' = None

(* The descriptor is reported: back to the system call *)
Event ==
    /\ pc = "sleep" /\ op # "sleep"
    /\ IF op = "connect" THEN sock # "connecting" ELSE able
    /\ Resumed("call")
    /\ UNCHANGED <<now, callVars, netVars>>

(* epoll_wait times out, or returns for another fiber *)
PollReturns ==
    /\ pc = "sleep"
    /\ pc' = "fire"
    /\ UNCHANGED <<now, callVars, waitVars, netVars>>

(* fire_expired_timers: TIMEOUT, which wait_failed makes ETIMEDOUT *)
Fire ==
    /\ pc = "fire" /\ timer # None /\ timer <= now
    /\ Resumed("done") /\ result' = "timeout"
    /\ UNCHANGED <<now, op, n, deadline, off, due, netVars>>

NotYet ==
    /\ pc = "fire" /\ (timer = None \/ timer > now)
    /\ pc' = "park" /\ until' = None /\ polled' = 0
    /\ UNCHANGED <<now, callVars, left, timer, netVars>>

(* apply_cmd or cfiber_ev_close: CANCELLED, and then ECANCELED *)
Cancel ==
    /\ pc \in {"park", "sleep", "fire"}
    /\ Resumed("done") /\ result' = "cancelled"
    /\ UNCHANGED <<now, op, n, deadline, off, due, netVars>>

-----------------------------------------------------------------------------
(* The peer, other users of the descriptor, and the clock *)

BecomesAble ==
    /\ \/ ~ able /\ able' = TRUE /\ UNCHANGED sock
       \/ sock = "connecting" /\ sock' \in {"up", "refused"} /\ UNCHANGED able
    /\ UNCHANGED <<now, callVars, pc, waitVars, stream, steals>>

Steal ==
    /\ able /\ steals < MaxSteals
    /\ able' = FALSE /\ steals' = steals + 1
    /\ UNCHANGED <<now, callVars, pc, waitVars, sock, stream>>

Tick ==
    /\ now < MaxNow \/ (timer \in 0 .. 2 * MaxNow /\ now < timer + Ms)
    /\ now' = now + 1
    /\ UNCHANGED <<callVars, pc, waitVars, netVars>>

Call ==
    \/ Connect \/ ConnectEnds \/ Take \/ Put \/ CallFails
    \/ TryAgain \/ TimeLeft \/ Wait \/ WaitRefused

TimesOut == PollReturns /\ until # None /\ until <= now

Loop == Poll \/ Event \/ TimesOut \/ Fire \/ NotYet

Next ==
    \/ ReadBegins \/ WriteBegins \/ AcceptBegins \/ ConnectBegins
    \/ \E ns \in Sleeps : SleepBegins(ns)
    \/ Call \/ Loop \/ PollReturns \/ Cancel
    \/ BecomesAble \/ Steal \/ Tick

(* The fiber and the loop are scheduled, epoll_wait ends when its timeout   *)
(* has passed, and time goes on.                                            *)
Spec == Init /\ [][Next]_vars /\ WF_vars(Call) /\ WF_vars(Loop) /\ WF_vars(Tick)

-----------------------------------------------------------------------------
(* Properties *)

(* A call times out only after the time it was given, measured from its     *)
(* first instruction and over all its waits, and never if it was given none *)
(* or more than the clock can hold (reactor.c:608 "total deadline").        *)
NeverEarly ==
    /\ result = "timeout" => due # None /\ now >= due
    /\ (timer \notin {None, NO_DEADLINE}) => due # None /\ timer >= due

(* What success means: every byte of the buffer is with the peer once and   *)
(* in order, however many partial writes it took, and connect's 0 is a      *)
(* connection.  On failure the peer has a prefix.                           *)
ResultIsTrue ==
    /\ \A i \in DOMAIN stream : stream[i] = i
    /\ Len(stream) = off
    /\ (result = "ok" /\ op = "write") => off = n
    /\ (result = "ok" /\ op = "connect") => sock = "up"

(* The loop sleeps until the earliest deadline, no shorter (it would spin)  *)
(* and less than a millisecond longer, or for the longest time epoll_wait   *)
(* can be given.                                                            *)
SleepsJustLongEnough ==
    (pc = "sleep" /\ timer # None) =>
        \/ timer <= polled /\ until = polled
        \/ timer <= until /\ until < timer + Ms
        \/ until - polled = Int32Max * Ms /\ until <= timer

(* A call that was given a time does not outlive it: it returns.            *)
TimedCallsReturn ==
    (pc # "idle" /\ due # None /\ due <= MaxNow) ~> (pc = "done")
=============================================================================
