# Verification of cfiber

TLA+ models of cfiber (stackful fibers in C with a cooperative scheduler and an
epoll reactor), model-checked with TLC on small instances, with theorems checked
by TLAPS for every value of the constants. `PROJECT.json` maps every definition
to the source lines it models and lists runs, mutants, findings, hazards and
theorems.

## 1. The system

| Part | State | Operations | Modules |
|---|---|---|---|
| Command ring (`reactor.c`, "command ring") | cells with sequence numbers, `enqueue_pos`, `dequeue_pos`, an eventfd | `post_cmd` (many threads), `drain_cmds` (loop thread) | `CmdRing`, abstract `CmdQueue` |
| Timer heap (`reactor.c`, "Timer min-heap") | `heap`, `heap_len`, `heap_cap`, `timer_i` and `deadline_ns` of each fiber | `timer_add`, `timer_remove`, `fire_expired_timers` | `TimerHeap`, abstract `TimerSet` |
| Reactor (`reactor.c`) | fibers and their fields, ready queue, counters, `fd_owner`, epoll set, live list, generations | in-fiber API, run loop, spawn, recycle, wake/cancel, destroy | `Reactor`; creation and its failures in `ReactorLife` |
| Transport helpers, deadline arithmetic (`reactor.c`) | a deadline, an offset, the wait in between | read, write, accept, connect, sleep; `deadline_after`, `remaining_ns`, `next_timeout_ms` | `Transport` |
| Scheduler (`scheduler.c`) and return hook (`fiber.c`) | ready queue, current, zombie, `active_count`; thread-local current scheduler, current reactor and hook | init, spawn, run, yield, return, destroy | `Scheduler`, with reactors nested in schedulers and the other way round |
| Slab (`slab_alloc.c`) | bitmap words, block count | init, alloc, release, reset | `SlabBitmap` |
| Multislab (`multislab_alloc.c`) | active and full lists, counts, per-slab `used_count`, `is_full` | init, alloc (walk, grow), release (move, give back), destroy | `Multislab` (on `SlabBitmap`) |
| Growable stacks and their cache (`growable_stack*.c`) | mappings; cache array, `cache_count`, `active_count` | create, recycle, destroy a stack; create, alloc, release, destroy a pool | `StackPool`, composed in `ReactorLife` |
| WebSocket echo server (`ws_echo.c`) | listener's count, a connection's descriptor, buffers and message under assembly | accept, handshake, read and write frames, reassemble, close | `WsEcho` |
| Context switch, canary, watermark, sanitizer annotations | registers and bytes | | not modelled (section 8) |

How they interact. One thread runs a reactor's loop and all its fibers. Other
threads reach it only through the command ring and its eventfd. The loop calls
the timer heap and epoll; fibers call the in-fiber API, which parks them (on a
descriptor, a deadline, a wake) and switches back to the loop. Fibers live in
blocks of a multislab and on stacks of the growable-stack pool; handles are a
block's address plus a generation, so the multislab must keep the block's memory
for as long as a handle may be used. The transport helpers loop over a system
call and `cfiber_ev_wait`. Each reactor owns a pool of growable stacks; user code
may have pools of its own. The scheduler is independent of the reactor and
shares with it only the thread's return hook; a fiber of one scheduler or
reactor may run another to completion. The echo server is a program on top: its
listener and its connections are fibers of one reactor that use the transport
helpers.

What is hard in it: the races of posting threads with each other and with the
loop going to sleep; wakes racing parks; events, deadlines, cancellations and
closes that end the same wait in the same turn of the loop; registrations kept
between waits and handed from fiber to fiber; blocks reused under outstanding
handles; the end of a round when its last fiber is recycled; removal from the
middle of the heap; thread-local state across nested runs; lists that are
maintained lazily; one deadline over many waits, in unsigned arithmetic that
saturates; caches at their limit and constructors that fail halfway; a byte
stream cut anywhere. `PROJECT.json` lists these as hazards, at their lines.

## 2. Modules and their correspondence to the code

**CmdRing** has one action per atomic access of `ring_enqueue` and
`ring_dequeue` and one per system call on the eventfd. A poster's `pc` is where
it is in `post_cmd`, `lpc` where the loop thread is in `drain_cmds`. Relaxed
loads of the two cursors are modelled as reads of the present value: each is
confirmed by the compare-and-exchange or by the acquire load of the cell's
sequence number before anything depends on it, and a stale cursor has the same
effect as reading it earlier, which an interleaving already contains. A weak
compare-and-exchange may fail with nobody else at work. `size_t` is taken as
unbounded: a wrap needs 2^64 posts. The branch for `dif > 0` in `ring_dequeue`
is not an action; `SingleConsumer` proves `NeverOvertaken`, that it cannot be
reached with one consumer.

**CmdQueue** is the ring's promise: a bounded queue in order of claims, whose
entries become visible when published, and of which only the oldest can be taken
and only once published. `CmdRing!ImplementsCmdQueue` is the refinement, and
`Reactor` instantiates `CmdQueue`, so the two compose.

**TimerHeap** makes each iteration of a sift loop an action, so that the loop
invariants can be stated; nothing else runs in between. `realloc` failing changes
nothing and is a stutter. The loop inside `heap_reserve` never iterates: the
capacity at least doubles and one more slot is all that is asked for. The clock
does not move inside `fire_expired_timers`, which reads it once. **TimerSet** is
the abstract specification: a partial function from fibers to deadlines; firing
takes an earliest one and ends when none left has expired.

**Reactor** is one reactor on its loop thread plus everything that can act on
it: posting threads, the kernel, the peers of the descriptors, the clock and the
host program. `lpc` is where the loop thread is. An action is everything the loop
thread does up to the next point where another actor could be noticed: one call
of the in-fiber API, one event, one command, one expired timer. A fiber is
arbitrary code: while it is current it may make any call. Deadlines are ticks
left; expired timers fire in any order here (`TimerHeap` gives the order).
epoll, eventfd and descriptors are external: entries are `EPOLLONESHOT`, `close`
drops an entry, a closed number can be reopened. `FirstOp` is the operation
`arm_fd` tries, `Fits` what the kernel takes, and `Taken` adds the fallback: `MOD`
and `ADD` fall back to each other once. `epoll_wait` is interrupted only when it
sleeps. A plain `close` of a descriptor another fiber waits on is outside the
documented contract and not an action; `cfiber_ev_close` is. Calls that fail
before they change anything (null handles, `EINVAL`, no memory for the owner map)
are stutters; the other failures are actions (`EvWaitBusy`, `EvWaitFails`,
`SpawnNoStack`, `PollFails`). The history
variables `issued`, `woken`, `cancelled` and `owed` record requests and occur in
no guard of code (`issued` restricts users to handles they were given).

**Transport** is one call of a transport helper, or of `cfiber_ev_sleep`, from
its entry to its return: the attempts of the system call, the waits, the loop's
poll with its timeout, the clock. It is alone in its reactor; what other fibers
do to a wait is in `Reactor`, and here they can steal readiness. Deadlines are
unsigned integers of a small width (`UintMax`, `IntMax`, `Int32Max`), so that
additions wrap, deadlines saturate and the poll timeout is capped. The history
variable `due` is the deadline as an unbounded integer. `EINTR` retries at once
and is a stutter. A call whose deadline has passed may still go on while a wait
of zero length finds the descriptor ready: the code looks at the clock only when
it waits.

**Scheduler** keeps the stack of `cfiber_scheduler_run` and `cfiber_reactor_run`
calls in `frames`, with the locals each one saved; of a reactor it keeps what
nesting can disturb (ready queue, parked fibers, `current`, the thread's current
reactor, the hook). A spawn without memory and a yield of the only ready
fiber change nothing. Calling an in-fiber function of a runner that is not the
innermost one is misuse and not an action. With `Reentry` user code may also run
a scheduler that is already running further out, which the assertion at
`scheduler.c:187` does not see; the passing run leaves that out, one violation
run shows what it leads to.

**StackPool** has the growable stacks and their pools as a release build
(`NDEBUG`) runs them: an assertion in front of a handled case is not there. A
stack of another size given to a pool is an action, since the code handles it;
one of the same size from another pool is the misuse the assertion on
`active_count` is about, and is left out. Sizes are in pages; rounding to
pages is abstracted. Every system call may fail: `mmap` and `mprotect`, which the
code looks at, and `munmap` and `madvise`, whose results it discards. A mapping
remembers in `refused`, which no guard reads, what the system last would not do:
after a refused `munmap` it is there without an owner, after a refused `madvise`
(or without a page size, `growable_stack.c:84`) it is cached with all its pages.
**ReactorLife** composes a pool with the reactor that owns it:
`cfiber_reactor_create` failing at each of its steps, fibers that come and go or
are left over, next to a pool of the user. `cfiber_reactor_destroy` is a loop: it
starts (`DestroyStarts`), gives back one stack after the other through the pool, to
the cache or past it (`Discard`), and ends with the pool (`DestroyEnds`).

**WsEcho** is the echo server, with one action per call that may wait. The
stream is a sequence of cells, a byte whose value matters or a field that is read
by one call, and a read returns any part of what it asked for. Lengths 125,
0xFFFF and `MAX_PAYLOAD` are constants that keep their order; each of the three
forms of a length occurs. `Owed` is an independent reference: what the server owes
a client for the frames it sent. It is computed from the list of whole frames, not
from bytes, and knows nothing of the server's state: `Body` and `Kind` find a
message by looking back over the list, `Code` the close code a frame deserves,
`Reply` its answer, and `Replies` stops at the first frame that ends the
connection. Of clients `ScriptsAssumption` says no more than that they send a
request and then frames: the request may have no end, a frame may have any opcode
and any bit wrong, the longer form of a length or too large a one, but it has the
fields its first bytes announce and, up to `MAX_PAYLOAD`, its payload. A client
that stops in the middle of a frame is one that closes before all is read
(`PeerCloses`). SHA-1, base64 and the scan of the
request's header lines are functions of its bytes alone: a request is one that
is accepted or one that is not. Reads and writes are `Transport`'s results, not
its waits. A write to a connection that is lost fails (`WriteFails`) or ends the
process (`WriteKills`): `write_impl` uses `write`, so an `EPIPE` comes with a
SIGPIPE, and neither `ws_echo.c` nor the `main` of `ws_echo_server.c` ignores it.
The library's own tests do (`tests/reactor/test_reactor.c:1586`).

**SlabBitmap** holds the slab's word-wise bitmap search, its address arithmetic
and its checks of a release; **Multislab** is the state machine over it, with a
bitmap per slab and the number of blocks chosen at initialisation. Addresses are
integers and slabs may touch, so that bounds are exact. Releases of arbitrary
addresses are included, as the default build (`CFIBER_DEFENSIVE`) with `NDEBUG`
treats them: a rejected one changes nothing. The failure of `cfiber_slab_init`
inside `multislab_grow` needs a backing allocator that returns misaligned memory
and is left out, and so are `cfiber_slab_reset` and slabs over a region of the
user, which the rest of the library does not use. A slab that was given back
keeps no state, so its place can be reused. `Places` is how many slabs fit into
the modelled memory, one after the other.

## 3. Runs

Every run finishes within three minutes with two workers.

| Run | Question | Instance |
|---|---|---|
| `ring` | commands whole, once, in order; none unnoticed; refusal only when full; refinement of `CmdQueue`; `post_cmd` returns even if the loop never runs; while it runs, accepted commands are applied | 2 posters, 2 cells, 3 posts, 2 commands: a lap and a half, so cells are reused while posters stall |
| `heap_safety` | capacity, inverse maps, earliest at the root, refinement of `TimerSet` | 6 timers (the fewest with which a removal must sift up), clock 0..2 plus "never", capacity 1 growing by 2 |
| `reactor_fds` | registrations, waiters and events agree; queue, counters, deadlines and stacks are accounted for; why waits end | 2 fibers, 2 descriptors, 2 lives per block, all failures |
| `reactor_commands` | wakes, cancels, permits, generations; wakes resume the fiber that waits for them | 1 block through 2 lives, 1 descriptor, 2 posters, ring of 2, descriptor and eventfd in one batch |
| `reactor_live` | rounds end; deadlines, turns and readiness come through | 2 fibers, 1 descriptor, 2 lives per block, delays 0 and 1 |
| `scheduler_nesting` | tasks, current scheduler and reactor, hook, what a run leaves, turns | 2 schedulers and 2 reactors nested 3 deep in any order, 2 blocks each |
| `multislab_safety` | bitmap search, blocks, counts, lists, reserve, leaks | 3 touching slabs of 1, 2 or 3 blocks in words of 2 bits; cap none or 2; reserves 0, 1, 3 |
| `stack_pools` | mappings have one owner, caches are lean, a reactor is whole or gone | 1 reactor and 1 pool of the user, 3 mappings, 3 users of stacks, sizes 1 and 2, caches of 1 (reactor) and 2 (user); `mmap`, `mprotect`, `munmap` and `madvise` may each fail at every call |
| `transport_calls` | no early timeout, success is true, sleeps neither too short nor too long, timed calls return | 6-bit clock, `INT32_MAX` as 4 ms of 3 ticks, buffers of 0, 1 and 3 bytes, 2 thefts of readiness |
| `ws_echo` | the server writes what the reference owes, within its buffers, leaks nothing; connections whose client is lost end, and those whose client has closed and reads | one descriptor, used again; streams of up to 3 legal frames or a legal and a malformed one, in either order; requests up to and past the limit of 7 cells; up to 3 cells carried over, so that reads take all of the carry or a part of it; `max_conns` 0 and 1 |

Runs expected to find a violation, one for each finding:

- `reactor_ev_wake_doc`: `reactor.h` calls `cfiber_ev_wake` a no-op on a fiber
  that is not parked; it leaves a permit, which the next
  `cfiber_ev_wait_async` consumes. The code's own comment explains why.
- `scheduler_reentry`: the trap for "live fibers but an empty ready queue" is
  reached without switching by hand, by running A from a fiber of B from a
  fiber of A.

Two more disagreements were met that need no run: the head comment of
`reactor.c` (line 24) speaks of a "mutex-guarded queue" where there is a
lock-free ring, and `multislab_alloc.h` (line 103) says an empty slab is freed
beyond the threshold, where the last slab is always kept (`BooksAgree` states what
holds).

Each property of a passing run has a mutant: a definition changed as a plausible
bug would change it, under which TLC finds the property violated. The mutants
are the operators commented "Mutant:" before the definition they stand in for.

Why the bounds are enough: the properties concern one fiber, one descriptor, one
cell, one slab, or a pair of them, and the instances have that many plus one to
interfere. `MaxGen`, `MaxPosts`, `MaxDepth`, `MaxTime` and `Places`
bound the models where the code has counters or memory without a small bound.
The widths of `transport_calls` are small so that a deadline saturates, a
remaining time exceeds the signed range and a poll timeout exceeds `INT32_MAX`
within a few ticks; the order of the constants is that of the code.
Symmetry is used only in runs without liveness properties. Deadlock is checked
where the system cannot stop (`TimerHeap`, `Scheduler`, `Multislab`,
`ReactorLife`); the ring stops when its posts are used up, the reactor when it is
destroyed, a transport call when it has returned and the server when it has served
its connections, so there it is off, and `Accounting` says that the reactor's
loop never sleeps for nothing.

## 4. Fairness

- The loop thread is scheduled (`WF(LoopStep)`); it is an ordinary thread in
  `cfiber_reactor_run`.
- A fiber gives the thread back some time (`WF` of yielding, parking or
  finishing). Nothing in a cooperative system forces it to; without it no
  promise could be made.
- A thread inside `post_cmd` keeps being scheduled, and a weak
  compare-and-exchange does not fail spuriously for ever (`SF` of the successful
  one).
- The clock advances (`SF(Tick)`, strong only because the model holds it still
  inside `fire_expired_timers`).
- Nested runs: the innermost loop is scheduled, and a running fiber yields, parks
  or returns some time (`Scheduler!FairSpec`); nothing is assumed of spawns,
  nested runs or their ends.
- A transport call, the loop under it and the clock go on (`Transport!Spec`);
  nothing is assumed of the peer.
- A connection's fiber is resumed when its call can return (`WsEcho!Spec`, one
  `WF` for each, of all its steps but `Write`): `ReadinessIsNoticed` and
  `ReadyRuns` of `Reactor` are what justifies it. Nothing is assumed of clients,
  neither that they send nor that they read. `ConnectionsEnd` says that a
  connection that is lost ends, and that one whose client has closed ends *if* the
  client reads what it is sent: `WF(Write)` is a premise of that half alone. It
  is needed, and TLC finds the violation without it: `cfiber_ev_write` waits without a
  timeout (`reactor.c:647`), so a client that closes its sending side and does not
  read keeps its fiber, its descriptor and its buffers. A lost connection may end
  with the whole server (`WriteKills`).

`PostReturns` is about finitely many posts (`MaxPosts`): a poster could in theory
lose every compare-and-exchange to others that win for ever. In
`ring` the loop has no fairness at all for `PostReturns`; it is a premise of
`AcceptedIsApplied` alone.

## 5. Proofs

Each component's theorems are in the module named after it with `Proofs` at the
end. They hold for every value of the constants that satisfies the assumptions
stated where the constants are declared, and use nothing else; the one
hypothesis that goes further (`~ Reentry`) is discussed below. Every safety property of a passing
run is proved. Nothing is proved by evaluating
an instance: where a recursion or a search is involved, its defining property is
derived from a least element.

**CmdRingProofs**, for every set of posters and commands, every capacity and any
number of posts: `InClaimOrder`, `NoLostCommand`, `NeverOvertaken`,
`FullMeansFull`, and that the ring implements `CmdQueue`. What holds of the ring
is not inductive by itself: that commands come out in order depends on what each
cell holds, which depends on who may write it. The inductive invariant `IInv`
adds `CursorInv` (at most `Cap` positions are open), `CellInv` (a cell is free
for its next position, owned by exactly one poster, or published with the claimed
command) and `PosterInv` (an owner's position is open and its alone; a poster
about to compare-and-exchange has seen a cell that was released, and if
`enqueue_pos` has not moved since, it still is). `BusyInv`, that a poster which
finds its cell in use is a full lap ahead, is what `FullMeansFull` needs. The
arithmetic of `pos & mask` is isolated in lemmas on `Idx`: two open positions
less than `Cap` apart have different cells. For the refinement
(`RingImplementsQueue`) the abstract queue is read off the cells between the two
cursors; a won compare-and-exchange of a poster is a claim, its store of the
sequence number a publication, the loop's move of `dequeue_pos` a take, and each
of the other steps is shown to leave that queue alone.

**TimerHeapProofs**, for any number of fibers, any initial capacity, any growth
factor of at least 2 and any clock bound: `RootIsEarliest`, `PlacesKnown`,
`WithinCapacity`, and that the heap implements `TimerSet` (initial states map to
initial states, each step to a step or a stutter). `HeapInv` carries the loops:
while sifting up only the edge above the cursor may be out of order and the
cursor's children are in order with its parent; while sifting down the edges
below the cursor may be, and the one above it only where the hole was, which is
why `timer_remove` sifts up from there afterwards. That an array in heap order
has its minimum at the root (`OrderPutsEarliestFirst`) needs induction over
positions; it is obtained from a least counterexample, with the library's
theorem on minimal elements, instead of an induction schema.

**ReactorProofs**, for any finite set of fibers (the live list is counted), any
descriptors, posters, ring capacity and size of a batch of events: `Accounting`,
`RegistrationsAgree`, `RoundHasEnd`, `OnlyAsked`, `NoWakeLost` and the action
property `WaitsEndForAReason`. The properties are parts of one inductive
invariant because they lean on each other. What has to be added:

- `LoopInv`: where the loop thread is tells who runs and whether there is a
  zombie or an event left. Without it a step could resume a second fiber.
- `WaitInv` and `EventInv`: what a parked fiber waits for is what it has
  registered, and an event left in the batch is for the fiber that still waits
  for it or for one whose wait has ended in the same turn. They are why an event
  that comes after a timeout, a cancel or a close of the same turn resumes nobody
  else.
- `HandleInv` and `CmdInv`: handles and the commands in the ring name this life
  of a block or an earlier one, never a later one. `OnlyAsked` rests on them: the
  generation decides, also when the block has been reused.
- `WakeInv`: a wake that is owed is in the ring, is a permit, or has just ended
  the wait. `NoWakeLost` follows, since a fiber that waits has no permit.
- `PostInv`: at most `Posters` threads are inside `post_cmd`.

The ready queue is handled by lemmas that say what an append, a removal of the
head and a join at the end do to the set of fibers in it and to their number.
`RoundHasEnd` needs no more than that the queue grows only at its end and that
`entered` is compared with `round_end` before the next fiber is taken from it.

**SchedulerProofs**, for any schedulers, reactors and tasks and any depth of
nesting. `InnermostIsCurrent` follows from `ChainInv`: each run in progress has
saved the runner that was innermost, of its own kind and for the hook, when it
began. A new run lengthens this chain at its end, and a run that ends restores
exactly what the next one out had. It holds with re-entered runs as well.
`EveryTaskOnce`, `HostsStayAlive` and that the trap of `cfiber_scheduler_run` is
unreachable are proved under the hypothesis `~ Reentry`: no runner is started
while it is running further out. The code asserts this for the innermost run
and refuses it for reactors; the violation run `scheduler_reentry` shows that
without it the last one is false. `NestInv` is what that hypothesis gives: no
runner is twice in the chain, and exactly those whose loop does not execute have
a current fiber.

**TransportProofs**, for unsigned integers of every width, every timeout, every
buffer length and any number of waits, partial transfers and thefts:
`NeverEarly`, `ResultIsTrue`, `SleepsJustLongEnough`. The lemmas say what
`deadline_after`, `remaining_ns` and `next_timeout_ms` return: the exact
value where it can be represented, the saturated one otherwise, the millisecond
rounded up, `INT32_MAX` at most. The assumptions on the constants say that the
width has the shape of `uint64_t` (`UintMax = 2 * IntMax + 1`), that
`INT32_MAX` milliseconds fit into it with one to spare (the addition in the
rounding cannot wrap, as the comment at `reactor.c:1048` says), and that the
clock is far from the signed range, as a monotonic clock in nanoseconds is for
two centuries. `Deadlines`, the part that has to be added, relates the saturated
deadline to the true one.

**ReactorLifeProofs**, for any number of reactors, pools, stacks and users, any
sizes and any failures, those of `munmap` and `madvise` among them: `OwnedOnce`,
`CacheIsLean`, `WholeOrGone`. What they say of refusals is exact: a mapping without
an owner is one whose `munmap` was refused (`MunmapTakes`), and a cached stack with
more than one page is one whose `madvise` was refused by the release that cached it.
Every action is shown to be made of six kinds of change of ownership (a stack is
used, created, taken from a cache, put into one or unmapped, alone or with its
pool, and a pool begins with its cache filled), and the invariant is proved once
for each kind.
The assumptions are that users can be counted and that the null values are
not records.

**MultislabProofs**, for words, bitmaps and blocks of every size, any number of
slabs, any limit and any reserve: `FindsLeastFree`, `ReleasesExactlyHeld`,
`BooksAgree`, `SlabsAreKept`. Three groups of lemmas come first. On integers: a
number has one quotient and remainder, so an index has one word and bit, and an
address at most one slab and offset, also when slabs touch. On bitmaps: setting
and clearing a bit adds and removes that block and no other; the word-wise search
returns the least clear bit. On lists: what moving a prefix, pushing a head and
unlinking do to the elements and to their being distinct. The inductive invariant
`IInv` adds `MarkInv` to the books: in a listed slab no bit past the last block is
ever set, the users' blocks are the addresses of the set bits, and slabs on the
full list have every bit set. The converse fails, since slabs become full without
being moved, which is why `cfiber_multislab_alloc` looks again. `ConfInv` says
that a chain without `inited` has no slabs and one with it has its sizes, so that
an address computed at allocation is found again at release.

**WsEchoProofs**, for any number of connections, any clients that satisfy
`ScriptsAssumption` and any lengths that keep their order: `NothingLeaks`,
`EchoesTheStream`, `BuffersHold`. For the first, what has to be added (`IInv`) is
that the listener has a descriptor in hand only between `accept` and `spawn`, while
no fiber runs on it, and that a record keeps its fields.

The other two follow from one invariant, `AllTold`, proved with `IInv`. A reply
depends on bytes that were read long before, in pieces and over several calls, so
neither property is inductive. `Told` places a connection in the stream its client
sends: it asks (before the handshake, at the beginning), serves (after `i` frames,
none of which ends the connection), leaves (writing for the last time) or is over.
A connection that serves

- has, in what it holds in its buffer, what it carries over from the request and
  what it has yet to read, exactly what follows place `Pos(s, i)` of the stream, or
  the place of the field it is reading (`At`); all of it, unless the client has cut
  the stream or was lost;
- has written, or is about to write in one or two calls, the replies to the first
  `i` frames (`Said`, `Telling`);
- has as its message what the reference's `Body` and `Kind` say is unfinished
  (`Reassembles`), and in its header what the frame being read really says, with
  everything checked that is checked by then (`InFrame`).

Reads only move the boundary between the parts of that sequence (`Moves`), which is
why segmentation cannot matter. When a field is whole, `InHand` says it is the field
of that frame, and one lemma for each handler (`HandshakeTold`, `HeadTold`,
`ExtTold`, `MaskTold`, `PayloadTold`, `OnFrameTold`, `DataTold`) that the handler
does what the reference says. The length read for a payload is bounded because it
was taken from such a place and checked: this is `BuffersHold`. When a client has
closed, nothing of it is left over and no whole frame fits into what is in the
buffer (`EndsTold`).

Before that come lemmas on the operators. `FlattenSeq` is defined by a recursive
function inside a `CHOOSE`; that the function exists and is unique, and with it
that joining one more sequence appends it (`JoinedSeq`), is obtained from a least
counterexample, and so is that an unfinished message was begun (`Begun`). From
these follow where each frame lies in the stream (`ScriptIs`), what its fields are
(`FrameBytesAre`), how `Body`, `Open` and `Said` grow with one more frame
(`BodyGrows`, `NextFrame`, `SaidIs`), and that masking twice is the identity.

`TypeOK`, `RingInv`, `NeverOvertaken` and the invariants named `IInv` are proved
and not listed in a run: they are the parts of the argument (TLC was used to find
them, and has nothing to add to a proof).

Only model-checked is liveness, which needs fairness and `ENABLED`: `PostReturns`,
`AcceptedIsApplied`, `WakesArrive`, `DeadlinesFire`, `ReadyRuns` (of the reactor and
of the scheduler), `ReadinessIsNoticed`, `TimedCallsReturn`, `ConnectionsEnd`.

## 6. Properties that carry the most weight

- `NoLostCommand` with `AcceptedIsApplied`: a thread's wake reaches a sleeping
  loop.
- `NoWakeLost`, `OnlyAsked`, `WaitsEndForAReason`: a wake reaches the right
  fiber, in the right wait, exactly if asked for.
- `RegistrationsAgree`: the epoll set, the owner map and the fibers agree through
  every handover, failure and close.
- `RoundHasEnd` with `DeadlinesFire`: yielding fibers cannot starve the loop.
- `NeverEarly` with `SleepsJustLongEnough`: a total deadline over many waits, in
  unsigned arithmetic that saturates and a poll timeout that rounds.
- `InnermostIsCurrent`: thread-local current runners and the hook, through every
  order of nested runs and failing ones.
- `ReleasesExactlyHeld`, `SlabsAreKept`: the blocks in use are those that can be
  given back, and no slab goes back under one; the reactor's grow-only pool never
  gives one back, on which stale handles rely.
- `OwnedOnce`: no two fibers on one stack, and no mapping lost by a failure other
  than that of its own `munmap`.
- `EchoesTheStream`: what a client gets depends on its frames and not on how they
  were cut into segments.

## 7. Plan

Every component with control of its own is modelled, and every safety property is
proved. Left:

1. Facts that hold in every model of a list (appending, unlinking, joining,
   distinctness) are proved in each module that needs them; they could be shared.
2. When the code changes: the map names the lines each definition stands for, and
   the step lemma of an action is where a changed handler shows first.

## 8. Not modelled

- Register save and restore, stack layout and the assembly of the context
  switch: the models take a switch as atomic.
- Canary and watermark patterns (`stack_peak`, the scheduler's trap on a damaged
  canary), ASan and TSan annotations: debugging aids without control of their own.
- Fixed-size stacks: each operation is one call of the multislab allocator.
- `cfiber_slab_reset` and slabs over a region of the user, which the rest of the
  library does not use; `cfiber_ev_set_nonblocking`, one system call.
- A program that ignores SIGPIPE: it has the behaviours of `WsEcho` without
  `WriteKills`.
- The text of the WebSocket handshake, SHA-1 and base64: pure functions of bytes.
  `ws_selftest.c` is a client with a fixed script; `WsEcho` lets clients do more.
- The compiler's freedom under data races: the only data shared between threads is
  the ring, whose cells are ordered by acquire and release.
- Duplicated descriptors (`dup`) of one open file, whose hidden epoll entries are
  one-shot and never armed again.
