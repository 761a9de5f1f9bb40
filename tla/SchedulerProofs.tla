--------------------------- MODULE SchedulerProofs ---------------------------
(***************************************************************************)
(* Proofs about Scheduler, for any schedulers, reactors and tasks and any  *)
(* depth of nesting.                                                       *)
(***************************************************************************)
EXTENDS Scheduler, FiniteSetTheorems, TLAPS

(* The locals of one run on the stack of runs *)
Frame == [runner : Runners, prev : Runners \cup {None}, prev_hook : Runners \cup {None}]

-----------------------------------------------------------------------------
(* The chain of saved runners *)

(* r is the innermost runner of a kind among the outermost m runs of fr. *)
Top(fr, kind, m, r) ==
    \/ r = None /\ \A j \in 1 .. m : fr[j].runner \notin kind
    \/ \E k \in 1 .. m :
          /\ fr[k].runner = r /\ r \in kind
          /\ \A j \in k + 1 .. m : fr[j].runner \notin kind

(* Every run has saved, in its locals, the hook and the runner of its kind  *)
(* that were innermost when it began; the thread-local ones are those of    *)
(* the whole stack.                                                         *)
ChainInv ==
    /\ frames \in Seq(Frame)
    /\ pc \in {"code", "loop"}
    /\ pc = "loop" => frames # <<>>
    /\ \A k \in 1 .. Len(frames) :
          /\ frames[k].prev_hook = IF k = 1 THEN None ELSE frames[k - 1].runner
          /\ frames[k].runner \in Scheds => Top(frames, Scheds, k - 1, frames[k].prev)
          /\ frames[k].runner \in Reactors => Top(frames, Reactors, k - 1, frames[k].prev)
    /\ s_return_hook = Innermost
    /\ Top(frames, Scheds, Len(frames), s_current_sched)
    /\ Top(frames, Reactors, Len(frames), g_reactor)

(* The stack of runs and what the thread points at do not change outside    *)
(* the beginning and the end of a run.                                      *)
LEMMA ChainSame ==
    ASSUME ChainInv, UNCHANGED <<threadVars, frames>>, pc' \in {"code", "loop"},
           pc' = "loop" => frames # <<>>
    PROVE  ChainInv'
BY DEF ChainInv, threadVars, Innermost, Top

(* What a stack of runs without its last is like *)
LEMMA PopFrame ==
    ASSUME NEW fr \in Seq(Frame), fr # <<>>, NEW gr, gr = Front(fr)
    PROVE  /\ gr \in Seq(Frame) /\ Len(fr) \in Nat \ {0} /\ Len(gr) = Len(fr) - 1
           /\ \A k \in 1 .. Len(gr) : gr[k] = fr[k]
           /\ Last(fr) = fr[Len(fr)] /\ fr[Len(fr)] \in Frame
           /\ Len(fr) = 1 => gr = <<>>
           /\ Len(fr) # 1 => gr # <<>> /\ Last(gr) = fr[Len(fr) - 1]
<1>1. Len(fr) \in Nat \ {0} /\ fr \in [1 .. Len(fr) -> Frame]
  OBVIOUS
<1>2. gr = SubSeq(fr, 1, Len(fr) - 1)
  BY DEF Front
<1>3. gr \in Seq(Frame) /\ Len(gr) = Len(fr) - 1
  BY <1>1, <1>2
<1>4. \A k \in 1 .. Len(gr) : gr[k] = fr[k]
  BY <1>1, <1>2, <1>3
<1>5. Last(fr) = fr[Len(fr)] /\ fr[Len(fr)] \in Frame
  BY <1>1 DEF Last
<1>6. Len(fr) = 1 => gr = <<>>
  BY <1>1, <1>3
<1>7. Len(fr) # 1 => gr # <<>> /\ Last(gr) = fr[Len(fr) - 1]
  <2> SUFFICES ASSUME Len(fr) # 1 PROVE gr # <<>> /\ Last(gr) = fr[Len(fr) - 1]
    OBVIOUS
  <2>1. Len(gr) \in Nat \ {0} /\ Len(gr) \in 1 .. Len(gr)
    BY <1>1, <1>3
  <2> QED BY <1>3, <1>4, <2>1 DEF Last
<1> QED BY <1>1, <1>3, <1>4, <1>5, <1>6, <1>7

(* Top looks at the outermost m runs only. *)
LEMMA TopSame ==
    ASSUME NEW fr, NEW gr, NEW kind, NEW m \in Nat, NEW r, \A j \in 1 .. m : gr[j] = fr[j],
           Top(fr, kind, m, r)
    PROVE  Top(gr, kind, m, r)
<1>1. CASE r = None /\ \A j \in 1 .. m : fr[j].runner \notin kind
  BY <1>1 DEF Top
<1>2. ASSUME NEW k \in 1 .. m, fr[k].runner = r /\ r \in kind,
             \A j \in k + 1 .. m : fr[j].runner \notin kind
      PROVE  Top(gr, kind, m, r)
  <2>1. \A j \in k + 1 .. m : j \in 1 .. m
    OBVIOUS
  <2>2. gr[k].runner = r /\ \A j \in k + 1 .. m : gr[j].runner \notin kind
    BY <1>2, <2>1
  <2> QED BY <1>2, <2>2 DEF Top
<1> QED BY <1>1, <1>2 DEF Top

(* A run of the kind is the top; a run of the other kind changes nothing.   *)
LEMMA TopPushed ==
    ASSUME NEW fr, NEW kind, NEW m \in Nat, NEW r
    PROVE  /\ fr[m + 1].runner \in kind => Top(fr, kind, m + 1, fr[m + 1].runner)
           /\ fr[m + 1].runner \notin kind /\ Top(fr, kind, m, r) => Top(fr, kind, m + 1, r)
           /\ fr[m + 1].runner \notin kind /\ Top(fr, kind, m + 1, r) => Top(fr, kind, m, r)
<1>1. ASSUME fr[m + 1].runner \in kind PROVE Top(fr, kind, m + 1, fr[m + 1].runner)
  <2>1. m + 1 \in 1 .. m + 1 /\ \A j \in (m + 1) + 1 .. m + 1 : FALSE
    OBVIOUS
  <2> QED BY <1>1, <2>1 DEF Top
<1>2. ASSUME fr[m + 1].runner \notin kind, Top(fr, kind, m, r) PROVE Top(fr, kind, m + 1, r)
  <2>1. CASE r = None /\ \A j \in 1 .. m : fr[j].runner \notin kind
    <3>1. \A j \in 1 .. m + 1 : j \in 1 .. m \/ j = m + 1
      OBVIOUS
    <3> QED BY <1>2, <2>1, <3>1 DEF Top
  <2>2. ASSUME NEW k \in 1 .. m, fr[k].runner = r /\ r \in kind,
               \A j \in k + 1 .. m : fr[j].runner \notin kind
        PROVE  Top(fr, kind, m + 1, r)
    <3>1. k \in 1 .. m + 1 /\ \A j \in k + 1 .. m + 1 : j \in k + 1 .. m \/ j = m + 1
      OBVIOUS
    <3> QED BY <1>2, <2>2, <3>1 DEF Top
  <2> QED BY <1>2, <2>1, <2>2 DEF Top
<1>3. ASSUME fr[m + 1].runner \notin kind, Top(fr, kind, m + 1, r) PROVE Top(fr, kind, m, r)
  <2>1. CASE r = None /\ \A j \in 1 .. m + 1 : fr[j].runner \notin kind
    <3>1. \A j \in 1 .. m : j \in 1 .. m + 1
      OBVIOUS
    <3> QED BY <2>1, <3>1 DEF Top
  <2>2. ASSUME NEW k \in 1 .. m + 1, fr[k].runner = r /\ r \in kind,
               \A j \in k + 1 .. m + 1 : fr[j].runner \notin kind
        PROVE  Top(fr, kind, m, r)
    <3>1. k # m + 1
      BY <1>3, <2>2
    <3>2. k \in 1 .. m /\ \A j \in k + 1 .. m : j \in k + 1 .. m + 1
      BY <3>1
    <3> QED BY <2>2, <3>2 DEF Top
  <2> QED BY <1>3, <2>1, <2>2 DEF Top
<1> QED BY <1>1, <1>2, <1>3

(* The innermost runner of a kind is unique. *)
LEMMA TopUnique ==
    ASSUME NEW fr, NEW kind, NEW m \in Nat, NEW r, NEW s, None \notin kind,
           Top(fr, kind, m, r), Top(fr, kind, m, s)
    PROVE  r = s
<1>1. CASE \A j \in 1 .. m : fr[j].runner \notin kind
  BY <1>1 DEF Top
<1>2. CASE ~ \A j \in 1 .. m : fr[j].runner \notin kind
  <2>1. PICK k \in 1 .. m : fr[k].runner = r /\ r \in kind /\ \A j \in k + 1 .. m : fr[j].runner \notin kind
    BY <1>2 DEF Top
  <2>2. PICK l \in 1 .. m : fr[l].runner = s /\ s \in kind /\ \A j \in l + 1 .. m : fr[j].runner \notin kind
    BY <1>2 DEF Top
  <2>3. ~ (k < l) /\ ~ (l < k)
    BY <2>1, <2>2
  <2>4. k = l
    BY <2>3
  <2> QED BY <2>1, <2>2, <2>4
<1> QED BY <1>1, <1>2

(* It is what InnermostOf computes. *)
LEMMA TopIsInnermostOf ==
    ASSUME NEW kind, None \notin kind, frames \in Seq(Frame), NEW r, Top(frames, kind, Len(frames), r)
    PROVE  InnermostOf(kind) = r
<1> DEFINE at == {k \in DOMAIN frames : frames[k].runner \in kind}
<1>0. DOMAIN frames = 1 .. Len(frames) /\ Len(frames) \in Nat
  OBVIOUS
<1>1. CASE r = None /\ \A j \in 1 .. Len(frames) : frames[j].runner \notin kind
  BY <1>0, <1>1 DEF InnermostOf
<1>2. ASSUME NEW k \in 1 .. Len(frames), frames[k].runner = r /\ r \in kind,
             \A j \in k + 1 .. Len(frames) : frames[j].runner \notin kind
      PROVE  InnermostOf(kind) = r
  <2>1. k \in at /\ at \subseteq 1 .. Len(frames)
    BY <1>0, <1>2
  <2>2. \A j \in at : k >= j
    <3> SUFFICES ASSUME NEW j \in at, ~ k >= j PROVE FALSE
      OBVIOUS
    <3>1. j \in k + 1 .. Len(frames)
      BY <1>0
    <3> QED BY <1>2, <3>1
  <2>3. \A x \in at : (\A y \in at : x >= y) => x = k
    BY <1>0, <2>1, <2>2
  <2>4. Max(at) = k
    BY <2>1, <2>2, <2>3 DEF Max
  <2> QED BY <1>2, <2>1, <2>4 DEF InnermostOf
<1> QED BY <1>1, <1>2 DEF Top

(* A run begins: it saves what it finds and becomes the innermost. *)
LEMMA ChainRun ==
    ASSUME ChainInv, NEW s \in Runners, Run(s)
    PROVE  ChainInv'
<1> DEFINE n == Len(frames)
           f == [runner |-> s, prev |-> IF s \in Scheds THEN s_current_sched ELSE g_reactor,
                 prev_hook |-> s_return_hook]
<1>1. /\ frames' = Append(frames, f) /\ pc' = "loop" /\ s_return_hook' = s
      /\ s_current_sched' = IF s \in Scheds THEN s ELSE s_current_sched
      /\ g_reactor' = IF s \in Reactors THEN s ELSE g_reactor
  BY DEF Run, Enter
<1>2. /\ frames \in Seq(Frame) /\ n \in Nat /\ s_return_hook = Innermost
      /\ Top(frames, Scheds, n, s_current_sched) /\ Top(frames, Reactors, n, g_reactor)
      /\ Innermost = IF n = 0 THEN None ELSE frames[n].runner
  BY DEF ChainInv, Innermost, Last
<1>3. /\ s_current_sched \in Runners \cup {None} /\ g_reactor \in Runners \cup {None}
      /\ s_return_hook \in Runners \cup {None}
  <2>1. \A k \in 1 .. n : frames[k].runner \in Runners
    <3> TAKE k \in 1 .. n
    <3>1. frames[k] \in Frame
      BY <1>2
    <3> QED BY <3>1 DEF Frame
  <2>2. s_current_sched \in Runners \cup {None} /\ g_reactor \in Runners \cup {None}
    BY <1>2, <2>1 DEF Top
  <2>3. n # 0 => n \in 1 .. n
    BY <1>2
  <2> QED BY <1>2, <2>1, <2>2, <2>3
<1>4. f \in Frame /\ f.runner = s /\ f.prev_hook = s_return_hook
      /\ f.prev = IF s \in Scheds THEN s_current_sched ELSE g_reactor
  BY <1>3 DEF Frame
<1> HIDE DEF f
<1>5. /\ frames' \in Seq(Frame) /\ Len(frames') = n + 1 /\ frames' # <<>>
      /\ \A k \in 1 .. n : frames'[k] = frames[k]
      /\ frames'[n + 1] = f /\ Last(frames') = f
  <2>1. frames' = Append(frames, f) /\ frames \in Seq(Frame) /\ f \in Frame
    BY <1>1, <1>2, <1>4 DEF f
  <2>2. frames' \in Seq(Frame) /\ Len(frames') = n + 1
    BY <2>1
  <2>3. frames' # <<>> /\ Last(frames') = frames'[n + 1]
    BY <1>2, <2>2 DEF Last
  <2>4. \A k \in 1 .. n : frames'[k] = frames[k]
    BY <2>1
  <2>5. frames'[n + 1] = f
    BY <2>1
  <2> QED BY <2>2, <2>3, <2>4, <2>5
<1>6. Innermost' = s
  BY <1>4, <1>5 DEF Innermost
<1>7. ASSUME NEW k \in 1 .. n + 1
      PROVE  /\ frames'[k].prev_hook = IF k = 1 THEN None ELSE frames'[k - 1].runner
             /\ frames'[k].runner \in Scheds => Top(frames', Scheds, k - 1, frames'[k].prev)
             /\ frames'[k].runner \in Reactors => Top(frames', Reactors, k - 1, frames'[k].prev)
  <2>1. \A j \in 1 .. k - 1 : frames'[j] = frames[j]
    BY <1>2, <1>5
  <2>2. CASE k = n + 1
    <3>1. frames'[k] = f /\ k - 1 = n
      BY <1>2, <1>5, <2>2
    <3>2. f.prev_hook = IF k = 1 THEN None ELSE frames'[k - 1].runner
      <4>1. CASE n = 0
        BY <1>2, <1>4, <2>2, <4>1
      <4>2. CASE n # 0
        <5>1. n \in 1 .. n /\ k # 1
          BY <1>2, <2>2, <4>2
        <5> QED BY <1>2, <1>4, <1>5, <3>1, <4>2, <5>1
      <4> QED BY <4>1, <4>2
    <3>3. s \in Scheds => Top(frames', Scheds, n, f.prev)
      BY <1>2, <1>4, <1>5, TopSame
    <3>4. s \in Reactors => Top(frames', Reactors, n, f.prev)
      BY <1>2, <1>4, <1>5, TopSame, ConstantsAssumption
    <3> QED BY <1>4, <3>1, <3>2, <3>3, <3>4
  <2>3. CASE k # n + 1
    <3>1. k \in 1 .. n /\ k - 1 \in Nat /\ (k # 1 => k - 1 \in 1 .. n)
      BY <1>2, <2>3
    <3>2. frames'[k] = frames[k] /\ (k # 1 => frames'[k - 1] = frames[k - 1])
      BY <1>5, <3>1
    <3>3. /\ frames[k].prev_hook = IF k = 1 THEN None ELSE frames[k - 1].runner
          /\ frames[k].runner \in Scheds => Top(frames, Scheds, k - 1, frames[k].prev)
          /\ frames[k].runner \in Reactors => Top(frames, Reactors, k - 1, frames[k].prev)
      BY <3>1 DEF ChainInv
    <3> QED BY <2>1, <3>1, <3>2, <3>3, TopSame
  <2> QED BY <2>2, <2>3
<1>8. frames'[n + 1].runner = s /\ s \in Scheds \cup Reactors /\ Scheds \cap Reactors = {}
  BY <1>4, <1>5, ConstantsAssumption DEF Runners
<1>9. Top(frames', Scheds, n + 1, s_current_sched')
  <2>1. Top(frames', Scheds, n, s_current_sched)
    BY <1>2, <1>5, TopSame
  <2> QED BY <1>1, <1>2, <1>8, <2>1, TopPushed
<1>10. Top(frames', Reactors, n + 1, g_reactor')
  <2>1. Top(frames', Reactors, n, g_reactor)
    BY <1>2, <1>5, TopSame
  <2> QED BY <1>1, <1>2, <1>8, <2>1, TopPushed
<1> QED BY <1>1, <1>5, <1>6, <1>7, <1>9, <1>10 DEF ChainInv

(* A run returns or fails: what it saved is what is innermost below it. *)
LEMMA ChainReturn ==
    ASSUME ChainInv, pc = "loop", Return
    PROVE  ChainInv'
<1> DEFINE n == Len(frames)
           f == frames[n]
<1>1. /\ frames' = Front(frames) /\ pc' = "code" /\ s_return_hook' = Last(frames).prev_hook
      /\ s_current_sched' = IF Innermost \in Scheds THEN Last(frames).prev ELSE s_current_sched
      /\ g_reactor' = IF Innermost \in Reactors THEN Last(frames).prev ELSE g_reactor
  BY DEF Return, Restore
<1>2. frames \in Seq(Frame) /\ frames # <<>>
  BY DEF ChainInv
<1>3. /\ frames' \in Seq(Frame) /\ n \in Nat \ {0} /\ Len(frames') = n - 1
      /\ \A k \in 1 .. n - 1 : frames'[k] = frames[k]
      /\ Last(frames) = f /\ f \in Frame
      /\ n = 1 => frames' = <<>>
      /\ n # 1 => frames' # <<>> /\ Last(frames') = frames[n - 1]
  <2> HIDE DEF n, f
  <2> QED BY <1>1, <1>2, PopFrame DEF n, f
<1>4. n \in 1 .. n /\ n - 1 \in Nat /\ (n - 1) + 1 = n
  BY <1>3
<1>5. /\ f.prev_hook = IF n = 1 THEN None ELSE frames[n - 1].runner
      /\ f.runner \in Scheds => Top(frames, Scheds, n - 1, f.prev)
      /\ f.runner \in Reactors => Top(frames, Reactors, n - 1, f.prev)
      /\ Top(frames, Scheds, n, s_current_sched) /\ Top(frames, Reactors, n, g_reactor)
  BY <1>4 DEF ChainInv
<1>6. Innermost = f.runner /\ Innermost \in Runners
  BY <1>2, <1>3 DEF Innermost, Frame
<1>7. s_return_hook' = Innermost'
  BY <1>1, <1>3, <1>5 DEF Innermost
<1> HIDE DEF f
<1>8. ASSUME NEW k \in 1 .. n - 1
      PROVE  /\ frames'[k].prev_hook = IF k = 1 THEN None ELSE frames'[k - 1].runner
             /\ frames'[k].runner \in Scheds => Top(frames', Scheds, k - 1, frames'[k].prev)
             /\ frames'[k].runner \in Reactors => Top(frames', Reactors, k - 1, frames'[k].prev)
  <2>1. k \in 1 .. n /\ k - 1 \in Nat /\ (k # 1 => k - 1 \in 1 .. n - 1)
    BY <1>3
  <2>2. \A j \in 1 .. k - 1 : frames'[j] = frames[j]
    BY <1>3
  <2>3. frames'[k] = frames[k] /\ (k # 1 => frames'[k - 1] = frames[k - 1])
    BY <1>3, <2>1
  <2>4. /\ frames[k].prev_hook = IF k = 1 THEN None ELSE frames[k - 1].runner
        /\ frames[k].runner \in Scheds => Top(frames, Scheds, k - 1, frames[k].prev)
        /\ frames[k].runner \in Reactors => Top(frames, Reactors, k - 1, frames[k].prev)
    BY <2>1 DEF ChainInv
  <2> QED BY <2>1, <2>2, <2>3, <2>4, TopSame
<1>9. f.runner = frames[(n - 1) + 1].runner
  BY <1>4 DEF f
<1>10. Top(frames', Scheds, n - 1, s_current_sched')
  <2>1. Top(frames, Scheds, n - 1, s_current_sched')
    <3>1. CASE f.runner \in Scheds
      BY <1>1, <1>3, <1>5, <1>6, <3>1
    <3>2. CASE f.runner \notin Scheds
      <4>1. s_current_sched' = s_current_sched /\ Top(frames, Scheds, (n - 1) + 1, s_current_sched)
        BY <1>1, <1>4, <1>5, <1>6, <3>2
      <4> QED BY <1>4, <1>9, <3>2, <4>1, TopPushed
    <3> QED BY <3>1, <3>2
  <2> QED BY <1>3, <1>4, <2>1, TopSame
<1>11. Top(frames', Reactors, n - 1, g_reactor')
  <2>1. Top(frames, Reactors, n - 1, g_reactor')
    <3>1. CASE f.runner \in Reactors
      BY <1>1, <1>3, <1>5, <1>6, <3>1
    <3>2. CASE f.runner \notin Reactors
      <4>1. g_reactor' = g_reactor /\ Top(frames, Reactors, (n - 1) + 1, g_reactor)
        BY <1>1, <1>4, <1>5, <1>6, <3>2
      <4> QED BY <1>4, <1>9, <3>2, <4>1, TopPushed
    <3> QED BY <3>1, <3>2
  <2> QED BY <1>3, <1>4, <2>1, TopSame
<1> QED BY <1>1, <1>3, <1>7, <1>8, <1>10, <1>11 DEF ChainInv

(* No operation breaks the chain. *)
LEMMA ChainNext == ChainInv /\ [Next]_vars => ChainInv'
<1> SUFFICES ASSUME ChainInv, [Next]_vars PROVE ChainInv'
  OBVIOUS
<1>1. ASSUME NEW s \in Runners, Run(s) PROVE ChainInv'
  BY <1>1, ChainRun
<1>2. ASSUME NEW s \in Runners, RunnerInit(s) \/ RunnerDestroy(s) \/ (\E t \in Tasks : Spawn(s, t))
      PROVE  ChainInv'
  BY <1>2, ChainSame DEF RunnerInit, RunnerDestroy, Spawn
<1>3. CASE Yield \/ EvYield \/ EvPark \/ Finish
  <2>1. frames # <<>> /\ pc' = "loop" /\ UNCHANGED <<threadVars, frames>>
    BY <1>3, ConstantsAssumption DEF Yield, EvYield, EvPark, Finish, Leave, Innermost, Runners
  <2> QED BY <2>1, ChainSame
<1>4. CASE Dispatch \/ Resume
  <2>1. UNCHANGED <<threadVars, frames>> /\ (pc' = "code" \/ pc' = pc)
    BY <1>4 DEF Dispatch, Resume
  <2> QED BY <2>1, ChainSame DEF ChainInv
<1>5. CASE RunReturns \/ RunFails
  BY <1>5, ChainReturn DEF RunReturns, RunFails
<1>6. CASE UNCHANGED vars
  BY <1>6, ChainSame DEF vars, ChainInv
<1> QED BY <1>1, <1>2, <1>3, <1>4, <1>5, <1>6 DEF Next, Loop

(* The chain holds in every state. *)
LEMMA Chain == Spec => []ChainInv
<1>1. Init => ChainInv
  <2> SUFFICES ASSUME Init PROVE ChainInv
    OBVIOUS
  <2>1. frames = <<>> /\ frames \in Seq(Frame) /\ Len(frames) = 0
    BY DEF Init
  <2> QED BY <2>1 DEF Init, ChainInv, Innermost, Top
<1> QED BY <1>1, ChainNext, PTL DEF Spec

(* In every fiber, however deep the nesting, whatever runs it has started   *)
(* and however they ended (also runs of a runner that already runs further  *)
(* out), the return hook that cfiber_epilogue calls and the runner that     *)
(* cfiber_yield and the in-fiber API of reactors use are the innermost.     *)
THEOREM InnermostRunnerIsCurrent == Spec => []InnermostIsCurrent
<1>1. ChainInv => InnermostIsCurrent
  <2>1. None \notin Scheds /\ None \notin Reactors
    BY ConstantsAssumption DEF Runners
  <2> QED BY <2>1, TopIsInnermostOf DEF ChainInv, InnermostIsCurrent
<1> QED BY <1>1, Chain, PTL

-----------------------------------------------------------------------------
(* The books of one runner *)

(* rd is its ready queue, pk its parked fibers, cu the current one and zo   *)
(* the zombie, ts the tasks taken from the pool, ac active_count: a task is *)
(* in one place, and the count is that of the live ones.                    *)
Books(rd, pk, cu, zo, ts, ac) ==
    /\ rd \in Seq(Tasks) /\ pk \subseteq Tasks /\ IsFiniteSet(pk) /\ ts \subseteq Tasks
    /\ cu \in Tasks \cup {NoTask} /\ zo \in Tasks \cup {NoTask}
    /\ \A i, j \in 1 .. Len(rd) : rd[i] = rd[j] => i = j
    /\ \A i \in 1 .. Len(rd) : rd[i] \notin pk /\ rd[i] # cu /\ rd[i] # zo
    /\ cu \notin pk /\ zo \notin pk /\ (cu = zo => cu = NoTask)
    /\ \A t \in Tasks : t \in ts <=> \/ \E i \in 1 .. Len(rd) : rd[i] = t
                                     \/ t \in pk \/ t = cu \/ t = zo
    /\ ac = Len(rd) + Cardinality(pk) + (IF cu = NoTask THEN 0 ELSE 1)

(* A runner that was just created *)
LEMMA BooksEmpty == Books(<<>>, {}, NoTask, NoTask, {}, 0)
<1>1. IsFiniteSet({}) /\ Cardinality({}) = 0
  BY FS_EmptySet
<1>2. <<>> \in Seq(Tasks) /\ Len(<<>>) = 0
  OBVIOUS
<1> QED BY <1>1, <1>2, ConstantsAssumption DEF Books

(* active_count is a natural number. *)
LEMMA BooksCount ==
    ASSUME NEW rd, NEW pk, NEW cu, NEW zo, NEW ts, NEW ac, Books(rd, pk, cu, zo, ts, ac)
    PROVE  ac \in Nat /\ Cardinality(pk) \in Nat /\ (cu # NoTask => ac - 1 \in Nat)
<1>1. Cardinality(pk) \in Nat /\ Len(rd) \in Nat
  BY FS_CardinalityType DEF Books
<1> QED BY <1>1 DEF Books

(* What appending an element of its own to an injective sequence gives *)
LEMMA AppendOnce ==
    ASSUME NEW rd \in Seq(Tasks), NEW t \in Tasks, NEW qd, qd = Append(rd, t),
           \A i, j \in 1 .. Len(rd) : rd[i] = rd[j] => i = j,
           \A i \in 1 .. Len(rd) : rd[i] # t
    PROVE  /\ qd \in Seq(Tasks) /\ Len(rd) \in Nat /\ Len(qd) = Len(rd) + 1
           /\ \A i, j \in 1 .. Len(qd) : qd[i] = qd[j] => i = j
           /\ \A u : (\E i \in 1 .. Len(qd) : qd[i] = u) <=> (u = t \/ \E i \in 1 .. Len(rd) : rd[i] = u)
<1>1. qd \in Seq(Tasks) /\ Len(rd) \in Nat /\ Len(qd) = Len(rd) + 1
  OBVIOUS
<1>2. \A i \in 1 .. Len(rd) : qd[i] = rd[i] /\ i \in 1 .. Len(qd)
  BY <1>1
<1>3. qd[Len(rd) + 1] = t /\ Len(rd) + 1 \in 1 .. Len(qd)
  BY <1>1
<1>4. \A i \in 1 .. Len(qd) : i \in 1 .. Len(rd) \/ i = Len(rd) + 1
  BY <1>1
<1>5. \A i, j \in 1 .. Len(qd) : qd[i] = qd[j] => i = j
  BY <1>2, <1>3, <1>4
<1>6. ASSUME NEW u PROVE (\E i \in 1 .. Len(qd) : qd[i] = u) <=> (u = t \/ \E i \in 1 .. Len(rd) : rd[i] = u)
  BY <1>2, <1>3, <1>4
<1> QED BY <1>1, <1>5, <1>6

(* What taking the head of a queue without repetitions leaves *)
LEMMA TailOnce ==
    ASSUME NEW rd \in Seq(Tasks), rd # <<>>, NEW qd, qd = Tail(rd), NEW h, h = Head(rd),
           \A i, j \in 1 .. Len(rd) : rd[i] = rd[j] => i = j
    PROVE  /\ qd \in Seq(Tasks) /\ Len(rd) \in Nat \ {0} /\ Len(qd) = Len(rd) - 1 /\ h \in Tasks
           /\ \A i, j \in 1 .. Len(qd) : qd[i] = qd[j] => i = j
           /\ \A i \in 1 .. Len(qd) : qd[i] # h
           /\ \A u : (\E i \in 1 .. Len(rd) : rd[i] = u) <=> (u = h \/ \E i \in 1 .. Len(qd) : qd[i] = u)
<1>1. /\ qd \in Seq(Tasks) /\ Len(rd) \in Nat \ {0} /\ Len(qd) = Len(rd) - 1
      /\ h = rd[1] /\ h \in Tasks /\ 1 \in 1 .. Len(rd)
  OBVIOUS
<1>2. \A i \in 1 .. Len(qd) : qd[i] = rd[i + 1] /\ i + 1 \in 1 .. Len(rd) /\ i + 1 # 1
  BY <1>1
<1>3. \A i \in 1 .. Len(rd) : i = 1 \/ (i - 1 \in 1 .. Len(qd) /\ qd[i - 1] = rd[i])
  BY <1>1, <1>2
<1>4. \A i, j \in 1 .. Len(qd) : qd[i] = qd[j] => i = j
  <2> TAKE i, j \in 1 .. Len(qd)
  <2> HAVE qd[i] = qd[j]
  <2>1. i + 1 = j + 1
    BY <1>2
  <2> QED BY <2>1
<1>5. \A i \in 1 .. Len(qd) : qd[i] # h
  BY <1>1, <1>2
<1>6. ASSUME NEW u PROVE (\E i \in 1 .. Len(rd) : rd[i] = u) <=> (u = h \/ \E i \in 1 .. Len(qd) : qd[i] = u)
  <2>1. ASSUME NEW i \in 1 .. Len(rd), rd[i] = u PROVE u = h \/ \E j \in 1 .. Len(qd) : qd[j] = u
    <3>1. CASE i = 1
      BY <1>1, <2>1, <3>1
    <3>2. CASE i # 1
      <4>1. i - 1 \in 1 .. Len(qd) /\ qd[i - 1] = u
        BY <1>3, <2>1, <3>2
      <4> QED BY <4>1
    <3> QED BY <3>1, <3>2
  <2>2. ASSUME NEW i \in 1 .. Len(qd), qd[i] = u PROVE \E j \in 1 .. Len(rd) : rd[j] = u
    <3>1. i + 1 \in 1 .. Len(rd) /\ rd[i + 1] = u
      BY <1>2, <2>2
    <3> QED BY <3>1
  <2> QED BY <1>1, <2>1, <2>2
<1> QED BY <1>1, <1>4, <1>5, <1>6

(* A fiber is spawned. *)
LEMMA BooksSpawn ==
    ASSUME NEW rd, NEW pk, NEW cu, NEW zo, NEW ts, NEW ac, Books(rd, pk, cu, zo, ts, ac),
           NEW t \in Tasks, t \notin ts
    PROVE  Books(Append(rd, t), pk, cu, zo, ts \cup {t}, ac + 1)
<1> DEFINE qd == Append(rd, t)
<1>1. \A i \in 1 .. Len(rd) : rd[i] # t
  BY DEF Books
<1>2. t \notin pk /\ t # cu /\ t # zo
  BY DEF Books
<1>3. /\ qd \in Seq(Tasks) /\ Len(rd) \in Nat /\ Len(qd) = Len(rd) + 1
      /\ \A i, j \in 1 .. Len(qd) : qd[i] = qd[j] => i = j
      /\ \A u : (\E i \in 1 .. Len(qd) : qd[i] = u) <=> (u = t \/ \E i \in 1 .. Len(rd) : rd[i] = u)
  BY <1>1, AppendOnce DEF Books
<1> HIDE DEF qd
<1>4. \A i \in 1 .. Len(qd) : qd[i] \notin pk /\ qd[i] # cu /\ qd[i] # zo
  BY <1>2, <1>3 DEF Books
<1>5. \A u \in Tasks : u \in ts \cup {t} <=> \/ \E i \in 1 .. Len(qd) : qd[i] = u
                                             \/ u \in pk \/ u = cu \/ u = zo
  BY <1>3 DEF Books
<1>6. ac + 1 = Len(qd) + Cardinality(pk) + (IF cu = NoTask THEN 0 ELSE 1)
  <2>1. Cardinality(pk) \in Nat
    BY BooksCount
  <2>2. ac = Len(rd) + Cardinality(pk) + (IF cu = NoTask THEN 0 ELSE 1)
    BY DEF Books
  <2> QED BY <1>3, <2>1, <2>2
<1>7. Books(qd, pk, cu, zo, ts \cup {t}, ac + 1)
  BY <1>3, <1>4, <1>5, <1>6 DEF Books
<1> QED BY <1>7 DEF qd

(* The current fiber yields. *)
LEMMA BooksYield ==
    ASSUME NEW rd, NEW pk, NEW cu, NEW zo, NEW ts, NEW ac, Books(rd, pk, cu, zo, ts, ac), cu # NoTask
    PROVE  Books(Append(rd, cu), pk, NoTask, zo, ts, ac) /\ cu \in Tasks
<1> DEFINE qd == Append(rd, cu)
<1>1. cu \in Tasks /\ \A i \in 1 .. Len(rd) : rd[i] # cu
  BY DEF Books
<1>2. cu \notin pk /\ cu # zo /\ NoTask \notin Tasks
  BY ConstantsAssumption DEF Books
<1>3. /\ qd \in Seq(Tasks) /\ Len(rd) \in Nat /\ Len(qd) = Len(rd) + 1
      /\ \A i, j \in 1 .. Len(qd) : qd[i] = qd[j] => i = j
      /\ \A u : (\E i \in 1 .. Len(qd) : qd[i] = u) <=> (u = cu \/ \E i \in 1 .. Len(rd) : rd[i] = u)
  BY <1>1, AppendOnce DEF Books
<1> HIDE DEF qd
<1>4. \A i \in 1 .. Len(qd) : qd[i] \notin pk /\ qd[i] # NoTask /\ qd[i] # zo
  <2>1. \A i \in 1 .. Len(qd) : qd[i] \in Tasks
    BY <1>3
  <2> QED BY <1>2, <1>3, <2>1 DEF Books
<1>5. \A u \in Tasks : u \in ts <=> \/ \E i \in 1 .. Len(qd) : qd[i] = u
                                    \/ u \in pk \/ u = NoTask \/ u = zo
  BY <1>2, <1>3 DEF Books
<1>6. ac = Len(qd) + Cardinality(pk) + 0
  <2>1. Cardinality(pk) \in Nat
    BY BooksCount
  <2>2. ac = Len(rd) + Cardinality(pk) + 1
    BY DEF Books
  <2> QED BY <1>3, <2>1, <2>2
<1>7. NoTask \notin pk /\ pk \subseteq Tasks
  BY <1>2 DEF Books
<1>8. Books(qd, pk, NoTask, zo, ts, ac)
  BY <1>3, <1>4, <1>5, <1>6, <1>7 DEF Books
<1> QED BY <1>1, <1>8 DEF qd

(* The current fiber parks. *)
LEMMA BooksPark ==
    ASSUME NEW rd, NEW pk, NEW cu, NEW zo, NEW ts, NEW ac, Books(rd, pk, cu, zo, ts, ac), cu # NoTask
    PROVE  Books(rd, pk \cup {cu}, NoTask, zo, ts, ac)
<1>1. cu \in Tasks /\ cu \notin pk /\ cu # zo /\ NoTask \notin Tasks /\ IsFiniteSet(pk)
  BY ConstantsAssumption DEF Books
<1>2. IsFiniteSet(pk \cup {cu}) /\ Cardinality(pk \cup {cu}) = Cardinality(pk) + 1
  BY <1>1, FS_AddElement
<1>3. ac = Len(rd) + Cardinality(pk \cup {cu}) + 0
  <2>1. Cardinality(pk) \in Nat
    BY BooksCount
  <2>2. ac = Len(rd) + Cardinality(pk) + 1 /\ Len(rd) \in Nat
    BY DEF Books
  <2> QED BY <1>2, <2>1, <2>2
<1>4. \A i \in 1 .. Len(rd) : rd[i] \in Tasks
  BY DEF Books
<1> QED BY <1>1, <1>2, <1>3, <1>4 DEF Books

(* The current fiber's function returns. *)
LEMMA BooksFinish ==
    ASSUME NEW rd, NEW pk, NEW cu, NEW ts, NEW ac, Books(rd, pk, cu, NoTask, ts, ac), cu # NoTask
    PROVE  Books(rd, pk, NoTask, cu, ts, ac - 1)
<1>1. cu \in Tasks /\ cu \notin pk /\ NoTask \notin Tasks /\ pk \subseteq Tasks
  BY ConstantsAssumption DEF Books
<1>2. ac - 1 = Len(rd) + Cardinality(pk) + 0
  <2>1. Cardinality(pk) \in Nat
    BY BooksCount
  <2>2. ac = Len(rd) + Cardinality(pk) + 1 /\ Len(rd) \in Nat
    BY DEF Books
  <2> QED BY <2>1, <2>2
<1>3. \A i \in 1 .. Len(rd) : rd[i] \in Tasks
  BY DEF Books
<1> QED BY <1>1, <1>2, <1>3 DEF Books

(* The loop frees the zombie. *)
LEMMA BooksFree ==
    ASSUME NEW rd, NEW pk, NEW cu, NEW zo, NEW ts, NEW ac, Books(rd, pk, cu, zo, ts, ac)
    PROVE  Books(rd, pk, cu, NoTask, ts \ {zo}, ac)
<1>1. NoTask \notin Tasks /\ NoTask \notin pk /\ \A i \in 1 .. Len(rd) : rd[i] \in Tasks
  BY ConstantsAssumption DEF Books
<1>2. \A t \in Tasks : t \in ts \ {zo} <=> \/ \E i \in 1 .. Len(rd) : rd[i] = t
                                           \/ t \in pk \/ t = cu \/ t = NoTask
  BY <1>1 DEF Books
<1> QED BY <1>1, <1>2 DEF Books

(* The loop dispatches the first ready fiber. *)
LEMMA BooksDispatch ==
    ASSUME NEW rd, NEW pk, NEW zo, NEW ts, NEW ac, Books(rd, pk, NoTask, zo, ts, ac), rd # <<>>
    PROVE  Books(Tail(rd), pk, Head(rd), zo, ts, ac) /\ Head(rd) \in Tasks
<1> DEFINE qd == Tail(rd)
           h == Head(rd)
<1>1. /\ qd \in Seq(Tasks) /\ Len(rd) \in Nat \ {0} /\ Len(qd) = Len(rd) - 1 /\ h \in Tasks
      /\ \A i, j \in 1 .. Len(qd) : qd[i] = qd[j] => i = j
      /\ \A i \in 1 .. Len(qd) : qd[i] # h
      /\ \A u : (\E i \in 1 .. Len(rd) : rd[i] = u) <=> (u = h \/ \E i \in 1 .. Len(qd) : qd[i] = u)
  <2>1. rd \in Seq(Tasks) /\ \A i, j \in 1 .. Len(rd) : rd[i] = rd[j] => i = j
    BY DEF Books
  <2> HIDE DEF qd, h
  <2> QED BY <2>1, TailOnce DEF qd, h
<1> HIDE DEF qd, h
<1>2. NoTask \notin Tasks /\ h # NoTask
  BY <1>1, ConstantsAssumption
<1>3. \A u : (u = h \/ \E i \in 1 .. Len(qd) : qd[i] = u) => u \notin pk /\ u # zo
  <2>1. \A u : (\E i \in 1 .. Len(rd) : rd[i] = u) => u \notin pk /\ u # zo
    BY DEF Books
  <2> QED BY <1>1, <2>1
<1>4. \A i \in 1 .. Len(qd) : qd[i] \notin pk /\ qd[i] # h /\ qd[i] # zo
  BY <1>1, <1>3
<1>5. \A u \in Tasks : u \in ts <=> \/ \E i \in 1 .. Len(qd) : qd[i] = u
                                    \/ u \in pk \/ u = h \/ u = zo
  BY <1>1, <1>2 DEF Books
<1>6. ac = Len(qd) + Cardinality(pk) + 1
  <2>1. Cardinality(pk) \in Nat
    BY BooksCount
  <2>2. ac = Len(rd) + Cardinality(pk) + 0
    BY DEF Books
  <2> QED BY <1>1, <2>1, <2>2
<1>7. Books(qd, pk, h, zo, ts, ac)
  BY <1>1, <1>2, <1>3, <1>4, <1>5, <1>6 DEF Books
<1> QED BY <1>1, <1>7 DEF qd, h

(* The wait of a parked fiber ends. *)
LEMMA BooksResume ==
    ASSUME NEW rd, NEW pk, NEW cu, NEW zo, NEW ts, NEW ac, Books(rd, pk, cu, zo, ts, ac), NEW t \in pk
    PROVE  Books(Append(rd, t), pk \ {t}, cu, zo, ts, ac)
<1> DEFINE qd == Append(rd, t)
<1>1. t \in Tasks /\ t # cu /\ t # zo /\ \A i \in 1 .. Len(rd) : rd[i] # t
  BY DEF Books
<1>2. /\ qd \in Seq(Tasks) /\ Len(rd) \in Nat /\ Len(qd) = Len(rd) + 1
      /\ \A i, j \in 1 .. Len(qd) : qd[i] = qd[j] => i = j
      /\ \A u : (\E i \in 1 .. Len(qd) : qd[i] = u) <=> (u = t \/ \E i \in 1 .. Len(rd) : rd[i] = u)
  BY <1>1, AppendOnce DEF Books
<1> HIDE DEF qd
<1>3. IsFiniteSet(pk \ {t}) /\ Cardinality(pk \ {t}) = Cardinality(pk) - 1
  BY FS_RemoveElement DEF Books
<1>4. \A i \in 1 .. Len(qd) : qd[i] \notin pk \ {t} /\ qd[i] # cu /\ qd[i] # zo
  BY <1>1, <1>2 DEF Books
<1>5. \A u \in Tasks : u \in ts <=> \/ \E i \in 1 .. Len(qd) : qd[i] = u
                                    \/ u \in pk \ {t} \/ u = cu \/ u = zo
  BY <1>1, <1>2 DEF Books
<1>6. ac = Len(qd) + Cardinality(pk \ {t}) + (IF cu = NoTask THEN 0 ELSE 1)
  <2>1. Cardinality(pk) \in Nat
    BY BooksCount
  <2>2. ac = Len(rd) + Cardinality(pk) + (IF cu = NoTask THEN 0 ELSE 1)
    BY DEF Books
  <2> QED BY <1>2, <1>3, <2>1, <2>2
<1>7. Books(qd, pk \ {t}, cu, zo, ts, ac)
  BY <1>2, <1>3, <1>4, <1>5, <1>6 DEF Books
<1> QED BY <1>7 DEF qd

-----------------------------------------------------------------------------
(* The invariant, when no runner runs inside itself *)

(* The books of all runners *)
RunnerBooks ==
    \A s \in Runners : Books(ready[s], parked[s], current[s], zombie[s], tasks[s], active_count[s])

(* No runner is twice among the runs in progress; exactly those whose loop  *)
(* does not execute have a current fiber; a zombie is there only from the   *)
(* fiber's end to the loop's next step; and only a reactor's fibers park.   *)
NestInv ==
    /\ \A j, k \in 1 .. Len(frames) : frames[j].runner = frames[k].runner => j = k
    /\ \A s \in Runners : current[s] # NoTask <=> InProgress(s) /\ (pc = "code" \/ s # Innermost)
    /\ \A s \in Runners : zombie[s] # NoTask => pc = "loop" /\ s = Innermost
    /\ \A s \in Scheds : parked[s] = {}

(* The inductive invariant *)
IInv == TypeOK /\ ChainInv /\ RunnerBooks /\ NestInv

(* What the innermost run is *)
LEMMA InnermostRuns ==
    ASSUME ChainInv
    PROVE  /\ frames # <<>> => Innermost \in Runners /\ InProgress(Innermost)
           /\ Innermost \in Runners => frames # <<>>
           /\ Innermost \in Scheds => s_current_sched = Innermost
           /\ Innermost \in Reactors => g_reactor = Innermost
           /\ s_return_hook = Innermost
           /\ s_current_sched \in Scheds \cup {None} /\ g_reactor \in Reactors \cup {None}
<1>1. frames \in Seq(Frame) /\ Len(frames) \in Nat /\ None \notin Runners
  BY ConstantsAssumption DEF ChainInv
<1>2. /\ Top(frames, Scheds, Len(frames), s_current_sched)
      /\ Top(frames, Reactors, Len(frames), g_reactor) /\ s_return_hook = Innermost
  BY DEF ChainInv
<1>3. s_current_sched \in Scheds \cup {None} /\ g_reactor \in Reactors \cup {None}
  BY <1>2 DEF Top
<1>4. frames = <<>> => Innermost = None
  BY DEF Innermost
<1>5. ASSUME frames # <<>>
      PROVE  /\ Innermost \in Runners /\ InProgress(Innermost)
             /\ Innermost \in Scheds => s_current_sched = Innermost
             /\ Innermost \in Reactors => g_reactor = Innermost
  <2> DEFINE m == Len(frames) - 1
  <2>1. Len(frames) \in 1 .. Len(frames) /\ m \in Nat /\ m + 1 = Len(frames)
    BY <1>1, <1>5
  <2>2. Innermost = frames[Len(frames)].runner
    BY <1>5 DEF Innermost, Last
  <2>3. frames[Len(frames)] \in Frame
    BY <1>1, <2>1
  <2>4. Innermost \in Runners /\ InProgress(Innermost)
    BY <1>1, <2>1, <2>2, <2>3 DEF Frame, InProgress
  <2> HIDE DEF m
  <2>5. None \notin Scheds /\ None \notin Reactors
    BY <1>1 DEF Runners
  <2>6. Innermost \in Scheds => Top(frames, Scheds, Len(frames), Innermost)
    BY <2>1, <2>2, TopPushed
  <2>7. Innermost \in Reactors => Top(frames, Reactors, Len(frames), Innermost)
    BY <2>1, <2>2, TopPushed
  <2> QED BY <1>1, <1>2, <2>4, <2>5, <2>6, <2>7, TopUnique
<1>6. Innermost \in Runners => frames # <<>>
  BY <1>1, <1>4
<1>7. Innermost \in Scheds \cup Reactors => frames # <<>>
  BY <1>6 DEF Runners
<1> QED BY <1>2, <1>3, <1>5, <1>6, <1>7

(* One runner's books change, the others' do not. *)
LEMMA BooksOfOne ==
    ASSUME RunnerBooks, NEW s \in Runners,
           Books(ready[s], parked[s], current[s], zombie[s], tasks[s], active_count[s])',
           \A r \in Runners : r # s =>
               /\ ready'[r] = ready[r] /\ parked'[r] = parked[r] /\ current'[r] = current[r]
               /\ zombie'[r] = zombie[r] /\ tasks'[r] = tasks[r] /\ active_count'[r] = active_count[r]
    PROVE  RunnerBooks'
<1> SUFFICES ASSUME NEW r \in Runners
             PROVE  Books(ready[r], parked[r], current[r], zombie[r], tasks[r], active_count[r])'
  BY DEF RunnerBooks
<1>1. CASE r = s
  BY <1>1
<1>2. CASE r # s
  <2>1. Books(ready[r], parked[r], current[r], zombie[r], tasks[r], active_count[r])
    BY DEF RunnerBooks
  <2> QED BY <1>2, <2>1
<1> QED BY <1>1, <1>2

(* RunnerInit *)
LEMMA InitStep ==
    ASSUME IInv, NEW s \in Runners, RunnerInit(s)
    PROVE  TypeOK' /\ RunnerBooks' /\ NestInv'
<1>1. TypeOK'
  BY DEF IInv, TypeOK, RunnerInit, threadVars
<1>2. RunnerBooks'
  BY DEF IInv, RunnerBooks, RunnerInit
<1>3. NestInv'
  BY DEF IInv, NestInv, RunnerInit, InProgress, Innermost
<1> QED BY <1>1, <1>2, <1>3

(* RunnerDestroy *)
LEMMA DestroyStep ==
    ASSUME IInv, NEW s \in Runners, RunnerDestroy(s)
    PROVE  TypeOK' /\ RunnerBooks' /\ NestInv'
<1>1. /\ pc = "code" /\ ~ InProgress(s) /\ tasks' = [tasks EXCEPT ![s] = {}]
      /\ ready' = [ready EXCEPT ![s] = <<>>] /\ parked' = [parked EXCEPT ![s] = {}]
      /\ active_count' = [active_count EXCEPT ![s] = 0] /\ zombie' = [zombie EXCEPT ![s] = NoTask]
      /\ inited' = [inited EXCEPT ![s] = FALSE] /\ UNCHANGED <<current, threadVars, frames, pc>>
  BY DEF RunnerDestroy
<1>2. TypeOK'
  BY <1>1 DEF IInv, TypeOK, threadVars
<1>3. current[s] = NoTask
  BY <1>1 DEF IInv, NestInv
<1>4. RunnerBooks'
  <2>1. /\ ready'[s] = <<>> /\ parked'[s] = {} /\ current'[s] = NoTask /\ zombie'[s] = NoTask
        /\ tasks'[s] = {} /\ active_count'[s] = 0
    BY <1>1, <1>3 DEF IInv, TypeOK
  <2>2. Books(ready[s], parked[s], current[s], zombie[s], tasks[s], active_count[s])'
    BY <2>1, BooksEmpty
  <2>3. \A r \in Runners : r # s =>
               /\ ready'[r] = ready[r] /\ parked'[r] = parked[r] /\ current'[r] = current[r]
               /\ zombie'[r] = zombie[r] /\ tasks'[r] = tasks[r] /\ active_count'[r] = active_count[r]
    BY <1>1 DEF IInv, TypeOK
  <2> QED BY <2>2, <2>3, BooksOfOne DEF IInv
<1>5. NestInv'
  BY <1>1 DEF IInv, TypeOK, NestInv, InProgress, Innermost, Runners
<1> QED BY <1>2, <1>4, <1>5

(* Spawn *)
LEMMA SpawnStep ==
    ASSUME IInv, NEW s \in Runners, NEW t \in Tasks, Spawn(s, t)
    PROVE  TypeOK' /\ RunnerBooks' /\ NestInv'
<1>1. /\ t \notin tasks[s] /\ tasks' = [tasks EXCEPT ![s] = @ \cup {t}]
      /\ ready' = [ready EXCEPT ![s] = Append(@, t)]
      /\ active_count' = [active_count EXCEPT ![s] = @ + 1]
      /\ UNCHANGED <<inited, current, zombie, parked, threadVars, frames, pc>>
  BY DEF Spawn, EnqueueReady
<1>2. TypeOK'
  BY <1>1 DEF IInv, TypeOK, threadVars
<1>3. RunnerBooks'
  <2>1. /\ ready'[s] = Append(ready[s], t) /\ parked'[s] = parked[s] /\ current'[s] = current[s]
        /\ zombie'[s] = zombie[s] /\ tasks'[s] = tasks[s] \cup {t}
        /\ active_count'[s] = active_count[s] + 1
    BY <1>1 DEF IInv, TypeOK
  <2>2. Books(ready[s], parked[s], current[s], zombie[s], tasks[s], active_count[s])
    BY DEF IInv, RunnerBooks
  <2>3. Books(ready[s], parked[s], current[s], zombie[s], tasks[s], active_count[s])'
    BY <1>1, <2>1, <2>2, BooksSpawn
  <2>4. \A r \in Runners : r # s =>
               /\ ready'[r] = ready[r] /\ parked'[r] = parked[r] /\ current'[r] = current[r]
               /\ zombie'[r] = zombie[r] /\ tasks'[r] = tasks[r] /\ active_count'[r] = active_count[r]
    BY <1>1 DEF IInv, TypeOK
  <2> QED BY <2>3, <2>4, BooksOfOne DEF IInv
<1>4. NestInv'
  BY <1>1 DEF IInv, NestInv, InProgress, Innermost
<1> QED BY <1>2, <1>3, <1>4

(* The fiber of the innermost run leaves for its loop, whatever else it does *)
(* to its runner's queues.                                                  *)
LEMMA NestLeave ==
    ASSUME IInv, NEW s \in Runners, s = Innermost, pc = "code", Leave(s), UNCHANGED frames,
           \A r \in Runners : r # s => zombie'[r] = zombie[r],
           \A r \in Scheds : parked'[r] = {}
    PROVE  NestInv'
<1>1. current' = [current EXCEPT ![s] = NoTask] /\ pc' = "loop" /\ Innermost' = s
  BY DEF Leave, Innermost
<1>2. \A r \in Runners : InProgress(r)' <=> InProgress(r)
  BY DEF InProgress
<1>3. \A r \in Runners : current'[r] # NoTask <=> InProgress(r)' /\ (pc' = "code" \/ r # Innermost')
  BY <1>1, <1>2 DEF IInv, TypeOK, NestInv
<1>4. \A r \in Runners : zombie'[r] # NoTask => pc' = "loop" /\ r = Innermost'
  BY <1>1 DEF IInv, NestInv
<1> QED BY <1>3, <1>4 DEF IInv, NestInv

(* In a fiber: the innermost runner, whose current fiber it is *)
LEMMA InFiber ==
    ASSUME IInv, pc = "code", NEW s \in Runners, s = Innermost
    PROVE  current[s] # NoTask /\ current[s] \in Tasks /\ zombie[s] = NoTask
<1>1. InProgress(s)
  BY InnermostRuns DEF IInv
<1> QED BY <1>1 DEF IInv, NestInv, TypeOK

(* Yield and EvYield *)
LEMMA YieldStep ==
    ASSUME IInv, Yield \/ EvYield
    PROVE  TypeOK' /\ RunnerBooks' /\ NestInv'
<1> DEFINE s == Innermost
<1>1. /\ s \in Runners /\ pc = "code" /\ Leave(s)
      /\ ready' = [ready EXCEPT ![s] = Append(@, current[s])]
      /\ UNCHANGED <<inited, zombie, active_count, parked, tasks, threadVars, frames>>
  <2>1. CASE Yield
    <3>1. s_current_sched = s
      BY <2>1, InnermostRuns DEF IInv, Yield
    <3> QED BY <2>1, <3>1 DEF Yield, EnqueueReady, Runners
  <2>2. CASE EvYield
    <3>1. g_reactor = s
      BY <2>2, InnermostRuns DEF IInv, EvYield
    <3> QED BY <2>2, <3>1 DEF EvYield, EnqueueReady, Runners
  <2> QED BY <2>1, <2>2
<1>2. current[s] # NoTask /\ current[s] \in Tasks
  BY <1>1, InFiber
<1>3. current' = [current EXCEPT ![s] = NoTask] /\ pc' = "loop"
  BY <1>1 DEF Leave
<1> HIDE DEF s
<1>4. TypeOK'
  BY <1>1, <1>2, <1>3 DEF IInv, TypeOK, threadVars
<1>5. RunnerBooks'
  <2>1. /\ ready'[s] = Append(ready[s], current[s]) /\ parked'[s] = parked[s] /\ current'[s] = NoTask
        /\ zombie'[s] = zombie[s] /\ tasks'[s] = tasks[s] /\ active_count'[s] = active_count[s]
    BY <1>1, <1>3 DEF IInv, TypeOK
  <2>2. Books(ready[s], parked[s], current[s], zombie[s], tasks[s], active_count[s])
    BY <1>1 DEF IInv, RunnerBooks
  <2>3. PICK r \in Runners : r = s
    BY <1>1
  <2>4. Books(ready[r], parked[r], current[r], zombie[r], tasks[r], active_count[r])'
    BY <1>2, <2>1, <2>2, <2>3, BooksYield
  <2>5. \A q \in Runners : q # r =>
               /\ ready'[q] = ready[q] /\ parked'[q] = parked[q] /\ current'[q] = current[q]
               /\ zombie'[q] = zombie[q] /\ tasks'[q] = tasks[q] /\ active_count'[q] = active_count[q]
    BY <1>1, <1>3, <2>3 DEF IInv, TypeOK
  <2> QED BY <2>4, <2>5, BooksOfOne DEF IInv
<1>6. NestInv'
  <2>1. PICK r \in Runners : r = s
    BY <1>1
  <2>2. Leave(r) /\ r = Innermost
    BY <1>1, <1>3, <2>1 DEF Leave, s
  <2>3. \A q \in Scheds : parked'[q] = {}
    BY <1>1 DEF IInv, NestInv
  <2> QED BY <1>1, <2>2, <2>3, NestLeave
<1> QED BY <1>4, <1>5, <1>6

(* EvPark *)
LEMMA ParkStep ==
    ASSUME IInv, EvPark
    PROVE  TypeOK' /\ RunnerBooks' /\ NestInv'
<1>0. PICK s \in Reactors : s = Innermost
  BY DEF EvPark
<1>1. /\ s \in Runners /\ pc = "code" /\ Leave(s)
      /\ parked' = [parked EXCEPT ![s] = @ \cup {current[s]}]
      /\ UNCHANGED <<inited, ready, zombie, active_count, tasks, threadVars, frames>>
  <2>1. g_reactor = s
    BY <1>0, InnermostRuns DEF IInv
  <2> QED BY <1>0, <2>1 DEF EvPark, Runners, Leave
<1>2. current[s] # NoTask /\ current[s] \in Tasks
  BY <1>0, <1>1, InFiber
<1>3. current' = [current EXCEPT ![s] = NoTask] /\ pc' = "loop"
  BY <1>1 DEF Leave
<1>4. TypeOK'
  BY <1>1, <1>2, <1>3 DEF IInv, TypeOK, threadVars
<1>5. RunnerBooks'
  <2>1. /\ ready'[s] = ready[s] /\ parked'[s] = parked[s] \cup {current[s]} /\ current'[s] = NoTask
        /\ zombie'[s] = zombie[s] /\ tasks'[s] = tasks[s] /\ active_count'[s] = active_count[s]
    BY <1>1, <1>3 DEF IInv, TypeOK
  <2>2. Books(ready[s], parked[s], current[s], zombie[s], tasks[s], active_count[s])
    BY <1>1 DEF IInv, RunnerBooks
  <2>3. Books(ready[s], parked[s], current[s], zombie[s], tasks[s], active_count[s])'
    BY <1>2, <2>1, <2>2, BooksPark
  <2>4. \A q \in Runners : q # s =>
               /\ ready'[q] = ready[q] /\ parked'[q] = parked[q] /\ current'[q] = current[q]
               /\ zombie'[q] = zombie[q] /\ tasks'[q] = tasks[q] /\ active_count'[q] = active_count[q]
    BY <1>1, <1>3 DEF IInv, TypeOK
  <2> QED BY <1>1, <2>3, <2>4, BooksOfOne DEF IInv
<1>6. NestInv'
  <2>1. \A q \in Scheds : parked'[q] = {}
    <3>1. s \notin Scheds
      BY ConstantsAssumption
    <3> QED BY <1>1, <3>1 DEF IInv, NestInv, TypeOK, Runners
  <2> QED BY <1>0, <1>1, <2>1, NestLeave
<1> QED BY <1>4, <1>5, <1>6

(* Finish *)
LEMMA FinishStep ==
    ASSUME IInv, Finish
    PROVE  TypeOK' /\ RunnerBooks' /\ NestInv'
<1>0. PICK s \in Runners : s = Innermost
  BY InnermostRuns DEF IInv, Finish
<1>1. /\ pc = "code" /\ Leave(s) /\ zombie' = [zombie EXCEPT ![s] = current[s]]
      /\ active_count' = [active_count EXCEPT ![s] = @ - 1]
      /\ UNCHANGED <<inited, ready, parked, tasks, threadVars, frames>>
  <2>1. s_return_hook = s
    BY <1>0, InnermostRuns DEF IInv
  <2> QED BY <2>1 DEF Finish, Leave
<1>2. current[s] # NoTask /\ current[s] \in Tasks /\ zombie[s] = NoTask
  BY <1>0, <1>1, InFiber
<1>3. current' = [current EXCEPT ![s] = NoTask] /\ pc' = "loop"
  BY <1>1 DEF Leave
<1>4. Books(ready[s], parked[s], current[s], zombie[s], tasks[s], active_count[s])
  BY DEF IInv, RunnerBooks
<1>5. active_count[s] - 1 \in Nat
  BY <1>2, <1>4, BooksCount
<1>6. TypeOK'
  BY <1>1, <1>2, <1>3, <1>5 DEF IInv, TypeOK, threadVars
<1>7. RunnerBooks'
  <2>1. /\ ready'[s] = ready[s] /\ parked'[s] = parked[s] /\ current'[s] = NoTask
        /\ zombie'[s] = current[s] /\ tasks'[s] = tasks[s] /\ active_count'[s] = active_count[s] - 1
    BY <1>1, <1>3 DEF IInv, TypeOK
  <2>2. Books(ready[s], parked[s], current[s], zombie[s], tasks[s], active_count[s])'
    BY <1>2, <1>4, <2>1, BooksFinish
  <2>3. \A q \in Runners : q # s =>
               /\ ready'[q] = ready[q] /\ parked'[q] = parked[q] /\ current'[q] = current[q]
               /\ zombie'[q] = zombie[q] /\ tasks'[q] = tasks[q] /\ active_count'[q] = active_count[q]
    BY <1>1, <1>3 DEF IInv, TypeOK
  <2> QED BY <2>2, <2>3, BooksOfOne DEF IInv
<1>8. NestInv'
  <2>1. \A r \in Runners : r # s => zombie'[r] = zombie[r]
    BY <1>1 DEF IInv, TypeOK
  <2>2. \A r \in Scheds : parked'[r] = {}
    BY <1>1 DEF IInv, NestInv
  <2> QED BY <1>0, <1>1, <2>1, <2>2, NestLeave
<1> QED BY <1>6, <1>7, <1>8

(* Run, of a runner that is not in progress *)
LEMMA RunStep ==
    ASSUME IInv, ChainInv', ~ Reentry, NEW s \in Runners, Run(s)
    PROVE  TypeOK' /\ RunnerBooks' /\ NestInv'
<1> DEFINE n == Len(frames)
<1>1. /\ pc = "code" /\ ~ InProgress(s) /\ pc' = "loop" /\ s_return_hook' = s /\ UNCHANGED runnerVars
  BY DEF Run, Enter
<1>2. PICK f : f.runner = s /\ frames' = Append(frames, f)
  BY DEF Run
<1>3. frames \in Seq(Frame) /\ frames' \in Seq(Frame) /\ n \in Nat
  BY DEF IInv, ChainInv
<1>4. /\ Len(frames') = n + 1 /\ frames'[n + 1] = f /\ \A k \in 1 .. n : frames'[k] = frames[k]
  BY <1>2, <1>3
<1>5. Innermost' = s
  BY <1>1 DEF ChainInv
<1>6. \A r \in Runners : InProgress(r)' <=> InProgress(r) \/ r = s
  <2>1. DOMAIN frames = 1 .. n /\ DOMAIN frames' = 1 .. n + 1
    BY <1>3, <1>4
  <2>2. \A k \in 1 .. n : k \in 1 .. n + 1
    BY <1>3
  <2>3. \A k \in 1 .. n + 1 : k \in 1 .. n \/ k = n + 1
    BY <1>3
  <2>4. n + 1 \in 1 .. n + 1
    BY <1>3
  <2> HIDE DEF n
  <2> QED BY <1>2, <1>4, <2>1, <2>2, <2>3, <2>4 DEF InProgress
<1>7. TypeOK'
  <2>1. s_current_sched' \in Scheds \cup {None} /\ g_reactor' \in Reactors \cup {None}
    BY DEF Run, Enter, IInv, TypeOK
  <2> QED BY <1>1, <1>3, <2>1 DEF IInv, TypeOK, runnerVars, Frame
<1>8. RunnerBooks'
  BY <1>1 DEF IInv, RunnerBooks, runnerVars
<1>9. \A j, k \in 1 .. Len(frames') : frames'[j].runner = frames'[k].runner => j = k
  <2>1. \A j \in 1 .. n : frames[j].runner # s
    BY <1>1, <1>3 DEF InProgress
  <2>2. \A k \in 1 .. n + 1 : k \in 1 .. n \/ k = n + 1
    BY <1>3
  <2>3. \A j, k \in 1 .. n : frames[j].runner = frames[k].runner => j = k
    BY DEF IInv, NestInv
  <2> HIDE DEF n
  <2> QED BY <1>2, <1>4, <2>1, <2>2, <2>3
<1>10. \A r \in Runners : current'[r] # NoTask <=> InProgress(r)' /\ (pc' = "code" \/ r # Innermost')
  BY <1>1, <1>5, <1>6 DEF IInv, NestInv, runnerVars
<1>11. \A r \in Runners : zombie'[r] # NoTask => pc' = "loop" /\ r = Innermost'
  BY <1>1 DEF IInv, NestInv, runnerVars
<1>12. \A r \in Scheds : parked'[r] = {}
  BY <1>1 DEF IInv, NestInv, runnerVars
<1> QED BY <1>7, <1>8, <1>9, <1>10, <1>11, <1>12 DEF NestInv

(* Dispatch *)
LEMMA DispatchStep ==
    ASSUME IInv, Dispatch
    PROVE  TypeOK' /\ RunnerBooks' /\ NestInv'
<1>0. PICK s \in Runners : s = Innermost /\ InProgress(s)
  BY InnermostRuns DEF IInv, Dispatch, ChainInv
<1>1. /\ pc = "loop" /\ pc' = "code" /\ ready[s] # <<>>
      /\ tasks' = [tasks EXCEPT ![s] = @ \ {zombie[s]}] /\ zombie' = [zombie EXCEPT ![s] = NoTask]
      /\ current' = [current EXCEPT ![s] = Head(ready[s])]
      /\ ready' = [ready EXCEPT ![s] = Tail(@)]
      /\ UNCHANGED <<inited, active_count, parked, threadVars, frames>>
  BY <1>0 DEF Dispatch, TaskFree, DequeueReady
<1>2. current[s] = NoTask
  BY <1>0, <1>1 DEF IInv, NestInv
<1>3. Books(ready[s], parked[s], NoTask, zombie[s], tasks[s], active_count[s])
  BY <1>2 DEF IInv, RunnerBooks
<1>4. Head(ready[s]) \in Tasks /\ Head(ready[s]) # NoTask
  BY <1>1, <1>3, BooksDispatch, ConstantsAssumption
<1>5. TypeOK'
  BY <1>1, <1>4 DEF IInv, TypeOK, threadVars
<1>6. RunnerBooks'
  <2>1. /\ ready'[s] = Tail(ready[s]) /\ parked'[s] = parked[s] /\ current'[s] = Head(ready[s])
        /\ zombie'[s] = NoTask /\ tasks'[s] = tasks[s] \ {zombie[s]} /\ active_count'[s] = active_count[s]
    BY <1>1 DEF IInv, TypeOK
  <2>2. Books(Tail(ready[s]), parked[s], Head(ready[s]), zombie[s], tasks[s], active_count[s])
    BY <1>1, <1>3, BooksDispatch
  <2>3. Books(ready[s], parked[s], current[s], zombie[s], tasks[s], active_count[s])'
    BY <2>1, <2>2, BooksFree
  <2>4. \A q \in Runners : q # s =>
               /\ ready'[q] = ready[q] /\ parked'[q] = parked[q] /\ current'[q] = current[q]
               /\ zombie'[q] = zombie[q] /\ tasks'[q] = tasks[q] /\ active_count'[q] = active_count[q]
    BY <1>1 DEF IInv, TypeOK
  <2> QED BY <2>3, <2>4, BooksOfOne DEF IInv
<1>7. NestInv'
  <2>1. Innermost' = s /\ \A r \in Runners : InProgress(r)' <=> InProgress(r)
    BY <1>0, <1>1 DEF Innermost, InProgress
  <2>2. \A r \in Runners : current'[r] # NoTask <=> InProgress(r)' /\ (pc' = "code" \/ r # Innermost')
    BY <1>0, <1>1, <1>4, <2>1 DEF IInv, TypeOK, NestInv
  <2>3. \A r \in Runners : zombie'[r] = NoTask
    BY <1>0, <1>1 DEF IInv, TypeOK, NestInv
  <2> QED BY <1>1, <2>2, <2>3 DEF IInv, NestInv
<1> QED BY <1>5, <1>6, <1>7

(* Resume *)
LEMMA ResumeStep ==
    ASSUME IInv, Resume
    PROVE  TypeOK' /\ RunnerBooks' /\ NestInv'
<1>0. PICK s \in Reactors : s = g_reactor
  BY DEF IInv, TypeOK, Resume
<1>1. PICK t \in parked[s] : /\ parked' = [parked EXCEPT ![s] = @ \ {t}]
                             /\ ready' = [ready EXCEPT ![s] = Append(@, t)]
  BY <1>0 DEF Resume, EnqueueReady
<1>2. s \in Runners /\ t \in Tasks /\ UNCHANGED <<inited, current, zombie, active_count, tasks, threadVars, frames, pc>>
  BY <1>0, <1>1 DEF Resume, Runners, IInv, TypeOK
<1>3. TypeOK'
  BY <1>1, <1>2 DEF IInv, TypeOK, threadVars
<1>4. RunnerBooks'
  <2>1. /\ ready'[s] = Append(ready[s], t) /\ parked'[s] = parked[s] \ {t} /\ current'[s] = current[s]
        /\ zombie'[s] = zombie[s] /\ tasks'[s] = tasks[s] /\ active_count'[s] = active_count[s]
    BY <1>1, <1>2 DEF IInv, TypeOK
  <2>2. Books(ready[s], parked[s], current[s], zombie[s], tasks[s], active_count[s])
    BY <1>2 DEF IInv, RunnerBooks
  <2>3. Books(ready[s], parked[s], current[s], zombie[s], tasks[s], active_count[s])'
    BY <2>1, <2>2, BooksResume
  <2>4. \A q \in Runners : q # s =>
               /\ ready'[q] = ready[q] /\ parked'[q] = parked[q] /\ current'[q] = current[q]
               /\ zombie'[q] = zombie[q] /\ tasks'[q] = tasks[q] /\ active_count'[q] = active_count[q]
    BY <1>1, <1>2 DEF IInv, TypeOK
  <2> QED BY <1>2, <2>3, <2>4, BooksOfOne DEF IInv
<1>5. NestInv'
  <2>1. \A q \in Scheds : parked'[q] = {}
    <3>1. s \notin Scheds
      BY ConstantsAssumption
    <3> QED BY <1>1, <3>1 DEF IInv, NestInv, TypeOK, Runners
  <2> QED BY <1>2, <2>1 DEF IInv, NestInv, InProgress, Innermost
<1> QED BY <1>3, <1>4, <1>5

(* RunReturns and RunFails *)
LEMMA ReturnStep ==
    ASSUME IInv, ChainInv', pc = "loop", Return
    PROVE  TypeOK' /\ RunnerBooks' /\ NestInv'
<1> DEFINE n == Len(frames)
<1>0. PICK s \in Runners : s = Innermost /\ InProgress(s)
  BY InnermostRuns DEF IInv, ChainInv
<1>1. /\ pc' = "code" /\ frames' = Front(frames)
      /\ tasks' = [tasks EXCEPT ![s] = @ \ {zombie[s]}] /\ zombie' = [zombie EXCEPT ![s] = NoTask]
      /\ UNCHANGED <<inited, ready, current, active_count, parked>>
  BY <1>0 DEF Return, TaskFree
<1>2. /\ frames' \in Seq(Frame) /\ n \in Nat \ {0} /\ Len(frames') = n - 1
      /\ \A k \in 1 .. n - 1 : frames'[k] = frames[k]
      /\ s = frames[n].runner
  <2>1. frames \in Seq(Frame) /\ frames # <<>>
    BY DEF IInv, ChainInv
  <2>2. s = frames[Len(frames)].runner
    BY <1>0, <2>1 DEF Innermost, Last
  <2>3. /\ frames' \in Seq(Frame) /\ n \in Nat \ {0} /\ Len(frames') = n - 1
        /\ \A k \in 1 .. n - 1 : frames'[k] = frames[k]
    <3>1. /\ frames' \in Seq(Frame) /\ Len(frames) \in Nat \ {0} /\ Len(frames') = Len(frames) - 1
          /\ \A k \in 1 .. Len(frames') : frames'[k] = frames[k]
      BY <1>1, <2>1, PopFrame
    <3> QED BY <3>1
  <2> QED BY <2>2, <2>3
<1>3. \A j, k \in 1 .. n : frames[j].runner = frames[k].runner => j = k
  BY DEF IInv, NestInv
<1>4. \A r \in Runners : InProgress(r)' <=> InProgress(r) /\ r # s
  <2>1. DOMAIN frames' = 1 .. n - 1 /\ DOMAIN frames = 1 .. n
    BY <1>2 DEF IInv, ChainInv
  <2>2. \A k \in 1 .. n : (k \in 1 .. n - 1 /\ k # n) \/ k = n
    BY <1>2
  <2>3. n \in 1 .. n /\ \A k \in 1 .. n - 1 : k \in 1 .. n /\ k # n
    BY <1>2
  <2> HIDE DEF n
  <2> QED BY <1>2, <1>3, <2>1, <2>2, <2>3 DEF InProgress
<1>5. TypeOK'
  <2>1. ASSUME NEW r, r = s_return_hook' PROVE r \in Runners \cup {None}
    <3>1. Innermost' = r /\ (frames' = <<>> => Innermost' = None)
      BY <2>1 DEF ChainInv, Innermost
    <3>2. CASE frames' = <<>>
      BY <3>1, <3>2
    <3>3. CASE frames' # <<>>
      <4>1. Len(frames') \in 1 .. Len(frames') /\ Innermost' = frames'[Len(frames')].runner
        BY <1>2, <3>3 DEF Innermost, Last
      <4>2. frames'[Len(frames')] \in Frame
        BY <1>2, <4>1
      <4> QED BY <3>1, <4>1, <4>2 DEF Frame
    <3> QED BY <3>2, <3>3
  <2>2. s_current_sched' \in Scheds \cup {None} /\ g_reactor' \in Reactors \cup {None}
    BY DEF ChainInv, Top
  <2> QED BY <1>1, <1>2, <2>1, <2>2 DEF IInv, TypeOK, Frame
<1>6. RunnerBooks'
  <2>1. /\ ready'[s] = ready[s] /\ parked'[s] = parked[s] /\ current'[s] = current[s]
        /\ zombie'[s] = NoTask /\ tasks'[s] = tasks[s] \ {zombie[s]} /\ active_count'[s] = active_count[s]
    BY <1>1 DEF IInv, TypeOK
  <2>2. Books(ready[s], parked[s], current[s], zombie[s], tasks[s], active_count[s])
    BY DEF IInv, RunnerBooks
  <2>3. Books(ready[s], parked[s], current[s], zombie[s], tasks[s], active_count[s])'
    BY <2>1, <2>2, BooksFree
  <2>4. \A q \in Runners : q # s =>
               /\ ready'[q] = ready[q] /\ parked'[q] = parked[q] /\ current'[q] = current[q]
               /\ zombie'[q] = zombie[q] /\ tasks'[q] = tasks[q] /\ active_count'[q] = active_count[q]
    BY <1>1 DEF IInv, TypeOK
  <2> QED BY <2>3, <2>4, BooksOfOne DEF IInv
<1>7. NestInv'
  <2>1. \A r \in Runners : current'[r] # NoTask <=> InProgress(r)' /\ (pc' = "code" \/ r # Innermost')
    BY <1>0, <1>1, <1>4 DEF IInv, NestInv
  <2>2. \A r \in Runners : zombie'[r] = NoTask
    BY <1>0, <1>1 DEF IInv, TypeOK, NestInv
  <2>3. \A j, k \in 1 .. Len(frames') : frames'[j].runner = frames'[k].runner => j = k
    <3>1. \A k \in 1 .. n - 1 : k \in 1 .. n
      BY <1>2
    <3> HIDE DEF n
    <3> QED BY <1>2, <1>3, <3>1
  <2> QED BY <1>1, <2>1, <2>2, <2>3 DEF IInv, NestInv
<1> QED BY <1>5, <1>6, <1>7

(* Every operation preserves the invariant. *)
LEMMA NextIInv == ~ Reentry /\ IInv /\ [Next]_vars => IInv'
<1> SUFFICES ASSUME ~ Reentry, IInv, [Next]_vars PROVE TypeOK' /\ RunnerBooks' /\ NestInv' /\ ChainInv'
  BY DEF IInv
<1>0. ChainInv'
  BY ChainNext DEF IInv
<1>1. ASSUME NEW s \in Runners, RunnerInit(s) \/ RunnerDestroy(s) \/ Run(s) \/ (\E t \in Tasks : Spawn(s, t))
      PROVE  TypeOK' /\ RunnerBooks' /\ NestInv'
  BY <1>0, <1>1, InitStep, DestroyStep, RunStep, SpawnStep
<1>2. CASE Yield \/ EvYield \/ EvPark \/ Finish
  BY <1>0, <1>2, YieldStep, ParkStep, FinishStep
<1>3. CASE Dispatch \/ Resume \/ RunReturns \/ RunFails
  BY <1>0, <1>3, DispatchStep, ResumeStep, ReturnStep DEF RunReturns, RunFails
<1>4. CASE UNCHANGED vars
  <2>1. UNCHANGED <<inited, ready, current, zombie, active_count, parked, tasks, s_current_sched,
                    g_reactor, s_return_hook, frames, pc>>
    BY <1>4 DEF vars, runnerVars, threadVars
  <2>2. TypeOK'
    BY <2>1 DEF IInv, TypeOK
  <2>3. RunnerBooks'
    BY <2>1 DEF IInv, RunnerBooks
  <2>4. NestInv'
    BY <2>1 DEF IInv, NestInv, InProgress, Innermost
  <2> QED BY <1>0, <2>2, <2>3, <2>4
<1> QED BY <1>0, <1>1, <1>2, <1>3, <1>4 DEF Next, Loop

(* The state in which a thread begins *)
LEMMA InitIInv == Init => IInv
<1> SUFFICES ASSUME Init PROVE IInv
  OBVIOUS
<1>1. frames = <<>> /\ frames \in Seq(Frame) /\ Len(frames) = 0 /\ DOMAIN frames = {}
  BY DEF Init
<1>2. TypeOK
  BY <1>1 DEF Init, TypeOK, Frame
<1>3. ChainInv
  BY <1>1 DEF Init, ChainInv, Innermost, Top
<1>4. RunnerBooks
  BY BooksEmpty DEF Init, RunnerBooks
<1>5. NestInv
  BY <1>1 DEF Init, NestInv, InProgress, Runners
<1> QED BY <1>2, <1>3, <1>4, <1>5 DEF IInv

(* The invariant holds of every thread that runs no runner inside itself,   *)
(* which cfiber_scheduler_run asserts and cfiber_reactor_run refuses for    *)
(* the current one.                                                         *)
LEMMA Invariance ==
    ASSUME ~ Reentry
    PROVE  Spec => []IInv
<1>1. IInv /\ [Next]_vars => IInv'
  BY NextIInv
<1> QED BY <1>1, InitIInv, PTL DEF Spec

(* Four sets that share nothing, as the tuple EveryTaskOnce uses *)
LEMMA FourPlaces ==
    ASSUME NEW a, NEW b, NEW c, NEW d, NEW p, p = <<a, b, c, d>>,
           a \cap b = {}, a \cap c = {}, a \cap d = {}, b \cap c = {}, b \cap d = {}, c \cap d = {}
    PROVE  /\ \A i, j \in DOMAIN p : i # j => p[i] \cap p[j] = {}
           /\ UNION Range(p) = a \cup b \cup c \cup d
<1>1. DOMAIN p = {1, 2, 3, 4} /\ p[1] = a /\ p[2] = b /\ p[3] = c /\ p[4] = d
  OBVIOUS
<1>2. b \cap a = {} /\ c \cap a = {} /\ d \cap a = {} /\ c \cap b = {} /\ d \cap b = {} /\ d \cap c = {}
  OBVIOUS
<1>3. \A i, j \in DOMAIN p : i # j => p[i] \cap p[j] = {}
  BY <1>1, <1>2
<1>4. Range(p) = {a, b, c, d}
  BY <1>1 DEF Range
<1> QED BY <1>3, <1>4

(* What EveryTaskOnce asks of one runner *)
Once(rd, pk, cu, zo, ts, ac) ==
    LET at == {cu} \ {NoTask}
        dead == {zo} \ {NoTask}
        places == <<Range(rd), pk, at, dead>> IN
    /\ IsInjective(rd)
    /\ \A i, j \in DOMAIN places : i # j => places[i] \cap places[j] = {}
    /\ ts = UNION Range(places)
    /\ ac = Len(rd) + Cardinality(pk \cup at)

(* The books of a runner say it. *)
LEMMA BooksMeanOnce ==
    ASSUME NEW rd, NEW pk, NEW cu, NEW zo, NEW ts, NEW ac, Books(rd, pk, cu, zo, ts, ac)
    PROVE  Once(rd, pk, cu, zo, ts, ac)
<1> DEFINE at == {cu} \ {NoTask}
           dead == {zo} \ {NoTask}
           places == <<Range(rd), pk, at, dead>>
<1>1. rd \in Seq(Tasks) /\ DOMAIN rd = 1 .. Len(rd)
  BY DEF Books
<1>2. IsInjective(rd)
  BY <1>1 DEF Books, IsInjective
<1>3. \A u : u \in Range(rd) <=> \E i \in 1 .. Len(rd) : rd[i] = u
  BY <1>1 DEF Range
<1>4. /\ Range(rd) \cap pk = {} /\ Range(rd) \cap at = {} /\ Range(rd) \cap dead = {}
      /\ pk \cap at = {} /\ pk \cap dead = {} /\ at \cap dead = {}
  BY <1>3 DEF Books
<1>5. Range(rd) \subseteq Tasks
  BY <1>1, <1>3
<1>6. ts = Range(rd) \cup pk \cup at \cup dead
  <2>1. ts \subseteq Tasks /\ pk \subseteq Tasks /\ at \subseteq Tasks /\ dead \subseteq Tasks
    BY DEF Books
  <2>2. \A u \in Tasks : u \in ts <=> u \in Range(rd) \/ u \in pk \/ u \in at \/ u \in dead
    BY <1>3, ConstantsAssumption DEF Books
  <2> HIDE DEF at, dead
  <2> QED BY <1>5, <2>1, <2>2
<1>7. ac = Len(rd) + Cardinality(pk \cup at)
  <2>0. Cardinality(pk) \in Nat
    BY BooksCount
  <2>1. /\ IsFiniteSet(pk) /\ Len(rd) \in Nat
        /\ ac = Len(rd) + Cardinality(pk) + (IF cu = NoTask THEN 0 ELSE 1)
    BY <1>1 DEF Books
  <2>2. CASE cu = NoTask
    <3>1. pk \cup at = pk
      BY <2>2
    <3>2. Cardinality(pk \cup at) = Cardinality(pk)
      BY <3>1
    <3>3. ac = Len(rd) + Cardinality(pk) + 0
      BY <2>1, <2>2
    <3> HIDE DEF at
    <3> QED BY <2>0, <2>1, <3>2, <3>3
  <2>3. CASE cu # NoTask
    <3>1. pk \cup at = pk \cup {cu} /\ cu \notin pk
      BY <2>3 DEF Books
    <3>2. Cardinality(pk \cup {cu}) = Cardinality(pk) + 1
      BY <2>1, <3>1, FS_AddElement
    <3>3. Cardinality(pk \cup at) = Cardinality(pk) + 1
      BY <3>1, <3>2
    <3>4. ac = Len(rd) + Cardinality(pk) + 1
      BY <2>1, <2>3
    <3> HIDE DEF at
    <3> QED BY <2>0, <2>1, <3>3, <3>4
  <2> QED BY <2>2, <2>3
<1> HIDE DEF at, dead
<1>8. (\A i, j \in DOMAIN places : i # j => places[i] \cap places[j] = {}) /\ UNION Range(places) = ts
  <2> HIDE DEF places
  <2>1. places = <<Range(rd), pk, at, dead>>
    BY DEF places
  <2>2. /\ \A i, j \in DOMAIN places : i # j => places[i] \cap places[j] = {}
        /\ UNION Range(places) = Range(rd) \cup pk \cup at \cup dead
    BY <1>4, <2>1, FourPlaces
  <2> QED BY <1>6, <2>2
<1> QED BY <1>2, <1>7, <1>8, Zenon DEF at, dead, Once

(* Every task taken from a pool is in exactly one place, the count the loop *)
(* stops on is that of the live ones, and a run that has returned keeps no  *)
(* finished fiber: for every schedule of spawns, yields, parks, wakes and   *)
(* returns over nested runs.                                                *)
THEOREM EveryTaskOnceHolds ==
    ASSUME ~ Reentry
    PROVE  Spec => []EveryTaskOnce
<1>1. IInv => EveryTaskOnce
  <2> SUFFICES ASSUME IInv, NEW s \in Runners
               PROVE  LET at == {current[s]} \ {NoTask}
                          dead == {zombie[s]} \ {NoTask}
                          places == <<Range(ready[s]), parked[s], at, dead>> IN
                      /\ IsInjective(ready[s])
                      /\ \A i, j \in DOMAIN places : i # j => places[i] \cap places[j] = {}
                      /\ tasks[s] = UNION Range(places)
                      /\ ~ InProgress(s) => at = {} /\ dead = {}
                      /\ active_count[s] = Len(ready[s]) + Cardinality(parked[s] \cup at)
    BY DEF IInv, EveryTaskOnce
  <2>1. Books(ready[s], parked[s], current[s], zombie[s], tasks[s], active_count[s])
    BY DEF IInv, RunnerBooks
  <2>2. ~ InProgress(s) => current[s] = NoTask
    BY DEF IInv, NestInv
  <2>3. ~ InProgress(s) => zombie[s] = NoTask
    <3> SUFFICES ASSUME zombie[s] # NoTask PROVE InProgress(s)
      OBVIOUS
    <3>1. pc = "loop" /\ s = Innermost
      BY DEF IInv, NestInv
    <3> QED BY <3>1, InnermostRuns DEF IInv, ChainInv
  <2>4. Once(ready[s], parked[s], current[s], zombie[s], tasks[s], active_count[s])
    BY <2>1, BooksMeanOnce
  <2>5. ~ InProgress(s) => {current[s]} \ {NoTask} = {} /\ {zombie[s]} \ {NoTask} = {}
    BY <2>2, <2>3
  <2> QED BY <2>4, <2>5, Zenon DEF Once
<1> QED BY <1>1, Invariance, PTL

(* The stack a nested run executes on stays allocated: the fiber that       *)
(* started it is its runner's current one until the nested run returns.     *)
THEOREM HostsStay ==
    ASSUME ~ Reentry
    PROVE  Spec => []HostsStayAlive
<1>1. IInv => HostsStayAlive
  <2> SUFFICES ASSUME IInv, NEW k \in DOMAIN frames, k < Len(frames) \/ pc = "code"
               PROVE  LET s == frames[k].runner IN current[s] # NoTask /\ current[s] \in tasks[s]
    BY DEF HostsStayAlive
  <2> DEFINE s == frames[k].runner
  <2>1. frames \in Seq(Frame) /\ k \in 1 .. Len(frames) /\ Len(frames) \in Nat
    BY DEF IInv, ChainInv
  <2>2. s \in Runners /\ InProgress(s)
    <3>1. frames[k] \in Frame
      BY <2>1
    <3> QED BY <3>1 DEF Frame, InProgress
  <2>3. pc = "code" \/ s # Innermost
    <3> SUFFICES ASSUME k < Len(frames), s = Innermost PROVE FALSE
      OBVIOUS
    <3>1. Len(frames) \in 1 .. Len(frames) /\ frames # <<>>
      BY <2>1
    <3>2. Innermost = frames[Len(frames)].runner
      BY <3>1 DEF Innermost, Last
    <3>3. k = Len(frames)
      BY <2>1, <3>1, <3>2 DEF IInv, NestInv
    <3> QED BY <2>1, <3>3
  <2> HIDE DEF s
  <2>4. current[s] # NoTask
    BY <2>2, <2>3 DEF IInv, NestInv
  <2>5. Books(ready[s], parked[s], current[s], zombie[s], tasks[s], active_count[s])
    BY <2>2 DEF IInv, RunnerBooks
  <2>6. current[s] \in tasks[s]
    BY <2>4, <2>5 DEF Books
  <2> QED BY <2>4, <2>6 DEF s
<1> QED BY <1>1, Invariance, PTL

(* The __builtin_trap of cfiber_scheduler_run is never reached: a scheduler *)
(* whose loop executes with live fibers has one that is ready.              *)
THEOREM TrapIsUnreachable ==
    ASSUME ~ Reentry
    PROVE  Spec => []NeverTrapped
<1>1. IInv => NeverTrapped
  <2> SUFFICES ASSUME IInv, Trapped PROVE FALSE
    BY DEF NeverTrapped
  <2>1. PICK s \in Scheds : s = Innermost
    BY DEF Trapped
  <2>2. s \in Runners /\ pc = "loop" /\ active_count[s] > 0 /\ ready[s] = <<>>
    BY <2>1 DEF Trapped, Runners
  <2>3. current[s] = NoTask /\ parked[s] = {}
    BY <2>1, <2>2 DEF IInv, NestInv
  <2>4. Books(<<>>, {}, NoTask, zombie[s], tasks[s], active_count[s])
    BY <2>2, <2>3 DEF IInv, RunnerBooks
  <2>5. active_count[s] = 0
    BY <2>4, FS_EmptySet DEF Books
  <2> QED BY <2>2, <2>5
<1> QED BY <1>1, Invariance, PTL

=============================================================================
