---------------------------- MODULE CmdRingProofs ----------------------------
(***************************************************************************)
(* Proofs about CmdRing, for every number of posters and commands, every   *)
(* capacity of at least two and any number of posts.                       *)
(***************************************************************************)
EXTENDS CmdRing, TLAPS

-----------------------------------------------------------------------------
(* Arithmetic of pos & mask *)

(* A cell index is a slot of the ring. *)
LEMMA IdxInSlot == \A n \in Nat : Idx(n) \in Slot
BY CapAssumption DEF Idx, Slot

(* Quotient and remainder by Cap. *)
LEMMA DivMod ==
    \A n \in Nat : /\ n \div Cap \in Nat
                   /\ n = Cap * (n \div Cap) + Idx(n)
BY CapAssumption, Z3 DEF Idx

(* Nothing lies strictly between two neighbouring multiples of Cap. *)
LEMMA NoMultipleBetween == \A k \in Int : ~ (0 < Cap * k /\ Cap * k < Cap)
<1> SUFFICES ASSUME NEW k \in Int, 0 < Cap * k, Cap * k < Cap PROVE FALSE
    OBVIOUS
<1>1. CASE k <= 0
  BY <1>1, CapAssumption, Z3
<1>2. CASE k >= 1
  BY <1>2, CapAssumption, Z3
<1> QED BY <1>1, <1>2

(* Positions less than a lap apart use different cells. *)
LEMMA IdxDistinct ==
    \A a, b \in Nat : a < b /\ b < a + Cap => Idx(a) # Idx(b)
<1> SUFFICES ASSUME NEW a \in Nat, NEW b \in Nat, a < b, b < a + Cap, Idx(a) = Idx(b)
             PROVE FALSE
    OBVIOUS
<1> DEFINE da == a \div Cap  db == b \div Cap
<1>1. da \in Nat /\ db \in Nat /\ Idx(a) \in Int
  BY DivMod, IdxInSlot, CapAssumption DEF Slot
<1>2. a = Cap * da + Idx(a) /\ b = Cap * db + Idx(a)
  BY DivMod
<1> HIDE DEF da, db
<1>3. b - a = Cap * (db - da)
  BY <1>1, <1>2, CapAssumption, Z3
<1>4. 0 < Cap * (db - da) /\ Cap * (db - da) < Cap
  BY <1>3, CapAssumption, SMT
<1> QED BY <1>1, <1>4, NoMultipleBetween

(* A position and the one a lap later share a cell. *)
LEMMA IdxNextLap == \A n \in Nat : Idx(n + Cap) = Idx(n)
<1> SUFFICES ASSUME NEW n \in Nat PROVE Idx(n + Cap) = Idx(n)
    OBVIOUS
<1> DEFINE d == n \div Cap  e == (n + Cap) \div Cap
<1>1. d \in Nat /\ e \in Nat /\ n + Cap \in Nat /\ Idx(n) \in Slot /\ Idx(n + Cap) \in Slot
  BY DivMod, IdxInSlot, CapAssumption
<1>2. n = Cap * d + Idx(n) /\ n + Cap = Cap * e + Idx(n + Cap)
  BY <1>1, DivMod
<1> HIDE DEF d, e
<1>3. Idx(n) - Idx(n + Cap) = Cap * (e - d - 1)
  BY <1>1, <1>2, CapAssumption, Z3 DEF Slot
<1>4. ~ (0 < Cap * (e - d - 1) /\ Cap * (e - d - 1) < Cap)
  BY <1>1, NoMultipleBetween
<1>5. Idx(n + Cap) - Idx(n) = Cap * (d + 1 - e)
  BY <1>1, <1>2, CapAssumption, Z3 DEF Slot
<1>6. ~ (0 < Cap * (d + 1 - e) /\ Cap * (d + 1 - e) < Cap)
  BY <1>1, NoMultipleBetween
<1> HIDE DEF Idx
<1> QED BY <1>1, <1>3, <1>4, <1>5, <1>6, CapAssumption DEF Slot

-----------------------------------------------------------------------------
(* Type correctness *)

(* The state ring_init leaves is well typed. *)
LEMMA TypeInit == Init => TypeOK
<1> SUFFICES ASSUME Init PROVE TypeOK
    OBVIOUS
<1>1. seq \in [Slot -> Nat]
  BY CapAssumption DEF Init, Slot
<1>2. tries \in [Producers -> 0 .. PostRetries - 1]
  BY RetriesAssumption DEF Init
<1>3. claimed \in Seq(Cmds \cup {NoCmd})
  BY DEF Init
<1> QED BY <1>1, <1>2, <1>3 DEF Init, TypeOK, PosterPc, LoopPc

(* Every step keeps the types; in particular post_cmd's retry counter never *)
(* passes POST_RETRIES - 1.                                                 *)
LEMMA TypeNext == TypeOK /\ [Next]_vars => TypeOK'
<1> SUFFICES ASSUME TypeOK, [Next]_vars PROVE TypeOK'
    OBVIOUS
<1> USE CapAssumption, RetriesAssumption DEF TypeOK, PosterPc, LoopPc
<1>1. CASE UNCHANGED vars
  BY <1>1 DEF vars, ringVars, posterVars, loopVars
<1>2. ASSUME NEW p \in Producers, Poster(p) PROVE TypeOK'
  <2>1. CASE PostCmd(p)
    BY <2>1 DEF PostCmd, Goto, ringVars, posterVars, loopVars
  <2>2. CASE EnqueueLoad(p)
    BY <2>2 DEF EnqueueLoad, Goto, ringVars, posterVars, loopVars
  <2>3. CASE EnqueueSeesFree(p)
    BY <2>3 DEF EnqueueSeesFree, Goto, ringVars, posterVars, loopVars
  <2>4. CASE EnqueueSeesTaken(p)
    BY <2>4 DEF EnqueueSeesTaken, ringVars, posterVars, loopVars
  <2>5. CASE EnqueueFullRetry(p)
    BY <2>5 DEF EnqueueFullRetry, Goto, ringVars, posterVars, loopVars
  <2>6. CASE EnqueueRefused(p)
    BY <2>6 DEF EnqueueRefused, Return, Goto, ringVars, posterVars, loopVars
  <2>7. CASE EnqueueCasWins(p)
    BY <2>7 DEF EnqueueCasWins, Goto, ringVars, posterVars, loopVars
  <2>8. CASE EnqueueCasFails(p)
    BY <2>8 DEF EnqueueCasFails, Goto, ringVars, posterVars, loopVars
  <2>9. CASE EnqueueWrite(p)
    BY <2>9, IdxInSlot DEF EnqueueWrite, Goto, ringVars, posterVars, loopVars
  <2>10. CASE EnqueuePublish(p)
    <3>1. pos[p] \in Nat /\ Idx(pos[p]) \in Slot
      BY IdxInSlot
    <3>2. seq' \in [Slot -> Nat]
      BY <2>10, <3>1 DEF EnqueuePublish, PublishedSeq
    <3> QED BY <2>10, <3>2 DEF EnqueuePublish, Goto, loopVars
  <2>11. CASE PostPoke(p)
    BY <2>11 DEF PostPoke, Return, Goto, ringVars, posterVars, loopVars
  <2> QED BY <1>2, <2>1, <2>2, <2>3, <2>4, <2>5, <2>6, <2>7, <2>8, <2>9, <2>10, <2>11 DEF Poster
<1>3. CASE LoopStep
  <2>1. CASE LoopSeesEventfd
    BY <2>1 DEF LoopSeesEventfd, ringVars, posterVars, loopVars
  <2>2. CASE DrainRead
    BY <2>2 DEF DrainRead, ringVars, posterVars, loopVars
  <2>3. CASE DrainReadEmpty
    BY <2>3 DEF DrainReadEmpty, ringVars, posterVars, loopVars
  <2>4. CASE DequeueSeesCmd
    BY <2>4 DEF DequeueSeesCmd, ringVars, posterVars, loopVars
  <2>5. CASE DequeueSeesEmpty
    BY <2>5 DEF DequeueSeesEmpty, ringVars, posterVars, loopVars
  <2>6. CASE DequeueCasWins
    BY <2>6 DEF DequeueCasWins, ringVars, posterVars, loopVars
  <2>7. CASE DequeueCasFails
    BY <2>7 DEF DequeueCasFails, ringVars, posterVars, loopVars
  <2>8. CASE DequeueCopy
    BY <2>8, IdxInSlot DEF DequeueCopy, ringVars, posterVars, loopVars
  <2>9. CASE DequeueRelease
    <3>1. lpos \in Nat /\ Idx(lpos) \in Slot
      BY IdxInSlot
    <3>2. seq' \in [Slot -> Nat]
      BY <2>9, <3>1 DEF DequeueRelease, ReleasedSeq
    <3> QED BY <2>9, <3>2 DEF DequeueRelease, posterVars
  <2> QED BY <1>3, <2>1, <2>2, <2>3, <2>4, <2>5, <2>6, <2>7, <2>8, <2>9 DEF LoopStep
<1> QED BY <1>1, <1>2, <1>3 DEF Next

(* The variables of the command path keep their types for ever. *)
THEOREM TypeCorrect == Spec => []TypeOK
<1> QED BY TypeInit, TypeNext, PTL DEF Spec

-----------------------------------------------------------------------------
(* The inductive invariant *)

(* The properties themselves *)
Safe == RingInv /\ InClaimOrder /\ NoLostCommand

(* The state ring_init leaves satisfies the safety invariant: every cell *)
(* is free for its own index and nothing is claimed.                     *)
LEMMA SafeInit == Init => Safe
<1> SUFFICES ASSUME Init PROVE Safe
    OBVIOUS
<1> USE CapAssumption DEF Init
<1>1. CursorInv
  BY DEF CursorInv, Released
<1>2. CellInv
  <2>1. \A n \in 0 .. Cap - 1 : seq[Idx(n)] = n
    <3> TAKE n \in 0 .. Cap - 1
    <3>1. Idx(n) = n /\ n \in Slot
      BY DEF Idx, Slot
    <3> QED BY <3>1
  <2> QED BY <2>1 DEF CellInv, Released
<1>3. PosterInv
  BY DEF PosterInv, Owns
<1>4. InClaimOrder
  BY DEF InClaimOrder
<1>5. NoLostCommand
  <2>1. seq[Idx(0)] = 0
    BY DEF Idx, Slot
  <2> QED BY <2>1 DEF NoLostCommand, PublishedSeq
<1> QED BY <1>1, <1>2, <1>3, <1>4, <1>5 DEF Safe, RingInv

(* Two positions of one lap that share a cell are the same position. *)
LEMMA OneLap ==
    ASSUME NEW a \in Nat, NEW b \in Nat, NEW low \in Int,
           low <= a, a < low + Cap, low <= b, b < low + Cap, Idx(a) = Idx(b)
    PROVE  a = b
<1>1. CASE a < b
  BY <1>1, IdxDistinct, CapAssumption
<1>2. CASE b < a
  BY <1>2, IdxDistinct, CapAssumption
<1> QED BY <1>1, <1>2

(* A poster that moves between "idle", "load", "check" and "cas" touches    *)
(* nothing but its own locals.                                              *)
LEMMA LocalStep ==
    ASSUME TypeOK, TypeOK', Safe, NEW p \in Producers,
           UNCHANGED <<ringVars, evfd, loopVars, claimed>>,
           \A q \in Producers \ {p} :
               pc'[q] = pc[q] /\ pos'[q] = pos[q] /\ cmd'[q] = cmd[q],
           pc[p] \notin {"write", "publish", "poke"},
           pc'[p] \in {"idle", "load", "check", "cas"},
           pc'[p] \in {"check", "cas"} => pos'[p] <= enqueue_pos,
           pc'[p] = "cas" => pos'[p] < Released + Cap
    PROVE  Safe'
<1> USE DEF Safe, RingInv
<1>1. CursorInv'
  BY DEF CursorInv, Released, PublishedSeq, ringVars, loopVars
<1>2. CellInv'
  <2>1. \A q \in Producers : Owns(q) => Owns(q)' /\ pos'[q] = pos[q]
    BY DEF Owns
  <2>2. Released' = Released
    BY DEF Released, ringVars, loopVars
  <2> QED BY <2>1, <2>2 DEF CellInv, PublishedSeq, ringVars, loopVars
<1>3. PosterInv'
  <2>1. ~ Owns(p)'
    BY DEF Owns
  <2>2. \A q \in Producers \ {p} : Owns(q)' <=> Owns(q)
    BY DEF Owns
  <2>3. Released' = Released
    BY DEF Released, ringVars, loopVars
  <2> QED BY <2>1, <2>2, <2>3 DEF PosterInv, ringVars, loopVars
<1>4. InClaimOrder'
  BY DEF InClaimOrder, ringVars, loopVars
<1>5. NoLostCommand'
  BY DEF NoLostCommand, PublishedSeq, ringVars, loopVars
<1> QED BY <1>1, <1>2, <1>3, <1>4, <1>5

(* A free cell found at pos <= enqueue_pos has been released for it. *)
LEMMA FreeIsReleased ==
    ASSUME TypeOK, Safe, NEW n \in Nat, n <= enqueue_pos, seq[Idx(n)] = n
    PROVE  n < Released + Cap
<1> USE CapAssumption DEF Safe, RingInv
<1> SUFFICES ASSUME n >= Released + Cap PROVE FALSE
    BY DEF TypeOK, Released
<1>1. Released \in Nat /\ n = Released + Cap /\ enqueue_pos = n
  BY DEF TypeOK, CursorInv, Released
<1>2. Idx(n) = Idx(Released)
  BY <1>1, IdxNextLap
<1>3. CASE lpc \in {"copy", "release"}
  BY <1>1, <1>2, <1>3 DEF CellInv, CursorInv, Released, PublishedSeq, TypeOK
<1>4. CASE lpc \notin {"copy", "release"}
  <2>1. Released = dequeue_pos /\ Released \in dequeue_pos .. enqueue_pos - 1
    BY <1>1, <1>4 DEF Released, TypeOK
  <2>2. seq[Idx(Released)] \in {Released, Released + 1}
    BY <2>1 DEF CellInv, PublishedSeq
  <2> QED BY <1>1, <1>2, <2>2
<1> QED BY <1>3, <1>4

(* What the window of positions in use looks like, for the steps that       *)
(* change a cell: the oldest position not released, the posters' positions  *)
(* and the free ones all lie in one lap.                                    *)
LEMMA Window ==
    ASSUME TypeOK, Safe
    PROVE  /\ Released \in Nat
           /\ Released <= dequeue_pos /\ dequeue_pos <= Released + 1
           /\ dequeue_pos <= enqueue_pos /\ enqueue_pos <= Released + Cap
           /\ lpc \in {"copy", "release"} => lpos = Released /\ dequeue_pos = Released + 1
           /\ lpc \in {"check", "cas"} => lpos = dequeue_pos
           /\ lpc \notin {"copy", "release"} => Released = dequeue_pos
           /\ \A p \in Producers : Owns(p) =>
                 pos[p] \in Nat /\ dequeue_pos <= pos[p] /\ pos[p] < enqueue_pos
BY DEF TypeOK, Safe, RingInv, CursorInv, PosterInv, Released

(* Claiming a position: the cell seen free is still free, so the new owner *)
(* is its only one.                                                        *)
LEMMA CasWinsStep ==
    ASSUME TypeOK, TypeOK', Safe, NEW p \in Producers, EnqueueCasWins(p)
    PROVE  Safe'
<1> USE CapAssumption DEF Safe, RingInv
<1>1. /\ pc[p] = "cas" /\ pc'[p] = "write" /\ enqueue_pos = pos[p]
      /\ enqueue_pos' = enqueue_pos + 1
      /\ claimed' = Append(claimed, cmd[p])
      /\ UNCHANGED <<seq, cell, dequeue_pos, evfd, pos, cmd, lpc, lpos, out>>
      /\ \A q \in Producers \ {p} : pc'[q] = pc[q]
  BY DEF EnqueueCasWins, Goto, loopVars, TypeOK
<1>2. enqueue_pos < Released + Cap /\ Released' = Released
  BY <1>1 DEF PosterInv, Released
<1>3. Len(claimed) = enqueue_pos /\ claimed \in Seq(Cmds \cup {NoCmd})
  BY DEF CursorInv, TypeOK
<1>4. /\ \A n \in 1 .. enqueue_pos : claimed'[n] = claimed[n]
      /\ claimed'[enqueue_pos + 1] = cmd[p]
      /\ Len(claimed') = enqueue_pos + 1
  BY <1>1, <1>3 DEF TypeOK
<1>5. CursorInv'
  BY <1>1, <1>2, <1>4, Window DEF CursorInv, PublishedSeq, TypeOK
<1>6. /\ Owns(p)'
      /\ \A q \in Producers \ {p} : Owns(q)' <=> Owns(q)
      /\ ~ Owns(p)
  BY <1>1 DEF Owns
<1>7. seq[Idx(enqueue_pos)] = enqueue_pos
  <2>1. enqueue_pos \in Nat /\ Released \in Nat
    BY Window DEF TypeOK
  <2>2. enqueue_pos \in enqueue_pos .. Released + Cap - 1
    BY <2>1, <1>2
  <2> QED BY <2>2 DEF CellInv
<1>8. CellInv'
  <2>1. \A n \in enqueue_pos' .. Released' + Cap - 1 : seq'[Idx(n)] = n
    BY <1>1, <1>2, Window DEF CellInv, TypeOK
  <2>2. ASSUME NEW n \in dequeue_pos' .. enqueue_pos' - 1
        PROVE  \/ seq'[Idx(n)] = PublishedSeq(n) /\ cell'[Idx(n)] = claimed'[n + 1]
               \/ seq'[Idx(n)] = n /\ \E q \in Producers : Owns(q)' /\ pos'[q] = n
    <3>1. CASE n = enqueue_pos
      BY <3>1, <1>1, <1>6, <1>7
    <3>2. CASE n # enqueue_pos
      <4>1. n \in dequeue_pos .. enqueue_pos - 1 /\ n + 1 \in 1 .. enqueue_pos
        BY <3>2, <1>1 DEF TypeOK
      <4>2. CASE seq[Idx(n)] = PublishedSeq(n) /\ cell[Idx(n)] = claimed[n + 1]
        BY <4>1, <4>2, <1>1, <1>4
      <4>3. CASE seq[Idx(n)] = n /\ \E q \in Producers : Owns(q) /\ pos[q] = n
        BY <4>3, <1>1, <1>6
      <4> QED BY <4>1, <4>2, <4>3 DEF CellInv
    <3> QED BY <3>1, <3>2
  <2>3. lpc' = "copy" => cell'[Idx(lpos)'] = claimed'[dequeue_pos']
    <3> SUFFICES ASSUME lpc = "copy" PROVE cell[Idx(lpos)] = claimed'[dequeue_pos]
        BY <1>1 DEF Idx
    <3>1. dequeue_pos \in 1 .. enqueue_pos
      <4>1. /\ Released \in Nat /\ dequeue_pos = Released + 1
            /\ dequeue_pos <= enqueue_pos
        BY Window
      <4>2. enqueue_pos \in Nat
        BY DEF TypeOK
      <4> QED BY <4>1, <4>2
    <3> QED BY <3>1, <1>4 DEF CellInv
  <2>4. lpc' \in {"copy", "release"} => seq'[Idx(lpos)'] = PublishedSeq(lpos)'
    BY <1>1 DEF CellInv, Idx, PublishedSeq
  <2> QED BY <2>1, <2>2, <2>3, <2>4 DEF CellInv, Idx, PublishedSeq
<1>9. PosterInv'
  <2>1. ASSUME NEW q \in Producers
        PROVE  /\ pc'[q] \in {"check", "cas"} => pos'[q] <= enqueue_pos'
               /\ pc'[q] = "cas" => pos'[q] < Released' + Cap
               /\ Owns(q)' => /\ pos'[q] \in dequeue_pos' .. enqueue_pos' - 1
                              /\ seq'[Idx(pos'[q])] = pos'[q]
                              /\ claimed'[pos'[q] + 1] = cmd'[q]
               /\ pc'[q] = "publish" => cell'[Idx(pos'[q])] = cmd'[q]
    <3>1. CASE q = p
      BY <3>1, <1>1, <1>4, <1>7, Window DEF TypeOK
    <3>2. CASE q # p
      <4>1. pc'[q] = pc[q] /\ (Owns(q)' <=> Owns(q))
        BY <3>2, <1>1, <1>6
      <4>2. ASSUME Owns(q) PROVE pos[q] + 1 \in 1 .. enqueue_pos
        <5>1. pos[q] \in Nat /\ pos[q] < enqueue_pos /\ enqueue_pos \in Nat
          BY <4>2, Window DEF TypeOK
        <5> QED BY <5>1
      <4> QED BY <4>1, <4>2, <1>1, <1>2, <1>4 DEF PosterInv, TypeOK
    <3> QED BY <3>1, <3>2
  <2>2. ASSUME NEW q \in Producers, NEW r \in Producers, Owns(q)', Owns(r)', pos'[q] = pos'[r]
        PROVE  q = r
    <3>1. \A x \in Producers \ {p} : Owns(x)' => pos[x] < enqueue_pos
      BY <1>6, Window DEF TypeOK
    <3>2. enqueue_pos \in Nat /\ pos[q] = pos[r]
      BY <2>2, <1>1 DEF TypeOK
    <3>3. CASE q = p /\ r # p
      BY <2>2, <3>1, <3>2, <3>3, <1>1
    <3>4. CASE r = p /\ q # p
      BY <2>2, <3>1, <3>2, <3>4, <1>1
    <3>5. CASE q # p /\ r # p
      BY <2>2, <3>2, <3>5, <1>6 DEF PosterInv
    <3> QED BY <3>3, <3>4, <3>5
  <2> QED BY <2>1, <2>2 DEF PosterInv, Idx
<1>10. InClaimOrder'
  <2> SUFFICES ASSUME lpc = "release" PROVE out = claimed'[dequeue_pos]
      BY <1>1 DEF InClaimOrder
  <2>1. dequeue_pos \in 1 .. enqueue_pos
    <3>1. /\ Released \in Nat /\ dequeue_pos = Released + 1
          /\ dequeue_pos <= enqueue_pos
      BY Window
    <3>2. enqueue_pos \in Nat
      BY DEF TypeOK
    <3> QED BY <3>1, <3>2
  <2> QED BY <2>1, <1>4 DEF InClaimOrder
<1>11. NoLostCommand'
  BY <1>1 DEF NoLostCommand, PublishedSeq, Idx
<1> QED BY <1>5, <1>8, <1>9, <1>10, <1>11

(* Where an owner's cell is not: at no other position in use or free. *)
LEMMA OwnerCell ==
    ASSUME TypeOK, Safe, NEW p \in Producers, Owns(p)
    PROVE  /\ pos[p] \in Nat /\ Idx(pos[p]) \in Slot /\ seq[Idx(pos[p])] = pos[p]
           /\ \A n \in dequeue_pos .. enqueue_pos - 1 : Idx(n) = Idx(pos[p]) => n = pos[p]
           /\ \A n \in enqueue_pos .. Released + Cap - 1 : Idx(n) # Idx(pos[p])
           /\ lpc \in {"copy", "release"} => Idx(lpos) # Idx(pos[p])
           /\ \A q \in Producers \ {p} : Owns(q) => Idx(pos[q]) # Idx(pos[p])
<1> USE CapAssumption DEF Safe, RingInv
<1>1. /\ pos[p] \in Nat /\ dequeue_pos <= pos[p] /\ pos[p] < enqueue_pos
      /\ Released \in Nat /\ dequeue_pos \in Nat /\ enqueue_pos \in Nat
      /\ Released <= dequeue_pos /\ enqueue_pos <= Released + Cap
  BY Window DEF TypeOK
<1>2. seq[Idx(pos[p])] = pos[p] /\ Idx(pos[p]) \in Slot
  BY <1>1, IdxInSlot DEF PosterInv
<1>3. ASSUME NEW n \in Nat, Released <= n, n < Released + Cap, Idx(n) = Idx(pos[p])
      PROVE  n = pos[p]
  <2>1. /\ Released \in Int /\ pos[p] \in Nat
        /\ Released <= pos[p] /\ pos[p] < Released + Cap
    BY <1>1
  <2> QED BY <1>3, <2>1, OneLap
<1>4. \A n \in dequeue_pos .. enqueue_pos - 1 : Idx(n) = Idx(pos[p]) => n = pos[p]
  <2> TAKE n \in dequeue_pos .. enqueue_pos - 1
  <2>1. n \in Nat /\ Released <= n /\ n < Released + Cap
    BY <1>1
  <2> QED BY <2>1, <1>3
<1>5. \A n \in enqueue_pos .. Released + Cap - 1 : Idx(n) # Idx(pos[p])
  <2> TAKE n \in enqueue_pos .. Released + Cap - 1
  <2>1. n \in Nat /\ Released <= n /\ n < Released + Cap /\ n # pos[p]
    BY <1>1
  <2> QED BY <2>1, <1>3
<1>6. ASSUME lpc \in {"copy", "release"} PROVE Idx(lpos) # Idx(pos[p])
  <2>1. lpos = Released /\ dequeue_pos = Released + 1
    BY <1>6, Window
  <2>2. lpos \in Nat /\ Released <= lpos /\ lpos < Released + Cap /\ lpos # pos[p]
    BY <1>1, <2>1
  <2> QED BY <2>2, <1>3
<1>7. ASSUME NEW q \in Producers \ {p}, Owns(q) PROVE Idx(pos[q]) # Idx(pos[p])
  <2>1. pos[q] \in Nat /\ dequeue_pos <= pos[q] /\ pos[q] < enqueue_pos
    BY <1>7, Window
  <2>2. pos[q] # pos[p]
    BY <1>7 DEF PosterInv
  <2>3. Released <= pos[q] /\ pos[q] < Released + Cap
    BY <1>1, <2>1
  <2> QED BY <1>3, <2>1, <2>2, <2>3
<1> QED BY <1>1, <1>2, <1>4, <1>5, <1>6, <1>7

(* Writing the command touches only the owner's cell. *)
LEMMA WriteStep ==
    ASSUME TypeOK, TypeOK', Safe, NEW p \in Producers, EnqueueWrite(p)
    PROVE  Safe'
<1> USE DEF Safe, RingInv
<1>1. /\ pc[p] = "write" /\ pc'[p] = "publish"
      /\ cell' = [cell EXCEPT ![Idx(pos[p])] = cmd[p]]
      /\ UNCHANGED <<seq, enqueue_pos, dequeue_pos, evfd, pos, cmd, lpc, lpos, out,
                     claimed>>
      /\ \A q \in Producers \ {p} : pc'[q] = pc[q]
  BY DEF EnqueueWrite, Goto, loopVars, TypeOK
<1>2. Owns(p) /\ (\A q \in Producers : Owns(q)' <=> Owns(q)) /\ Released' = Released
  BY <1>1 DEF Owns, Released
<1>3. /\ cell'[Idx(pos[p])] = cmd[p]
      /\ \A i \in Slot : i # Idx(pos[p]) => cell'[i] = cell[i]
  BY <1>1, <1>2, OwnerCell DEF TypeOK
<1>4. CursorInv'
  BY <1>1, <1>2 DEF CursorInv, PublishedSeq, Idx
<1>5. CellInv'
  <2>1. ASSUME NEW n \in dequeue_pos .. enqueue_pos - 1
        PROVE  \/ seq[Idx(n)] = PublishedSeq(n) /\ cell'[Idx(n)] = claimed[n + 1]
               \/ seq[Idx(n)] = n /\ \E q \in Producers : Owns(q) /\ pos[q] = n
    <3>1. n \in Nat /\ Idx(n) \in Slot
      BY IdxInSlot DEF TypeOK
    <3>2. CASE seq[Idx(n)] = PublishedSeq(n) /\ cell[Idx(n)] = claimed[n + 1]
      <4>1. Idx(n) # Idx(pos[p])
        BY <3>1, <3>2, <1>2, OwnerCell DEF PublishedSeq
      <4> QED BY <3>1, <3>2, <4>1, <1>3
    <3> QED BY <3>2 DEF CellInv
  <2>2. ASSUME lpc = "copy" PROVE cell'[Idx(lpos)] = claimed[dequeue_pos]
    BY <2>2, <1>2, <1>3, OwnerCell, IdxInSlot DEF CellInv, TypeOK
  <2> QED BY <1>1, <1>2, <2>1, <2>2 DEF CellInv, Idx, PublishedSeq
<1>6. PosterInv'
  <2>1. ASSUME NEW q \in Producers, pc'[q] = "publish" PROVE cell'[Idx(pos[q])] = cmd[q]
    <3>1. CASE q = p
      BY <3>1, <1>3
    <3>2. CASE q # p
      <4>1. Owns(q) /\ cell[Idx(pos[q])] = cmd[q]
        BY <2>1, <3>2, <1>1 DEF Owns, PosterInv
      <4>2. Idx(pos[q]) \in Slot /\ Idx(pos[q]) # Idx(pos[p])
        BY <3>2, <4>1, <1>2, OwnerCell
      <4> QED BY <4>1, <4>2, <1>3
    <3> QED BY <3>1, <3>2
  <2>2. \A q \in Producers : pc'[q] \in {"check", "cas"} => pc'[q] = pc[q]
    BY <1>1
  <2> QED BY <2>1, <2>2, <1>1, <1>2 DEF PosterInv, Idx
<1>7. InClaimOrder'
  BY <1>1 DEF InClaimOrder
<1>8. NoLostCommand'
  BY <1>1 DEF NoLostCommand, PublishedSeq, Idx
<1> QED BY <1>4, <1>5, <1>6, <1>7, <1>8

(* Publishing hands the owner's cell to the loop, with its command in it. *)
LEMMA PublishStep ==
    ASSUME TypeOK, TypeOK', Safe, NEW p \in Producers, EnqueuePublish(p)
    PROVE  Safe'
<1> USE DEF Safe, RingInv
<1>1. /\ pc[p] = "publish" /\ pc'[p] = "poke"
      /\ seq' = [seq EXCEPT ![Idx(pos[p])] = PublishedSeq(pos[p])]
      /\ UNCHANGED <<cell, enqueue_pos, dequeue_pos, evfd, pos, cmd, lpc, lpos, out,
                     claimed>>
      /\ \A q \in Producers \ {p} : pc'[q] = pc[q]
  BY DEF EnqueuePublish, Goto, loopVars, TypeOK
<1>2. /\ Owns(p) /\ ~ Owns(p)' /\ Released' = Released
      /\ \A q \in Producers \ {p} : Owns(q)' <=> Owns(q)
  BY <1>1 DEF Owns, Released
<1>3. /\ seq'[Idx(pos[p])] = PublishedSeq(pos[p])
      /\ \A i \in Slot : i # Idx(pos[p]) => seq'[i] = seq[i]
  BY <1>1, <1>2, OwnerCell DEF TypeOK
<1>4. CursorInv'
  <2>1. ASSUME lpc = "cas" PROVE seq'[Idx(lpos)] = PublishedSeq(lpos)
    <3>1. seq[Idx(lpos)] = PublishedSeq(lpos) /\ lpos \in Nat /\ Idx(lpos) \in Slot
          /\ lpos = dequeue_pos
      BY <2>1, IdxInSlot DEF CursorInv, TypeOK
    <3>2. CASE Idx(lpos) = Idx(pos[p])
      <4>1. pos[p] = lpos + 1
        BY <3>1, <3>2, <1>2, OwnerCell DEF PublishedSeq
      <4>2. dequeue_pos \in dequeue_pos .. enqueue_pos - 1
        BY <1>2, Window DEF TypeOK
      <4> QED BY <3>1, <3>2, <4>1, <4>2, <1>2, OwnerCell
    <3> QED BY <3>1, <3>2, <1>3
  <2> QED BY <1>1, <1>2, <2>1 DEF CursorInv, PublishedSeq, Idx
<1>5. CellInv'
  <2>1. ASSUME NEW n \in dequeue_pos .. enqueue_pos - 1
        PROVE  \/ seq'[Idx(n)] = PublishedSeq(n) /\ cell[Idx(n)] = claimed[n + 1]
               \/ seq'[Idx(n)] = n /\ \E q \in Producers : Owns(q)' /\ pos[q] = n
    <3>1. n \in Nat /\ Idx(n) \in Slot
      BY IdxInSlot DEF TypeOK
    <3>2. CASE n = pos[p]
      BY <3>2, <1>1, <1>2, <1>3 DEF PosterInv
    <3>3. CASE n # pos[p]
      <4>1. seq'[Idx(n)] = seq[Idx(n)]
        BY <3>1, <3>3, <1>2, <1>3, OwnerCell
      <4> QED BY <3>3, <4>1, <1>2 DEF CellInv
    <3> QED BY <3>2, <3>3
  <2>2. ASSUME NEW n \in enqueue_pos .. Released + Cap - 1 PROVE seq'[Idx(n)] = n
    <3>1. n \in Nat /\ Idx(n) \in Slot
      BY IdxInSlot DEF TypeOK
    <3> QED BY <3>1, <1>2, <1>3, OwnerCell DEF CellInv
  <2>3. ASSUME lpc \in {"copy", "release"} PROVE seq'[Idx(lpos)] = PublishedSeq(lpos)
    BY <2>3, <1>2, <1>3, OwnerCell, IdxInSlot DEF CellInv, TypeOK
  <2> QED BY <1>1, <1>2, <2>1, <2>2, <2>3 DEF CellInv, Idx, PublishedSeq
<1>6. PosterInv'
  <2>1. ASSUME NEW q \in Producers, Owns(q)'
        PROVE  q # p /\ Owns(q) /\ seq'[Idx(pos[q])] = pos[q]
    <3>1. q # p /\ Owns(q)
      BY <2>1, <1>2
    <3> QED BY <3>1, <1>2, <1>3, OwnerCell
  <2>2. \A q \in Producers : pc'[q] \in {"check", "cas", "publish"} => pc'[q] = pc[q]
    BY <1>1
  <2> QED BY <2>1, <2>2, <1>1, <1>2 DEF PosterInv, Idx
<1>7. InClaimOrder'
  BY <1>1 DEF InClaimOrder
<1>8. NoLostCommand'
  BY <1>1 DEF NoLostCommand
<1> QED BY <1>4, <1>5, <1>6, <1>7, <1>8

(* Poking the eventfd makes it readable and changes nothing of the ring. *)
LEMMA PokeStep ==
    ASSUME TypeOK, TypeOK', Safe, NEW p \in Producers, PostPoke(p)
    PROVE  Safe'
<1> USE DEF Safe, RingInv
<1>1. /\ pc[p] = "poke" /\ pc'[p] = "idle" /\ evfd' = TRUE
      /\ UNCHANGED <<seq, cell, enqueue_pos, dequeue_pos, lpc, lpos, out, claimed>>
      /\ \A q \in Producers \ {p} :
            pc'[q] = pc[q] /\ pos'[q] = pos[q] /\ cmd'[q] = cmd[q]
  BY DEF PostPoke, Return, Goto, ringVars, loopVars, TypeOK
<1>2. /\ ~ Owns(p) /\ ~ Owns(p)' /\ Released' = Released
      /\ \A q \in Producers \ {p} : Owns(q)' <=> Owns(q)
  BY <1>1 DEF Owns, Released
<1>3. CursorInv'
  BY <1>1, <1>2 DEF CursorInv, PublishedSeq, Idx
<1>4. CellInv'
  <2>1. \A q \in Producers : Owns(q) => Owns(q)' /\ pos'[q] = pos[q]
    BY <1>1, <1>2
  <2> QED BY <1>1, <1>2, <2>1 DEF CellInv, PublishedSeq, Idx
<1>5. PosterInv'
  BY <1>1, <1>2 DEF PosterInv, Idx
<1>6. InClaimOrder' /\ NoLostCommand'
  BY <1>1 DEF InClaimOrder, NoLostCommand
<1> QED BY <1>3, <1>4, <1>5, <1>6

(* Steps of the loop that change no cell and no cursor. *)
LEMMA LoopLocalStep ==
    ASSUME TypeOK, TypeOK', Safe,
           UNCHANGED <<ringVars, posterVars, claimed>>,
           lpc \notin {"copy", "release"}, lpc' \notin {"copy", "release"},
           lpc' \in {"check", "cas"} => lpos' = dequeue_pos,
           lpc' = "cas" => seq[Idx(lpos')] = PublishedSeq(lpos'),
           NoLostCommand'
    PROVE  Safe'
<1> USE DEF Safe, RingInv
<1>1. /\ UNCHANGED <<seq, cell, enqueue_pos, dequeue_pos, pc, pos, cmd, claimed>>
      /\ Released' = Released /\ \A q \in Producers : Owns(q)' <=> Owns(q)
  BY DEF ringVars, posterVars, Released, Owns
<1>2. CursorInv'
  BY <1>1 DEF CursorInv, PublishedSeq, Idx
<1>3. CellInv'
  BY <1>1 DEF CellInv, PublishedSeq, Idx
<1>4. PosterInv'
  BY <1>1 DEF PosterInv, Idx
<1>5. InClaimOrder'
  BY DEF InClaimOrder
<1> QED BY <1>2, <1>3, <1>4, <1>5

(* The loop takes the oldest position: its cell is published. *)
LEMMA TakeStep ==
    ASSUME TypeOK, TypeOK', Safe, DequeueCasWins
    PROVE  Safe'
<1> USE CapAssumption DEF Safe, RingInv
<1>1. /\ lpc = "cas" /\ lpc' = "copy" /\ dequeue_pos = lpos /\ dequeue_pos' = lpos + 1
      /\ UNCHANGED <<seq, cell, enqueue_pos, evfd, pc, pos, cmd, lpos, out, claimed>>
  BY DEF DequeueCasWins, posterVars
<1>2. /\ Released = lpos /\ Released' = lpos /\ lpos \in Nat /\ enqueue_pos \in Nat
      /\ \A q \in Producers : Owns(q)' <=> Owns(q)
  BY <1>1 DEF Released, Owns, TypeOK
<1>3. seq[Idx(lpos)] = lpos + 1
  BY <1>1 DEF CursorInv, PublishedSeq
<1>4. lpos < enqueue_pos /\ enqueue_pos <= lpos + Cap
  <2>1. CASE enqueue_pos = lpos
    <3>1. lpos \in enqueue_pos .. Released + Cap - 1
      BY <1>2, <2>1
    <3> QED BY <3>1, <1>2, <1>3 DEF CellInv
  <2> QED BY <2>1, <1>1, <1>2, Window
<1>5. cell[Idx(lpos)] = claimed[lpos + 1]
  <2>1. lpos \in dequeue_pos .. enqueue_pos - 1 /\ seq[Idx(lpos)] # lpos
    BY <1>1, <1>2, <1>3, <1>4
  <2> QED BY <2>1 DEF CellInv
<1>6. CursorInv'
  BY <1>1, <1>2, <1>4 DEF CursorInv
<1>7. CellInv'
  <2>1. \A n \in lpos + 1 .. enqueue_pos - 1 : n \in lpos .. enqueue_pos - 1
    BY <1>2
  <2> QED BY <1>1, <1>2, <1>3, <1>5, <2>1 DEF CellInv, PublishedSeq, Idx
<1>8. PosterInv'
  <2>1. ASSUME NEW q \in Producers, Owns(q) PROVE pos[q] \in lpos + 1 .. enqueue_pos - 1
    <3>1. pos[q] \in lpos .. enqueue_pos - 1 /\ seq[Idx(pos[q])] = pos[q]
      BY <2>1, <1>1 DEF PosterInv
    <3>2. pos[q] # lpos
      BY <3>1, <1>2, <1>3
    <3> QED BY <3>1, <3>2, <1>2
  <2> QED BY <1>1, <1>2, <2>1 DEF PosterInv, Idx
<1>9. InClaimOrder' /\ NoLostCommand'
  BY <1>1 DEF InClaimOrder, NoLostCommand
<1> QED BY <1>6, <1>7, <1>8, <1>9

(* The command copied out is the one claimed for that position. *)
LEMMA CopyStep ==
    ASSUME TypeOK, TypeOK', Safe, DequeueCopy
    PROVE  Safe'
<1> USE DEF Safe, RingInv
<1>1. /\ lpc = "copy" /\ lpc' = "release" /\ out' = cell[Idx(lpos)]
      /\ UNCHANGED <<seq, cell, enqueue_pos, dequeue_pos, evfd, pc, pos, cmd, lpos,
                     claimed>>
  BY DEF DequeueCopy, ringVars, posterVars
<1>2. Released' = Released /\ \A q \in Producers : Owns(q)' <=> Owns(q)
  BY <1>1 DEF Released, Owns
<1>3. CursorInv' /\ CellInv'
  BY <1>1, <1>2 DEF CursorInv, CellInv, PublishedSeq, Idx
<1>4. PosterInv'
  BY <1>1, <1>2 DEF PosterInv, Idx
<1>5. InClaimOrder' /\ NoLostCommand'
  BY <1>1 DEF CellInv, InClaimOrder, NoLostCommand
<1> QED BY <1>3, <1>4, <1>5

(* Releasing frees the cell for the position one lap later, and no other. *)
LEMMA ReleaseStep ==
    ASSUME TypeOK, TypeOK', Safe, DequeueRelease
    PROVE  Safe'
<1> USE CapAssumption DEF Safe, RingInv
<1>1. /\ lpc = "release" /\ lpc' = "check" /\ lpos' = dequeue_pos
      /\ seq' = [seq EXCEPT ![Idx(lpos)] = lpos + Cap]
      /\ UNCHANGED <<cell, enqueue_pos, dequeue_pos, evfd, pc, pos, cmd, out, claimed>>
  BY DEF DequeueRelease, ReleasedSeq, posterVars
<1>2. /\ Released = lpos /\ dequeue_pos = lpos + 1 /\ Released' = lpos + 1
      /\ lpos \in Nat /\ enqueue_pos \in Nat
      /\ lpos + 1 <= enqueue_pos /\ enqueue_pos <= lpos + Cap
      /\ \A q \in Producers : Owns(q)' <=> Owns(q)
  <2>1. lpos = Released /\ dequeue_pos = Released + 1
    BY <1>1, Window
  <2>2. Released' = dequeue_pos
    BY <1>1 DEF Released
  <2> QED BY <1>1, <2>1, <2>2, Window DEF Owns, TypeOK
<1>3. /\ Idx(lpos) \in Slot /\ Idx(lpos + Cap) = Idx(lpos) /\ seq'[Idx(lpos)] = lpos + Cap
      /\ \A i \in Slot : i # Idx(lpos) => seq'[i] = seq[i]
  BY <1>1, <1>2, IdxInSlot, IdxNextLap DEF TypeOK
<1>4. ASSUME NEW n \in Nat, lpos < n, n < lpos + Cap PROVE seq'[Idx(n)] = seq[Idx(n)]
  <2>1. Idx(n) # Idx(lpos) /\ Idx(n) \in Slot
    BY <1>2, <1>4, IdxDistinct, IdxInSlot
  <2> QED BY <2>1, <1>3
<1>5. CursorInv'
  BY <1>1, <1>2 DEF CursorInv
<1>6. CellInv'
  <2>1. ASSUME NEW n \in enqueue_pos .. lpos + Cap PROVE seq'[Idx(n)] = n
    <3>1. CASE n = lpos + Cap
      BY <3>1, <1>3
    <3>2. CASE n # lpos + Cap
      <4>1. n \in Nat /\ lpos < n /\ n < lpos + Cap /\ n \in enqueue_pos .. lpos + Cap - 1
        BY <3>2, <1>2
      <4> QED BY <4>1, <1>2, <1>4 DEF CellInv
    <3> QED BY <3>1, <3>2
  <2>2. \A n \in dequeue_pos .. enqueue_pos - 1 : seq'[Idx(n)] = seq[Idx(n)]
    <3> TAKE n \in dequeue_pos .. enqueue_pos - 1
    <3>1. n \in Nat /\ lpos < n /\ n < lpos + Cap
      BY <1>2
    <3> QED BY <3>1, <1>4
  <2>3. Released' + Cap - 1 = lpos + Cap
    BY <1>2
  <2>4. (\A n \in enqueue_pos .. Released + Cap - 1 : seq[Idx(n)] = n)'
    <3> SUFFICES \A n \in enqueue_pos .. Released' + Cap - 1 : seq'[Idx(n)] = n
      BY <1>1 DEF Idx
    <3> QED BY <2>1, <2>3
  <2>5. \A n \in dequeue_pos .. enqueue_pos - 1 :
          \/ seq'[Idx(n)] = PublishedSeq(n) /\ cell[Idx(n)] = claimed[n + 1]
          \/ seq'[Idx(n)] = n /\ \E q \in Producers : Owns(q)' /\ pos[q] = n
    BY <1>2, <2>2 DEF CellInv
  <2>6. (\A n \in dequeue_pos .. enqueue_pos - 1 :
          \/ seq[Idx(n)] = PublishedSeq(n) /\ cell[Idx(n)] = claimed[n + 1]
          \/ seq[Idx(n)] = n /\ \E q \in Producers : Owns(q) /\ pos[q] = n)'
    BY <1>1, <2>5 DEF Idx, PublishedSeq
  <2>7. lpc' \notin {"copy", "release"}
    BY <1>1
  <2> QED BY <2>4, <2>6, <2>7 DEF CellInv
<1>7. PosterInv'
  <2>1. ASSUME NEW q \in Producers, Owns(q) PROVE seq'[Idx(pos[q])] = pos[q]
    <3>1. /\ pos[q] \in Nat /\ dequeue_pos <= pos[q] /\ pos[q] < enqueue_pos
          /\ seq[Idx(pos[q])] = pos[q]
      BY <2>1, Window DEF PosterInv
    <3>2. lpos < pos[q] /\ pos[q] < lpos + Cap
      BY <3>1, <1>2
    <3> QED BY <3>1, <3>2, <1>4
  <2>2. \A q \in Producers : pc[q] = "cas" => pos[q] < Released' + Cap
    BY <1>2 DEF PosterInv, TypeOK
  <2> QED BY <1>1, <1>2, <2>1, <2>2 DEF PosterInv, Idx
<1>8. InClaimOrder' /\ NoLostCommand'
  BY <1>1 DEF InClaimOrder, NoLostCommand
<1> QED BY <1>5, <1>6, <1>7, <1>8

(* Init and every step, action by action. *)
LEMMA SafeNext == TypeOK /\ TypeOK' /\ Safe /\ [Next]_vars => Safe'
<1> SUFFICES ASSUME TypeOK, TypeOK', Safe, [Next]_vars PROVE Safe'
    OBVIOUS
<1>1. CASE UNCHANGED vars
  <2>1. /\ UNCHANGED <<seq, cell, enqueue_pos, dequeue_pos, evfd, pc, pos, cmd, lpc,
                       lpos, out, claimed>>
        /\ Released' = Released /\ \A q \in Producers : Owns(q)' <=> Owns(q)
    BY <1>1 DEF vars, ringVars, posterVars, loopVars, Released, Owns
  <2>2. CursorInv' /\ CellInv'
    BY <2>1 DEF Safe, RingInv, CursorInv, CellInv, PublishedSeq, Idx
  <2>3. PosterInv'
    BY <2>1 DEF Safe, RingInv, PosterInv, Idx
  <2>4. InClaimOrder' /\ NoLostCommand'
    BY <2>1 DEF Safe, InClaimOrder, NoLostCommand, PublishedSeq, Idx
  <2> QED BY <2>2, <2>3, <2>4 DEF Safe, RingInv
<1>2. ASSUME NEW p \in Producers, Poster(p) PROVE Safe'
  <2>1. CASE PostCmd(p)
    BY <2>1, LocalStep DEF PostCmd, Goto, TypeOK
  <2>2. CASE EnqueueLoad(p)
    <3>1. /\ pc[p] \in {"load", "check", "cas"} /\ pc'[p] = "check"
          /\ pos'[p] = enqueue_pos /\ enqueue_pos \in Nat
          /\ UNCHANGED <<ringVars, evfd, loopVars, claimed>>
          /\ \A x \in Producers \ {p} :
                pc'[x] = pc[x] /\ pos'[x] = pos[x] /\ cmd'[x] = cmd[x]
      BY <2>2 DEF EnqueueLoad, Goto, TypeOK
    <3> QED BY <3>1, LocalStep
  <2>3. CASE EnqueueSeesFree(p)
    <3>1. pos[p] < Released + Cap /\ pos[p] <= enqueue_pos
      BY <2>3, FreeIsReleased DEF EnqueueSeesFree, SlotFree, Safe, RingInv, PosterInv, TypeOK
    <3> QED BY <2>3, <3>1, LocalStep DEF EnqueueSeesFree, Goto, TypeOK
  <2>4. CASE EnqueueSeesTaken(p)
    <3>1. /\ pc[p] \in {"load", "check", "cas"} /\ pc'[p] = "check"
          /\ pos'[p] = enqueue_pos /\ enqueue_pos \in Nat
          /\ UNCHANGED <<ringVars, evfd, loopVars, claimed>>
          /\ \A x \in Producers \ {p} :
                pc'[x] = pc[x] /\ pos'[x] = pos[x] /\ cmd'[x] = cmd[x]
      BY <2>4 DEF EnqueueSeesTaken, TypeOK
    <3> QED BY <3>1, LocalStep
  <2>5. CASE EnqueueFullRetry(p)
    BY <2>5, LocalStep DEF EnqueueFullRetry, Goto, TypeOK
  <2>6. CASE EnqueueRefused(p)
    BY <2>6, LocalStep DEF EnqueueRefused, Return, Goto, TypeOK
  <2>7. CASE EnqueueCasWins(p)
    BY <2>7, CasWinsStep
  <2>8. CASE EnqueueCasFails(p)
    <3>1. /\ pc[p] \in {"load", "check", "cas"} /\ pc'[p] = "check"
          /\ pos'[p] = enqueue_pos /\ enqueue_pos \in Nat
          /\ UNCHANGED <<ringVars, evfd, loopVars, claimed>>
          /\ \A x \in Producers \ {p} :
                pc'[x] = pc[x] /\ pos'[x] = pos[x] /\ cmd'[x] = cmd[x]
      BY <2>8 DEF EnqueueCasFails, Goto, TypeOK
    <3> QED BY <3>1, LocalStep
  <2>9. CASE EnqueueWrite(p)
    BY <2>9, WriteStep
  <2>10. CASE EnqueuePublish(p)
    BY <2>10, PublishStep
  <2>11. CASE PostPoke(p)
    BY <2>11, PokeStep
  <2> QED BY <1>2, <2>1, <2>2, <2>3, <2>4, <2>5, <2>6, <2>7, <2>8, <2>9, <2>10, <2>11
          DEF Poster
<1>3. CASE LoopStep
  <2>1. CASE LoopSeesEventfd
    BY <2>1, LoopLocalStep DEF LoopSeesEventfd, NoLostCommand
  <2>2. CASE DrainRead
    BY <2>2, LoopLocalStep DEF DrainRead, NoLostCommand, loopVars
  <2>3. CASE DrainReadEmpty
    BY <2>3, LoopLocalStep DEF DrainReadEmpty, NoLostCommand
  <2>4. CASE DequeueSeesCmd
    BY <2>4, LoopLocalStep DEF DequeueSeesCmd, NoLostCommand, Safe, RingInv, CursorInv
  <2>5. CASE DequeueSeesEmpty
    <3>1. lpos = dequeue_pos /\ seq[Idx(lpos)] < PublishedSeq(lpos)
      BY <2>5 DEF DequeueSeesEmpty, Safe, RingInv, CursorInv
    <3>2. seq[Idx(dequeue_pos)] # PublishedSeq(dequeue_pos)
      BY <3>1, IdxInSlot DEF TypeOK, PublishedSeq
    <3>3. NoLostCommand'
      BY <2>5, <3>2 DEF DequeueSeesEmpty, NoLostCommand, ringVars, Idx, PublishedSeq
    <3> QED BY <2>5, <3>3, LoopLocalStep DEF DequeueSeesEmpty
  <2>6. CASE DequeueCasWins
    BY <2>6, TakeStep
  <2>7. CASE DequeueCasFails
    BY <2>7, LoopLocalStep DEF DequeueCasFails, NoLostCommand
  <2>8. CASE DequeueCopy
    BY <2>8, CopyStep
  <2>9. CASE DequeueRelease
    BY <2>9, ReleaseStep
  <2> QED BY <1>3, <2>1, <2>2, <2>3, <2>4, <2>5, <2>6, <2>7, <2>8, <2>9 DEF LoopStep
<1> QED BY <1>1, <1>2, <1>3 DEF Next

-----------------------------------------------------------------------------
(* EAGAIN means full *)

(* At the cursor itself only a full ring looks busy. *)
LEMMA BusyAtCursor ==
    ASSUME TypeOK, Safe, seq[Idx(enqueue_pos)] < enqueue_pos
    PROVE  Released + Cap <= enqueue_pos
<1>1. enqueue_pos \in Nat /\ Released \in Nat
  BY Window DEF TypeOK
<1>2. CASE enqueue_pos < Released + Cap
  <2>1. enqueue_pos \in enqueue_pos .. Released + Cap - 1
    BY <1>1, <1>2, CapAssumption
  <2> QED BY <2>1, <1>1 DEF Safe, RingInv, CellInv
<1> QED BY <1>1, <1>2, CapAssumption

(* A poster that finds its cell busy stays a full lap ahead until it acts. *)
LEMMA BusyNext == TypeOK /\ TypeOK' /\ Safe /\ BusyInv /\ [Next]_vars => BusyInv'
<1> SUFFICES ASSUME TypeOK, TypeOK', Safe, BusyInv, [Next]_vars,
                    NEW q \in Producers, pc'[q] = "check",
                    seq'[Idx(pos'[q])] < pos'[q]
             PROVE  Released' + Cap <= pos'[q]
    BY DEF BusyInv, SlotBusy, Idx
<1> DEFINE Kept == /\ pc[q] = "check" /\ pos'[q] = pos[q] /\ Released' = Released
                   /\ seq'[Idx(pos[q])] >= seq[Idx(pos[q])]
           Fresh == /\ pos'[q] = enqueue_pos /\ Released' = Released
                    /\ seq'[Idx(enqueue_pos)] = seq[Idx(enqueue_pos)]
<1>1. Kept => Released' + Cap <= pos'[q]
  <2> SUFFICES ASSUME Kept PROVE Released' + Cap <= pos'[q]
      OBVIOUS
  <2>1. Idx(pos[q]) \in Slot /\ pos[q] \in Nat
    BY IdxInSlot DEF TypeOK
  <2>2. seq[Idx(pos[q])] < pos[q]
    BY <2>1 DEF TypeOK
  <2> QED BY <2>2 DEF BusyInv, SlotBusy
<1>2. Fresh => Released' + Cap <= pos'[q]
  BY BusyAtCursor
<1> HIDE DEF Kept, Fresh
<1>3. UNCHANGED <<seq, dequeue_pos, lpc>> /\ pc[q] = "check" /\ pos'[q] = pos[q] => Kept
  BY IdxInSlot DEF Kept, Released, TypeOK
<1>4. CASE UNCHANGED vars
  BY <1>1, <1>3, <1>4 DEF vars, ringVars, posterVars, loopVars
<1>5. ASSUME NEW p \in Producers, Poster(p) PROVE Kept \/ Fresh
  <2>1. CASE EnqueuePublish(p)
    <3>1. /\ UNCHANGED <<dequeue_pos, lpc, pos>> /\ pc[q] = "check"
          /\ seq' = [seq EXCEPT ![Idx(pos[p])] = pos[p] + 1]
      BY <2>1 DEF EnqueuePublish, Goto, PublishedSeq, loopVars, TypeOK
    <3>2. Owns(p)
      BY <2>1 DEF EnqueuePublish, Owns
    <3>3. seq[Idx(pos[p])] = pos[p] /\ Idx(pos[p]) \in Slot /\ Idx(pos[q]) \in Slot
      BY <3>2, OwnerCell, IdxInSlot DEF TypeOK
    <3> QED BY <3>1, <3>3 DEF Kept, Released, TypeOK
  <2>2. CASE p = q /\ (EnqueueLoad(p) \/ EnqueueSeesTaken(p) \/ EnqueueCasFails(p))
    BY <2>2 DEF EnqueueLoad, EnqueueSeesTaken, EnqueueCasFails, Fresh, Released, ringVars,
                loopVars, TypeOK
  <2>3. CASE p # q /\ ~ EnqueuePublish(p)
    <3>1. UNCHANGED <<seq, dequeue_pos, lpc>> /\ pc[q] = "check" /\ pos'[q] = pos[q]
      BY <1>5, <2>3 DEF Poster, PostCmd, EnqueueLoad, EnqueueSeesFree, EnqueueSeesTaken,
           EnqueueFullRetry, EnqueueRefused, EnqueueCasWins, EnqueueCasFails,
           EnqueueWrite, PostPoke, Return, Goto, ringVars, loopVars, TypeOK
    <3> QED BY <3>1, <1>3
  <2>4. CASE p = q /\ ~ EnqueuePublish(p) /\ ~ EnqueueLoad(p) /\ ~ EnqueueSeesTaken(p)
             /\ ~ EnqueueCasFails(p)
    BY <1>5, <2>4 DEF Poster, PostCmd, EnqueueSeesFree, EnqueueFullRetry, EnqueueRefused,
         EnqueueCasWins, EnqueueWrite, PostPoke, Return, Goto, TypeOK
  <2> QED BY <2>1, <2>2, <2>3, <2>4
<1>6. CASE LoopStep /\ ~ DequeueRelease
  <2>1. Released' = Released /\ UNCHANGED <<seq, pc, pos>>
    <3>1. CASE DequeueCasWins
      BY <3>1 DEF DequeueCasWins, Released, posterVars, TypeOK
    <3>2. CASE DequeueCopy
      BY <3>2 DEF DequeueCopy, Released, ringVars, posterVars
    <3>3. CASE LoopSeesEventfd \/ DrainRead \/ DrainReadEmpty \/ DequeueSeesCmd
               \/ DequeueSeesEmpty \/ DequeueCasFails
      BY <3>3 DEF LoopSeesEventfd, DrainRead, DrainReadEmpty, DequeueSeesCmd,
           DequeueSeesEmpty, DequeueCasFails, Released, ringVars, posterVars, loopVars
    <3> QED BY <1>6, <3>1, <3>2, <3>3 DEF LoopStep
  <2>2. seq[Idx(pos[q])] \in Nat
    BY IdxInSlot DEF TypeOK
  <2>3. pc[q] = "check" /\ pos'[q] = pos[q] /\ seq'[Idx(pos[q])] = seq[Idx(pos[q])]
    BY <2>1
  <2>4. Kept
    BY <2>1, <2>2, <2>3 DEF Kept
  <2> QED BY <2>4, <1>1
<1>7. CASE DequeueRelease
  <2>1. /\ UNCHANGED <<pc, pos, enqueue_pos>> /\ seq' = [seq EXCEPT ![Idx(lpos)] = lpos + Cap]
        /\ lpc = "release" /\ lpos \in Nat
    BY <1>7 DEF DequeueRelease, ReleasedSeq, posterVars, TypeOK
  <2>2. Released = lpos /\ Released' = lpos + 1
    <3>1. lpos = Released /\ dequeue_pos = Released + 1
      BY <2>1, Window
    <3> QED BY <3>1, <1>7 DEF DequeueRelease, Released
  <2>3. /\ pos[q] \in Nat /\ Idx(pos[q]) \in Slot /\ Idx(lpos) \in Slot
        /\ seq[Idx(lpos)] = lpos + 1 /\ Idx(lpos + Cap) = Idx(lpos)
    BY <2>1, IdxInSlot, IdxNextLap DEF TypeOK, Safe, RingInv, CellInv, PublishedSeq
  <2>4. seq[Idx(pos[q])] < pos[q]
    <3>1. seq'[Idx(pos[q])] < pos[q] /\ seq \in [Slot -> Nat]
      BY <2>1 DEF TypeOK
    <3>2. CASE Idx(pos[q]) = Idx(lpos)
      BY <2>1, <2>3, <3>1, <3>2, CapAssumption
    <3>3. CASE Idx(pos[q]) # Idx(lpos)
      BY <2>1, <2>3, <3>1, <3>3
    <3> QED BY <3>2, <3>3
  <2>5. lpos + Cap <= pos[q]
    BY <2>1, <2>2, <2>4 DEF BusyInv, SlotBusy
  <2>6. pos[q] # lpos + Cap
    BY <2>1, <2>3, CapAssumption DEF TypeOK
  <2> QED BY <2>1, <2>2, <2>3, <2>5, <2>6, CapAssumption
<1> QED BY <1>1, <1>2, <1>4, <1>5, <1>6, <1>7 DEF Next

-----------------------------------------------------------------------------
(* The theorems *)

(* IInv is an invariant: it holds at first and every step preserves it. *)
LEMMA InductiveInvariant == Spec => []IInv
<1>1. Init => IInv
  <2>1. Init => BusyInv
    BY DEF Init, BusyInv
  <2> QED BY <2>1, TypeInit, SafeInit DEF IInv, Safe
<1>2. IInv /\ [Next]_vars => IInv'
  BY TypeNext, SafeNext, BusyNext DEF IInv, Safe
<1> QED BY <1>1, <1>2, PTL DEF Spec

(* The invariant of cells, cursors and posters of ring_enqueue and          *)
(* ring_dequeue, whatever the number of threads and the capacity.           *)
THEOREM RingIntact == Spec => []RingInv
<1>1. IInv => RingInv
  BY DEF IInv
<1> QED BY <1>1, InductiveInvariant, PTL

(* The loop applies the commands exactly once and in the order in which     *)
(* their posters claimed them.                                              *)
THEOREM FirstInFirstOut == Spec => []InClaimOrder
<1>1. IInv => InClaimOrder
  BY DEF IInv
<1> QED BY <1>1, InductiveInvariant, PTL

(* The loop never goes back to epoll_wait on a command it was told of. *)
THEOREM NoLostWakeup == Spec => []NoLostCommand
<1>1. IInv => NoLostCommand
  BY DEF IInv
<1> QED BY <1>1, InductiveInvariant, PTL

(* ring_dequeue's reload branch is dead while the loop is the one consumer. *)
THEOREM SingleConsumer == Spec => []NeverOvertaken
<1>1. IInv => NeverOvertaken
  <2> SUFFICES ASSUME IInv, lpc = "check" PROVE seq[Idx(lpos)] <= PublishedSeq(lpos)
      BY DEF NeverOvertaken
  <2> USE CapAssumption
  <2>1. TypeOK /\ Safe
    BY DEF IInv, Safe
  <2>2. lpos = dequeue_pos /\ Released = dequeue_pos /\ dequeue_pos \in Nat
        /\ enqueue_pos \in Nat /\ dequeue_pos <= enqueue_pos
    BY <2>1, Window DEF TypeOK
  <2>3. CASE dequeue_pos = enqueue_pos
    <3>1. dequeue_pos \in enqueue_pos .. Released + Cap - 1
      BY <2>2, <2>3
    <3> QED BY <2>1, <2>2, <3>1 DEF Safe, RingInv, CellInv, PublishedSeq
  <2>4. CASE dequeue_pos < enqueue_pos
    <3>1. dequeue_pos \in dequeue_pos .. enqueue_pos - 1
      BY <2>2, <2>4
    <3> QED BY <2>1, <2>2, <3>1 DEF Safe, RingInv, CellInv, PublishedSeq
  <2> QED BY <2>2, <2>3, <2>4
<1> QED BY <1>1, InductiveInvariant, PTL

(* post_cmd retries, or refuses with EAGAIN, only when the ring is full. *)
THEOREM RefusedOnlyWhenFull == Spec => FullMeansFull
<1> DEFINE A == \A p \in Producers :
                  (pc[p] = "check" /\ pc'[p] \in {"load", "idle"})
                      => enqueue_pos - Released >= Cap
<1>1. IInv /\ [Next]_vars => A
  <2> SUFFICES ASSUME IInv, [Next]_vars, NEW p \in Producers,
                      pc[p] = "check", pc'[p] \in {"load", "idle"}
               PROVE  enqueue_pos - Released >= Cap
      OBVIOUS
  <2>1. SlotBusy(pos[p])
    <3>1. pc' # pc
      OBVIOUS
    <3>2. \A q \in Producers : Poster(q) => q = p
      BY DEF Poster, PostCmd, EnqueueLoad, EnqueueSeesFree, EnqueueSeesTaken,
           EnqueueFullRetry, EnqueueRefused, EnqueueCasWins, EnqueueCasFails,
           EnqueueWrite, EnqueuePublish, PostPoke, Return, Goto, IInv, TypeOK
    <3>3. ~ LoopStep
      BY <3>1 DEF LoopStep, LoopSeesEventfd, DrainRead, DrainReadEmpty, DequeueSeesCmd,
           DequeueSeesEmpty, DequeueCasWins, DequeueCasFails, DequeueCopy,
           DequeueRelease, posterVars
    <3>4. Poster(p)
      BY <3>1, <3>2, <3>3 DEF Next, vars, posterVars
    <3> QED BY <3>4 DEF Poster, PostCmd, EnqueueLoad, EnqueueSeesFree, EnqueueSeesTaken,
           EnqueueFullRetry, EnqueueRefused, EnqueueCasWins, EnqueueCasFails,
           EnqueueWrite, EnqueuePublish, PostPoke, Goto, IInv, TypeOK
  <2>2. Released + Cap <= pos[p] /\ pos[p] <= enqueue_pos
    BY <2>1 DEF IInv, BusyInv, RingInv, PosterInv
  <2>3. Released \in Nat /\ pos[p] \in Nat /\ enqueue_pos \in Nat
    BY Window DEF IInv, Safe, TypeOK
  <2> QED BY <2>2, <2>3, CapAssumption
<1>2. IInv /\ [Next]_vars => [A]_vars
  BY <1>1
<1> HIDE DEF A
<1>3. Spec => [][A]_vars
  BY <1>2, InductiveInvariant, PTL DEF Spec
<1> QED BY <1>3 DEF A, FullMeansFull

-----------------------------------------------------------------------------
(* The refinement: the ring implements the abstract queue *)

(* The abstract queue and output, as the INSTANCE Queue maps them *)
AbsQueue ==
    [i \in 1 .. enqueue_pos - dequeue_pos |->
        [cmd |-> claimed[dequeue_pos + i],
         published |-> seq[Idx(dequeue_pos + i - 1)] = dequeue_pos + i]]

(* The loop thread has taken the command once its cell is its own.          *)
AbsOut == IF lpc = "copy" THEN cell[Idx(lpos)] ELSE out

(* An entry of the abstract queue *)
AbsEntry == [cmd : Cmds \cup {NoCmd}, published : BOOLEAN]

(* A thread inside post_cmd carries a command. *)
Carries == \A p \in Producers : pc[p] # "idle" => cmd[p] \in Cmds

(* post_cmd keeps its argument until it returns. *)
LEMMA CarriesInvariant == Spec => []Carries
<1>1. Init => Carries
  BY DEF Init, Carries
<1>2. TypeOK /\ Carries /\ [Next]_vars => Carries'
  <2> SUFFICES ASSUME TypeOK, Carries, [Next]_vars PROVE Carries'
    OBVIOUS
  <2>1. ASSUME NEW p \in Producers, Poster(p) PROVE Carries'
    BY <2>1 DEF Poster, PostCmd, EnqueueLoad, EnqueueSeesFree, EnqueueSeesTaken,
           EnqueueFullRetry, EnqueueRefused, EnqueueCasWins, EnqueueCasFails,
           EnqueueWrite, EnqueuePublish, PostPoke, Return, Goto, TypeOK, Carries
  <2>2. CASE LoopStep
    BY <2>2 DEF LoopStep, LoopSeesEventfd, DrainRead, DrainReadEmpty, DequeueSeesCmd,
           DequeueSeesEmpty, DequeueCasWins, DequeueCasFails, DequeueCopy,
           DequeueRelease, posterVars, Carries
  <2>3. CASE UNCHANGED vars
    BY <2>3 DEF vars, posterVars, Carries
  <2> QED BY <2>1, <2>2, <2>3 DEF Next
<1> QED BY <1>1, <1>2, TypeCorrect, PTL DEF Spec

(* A sequence one longer than s, with the same elements and then e *)
LEMMA IsAppend ==
    ASSUME NEW S, NEW s \in Seq(S), NEW e \in S, NEW t \in Seq(S), Len(t) = Len(s) + 1,
           \A i \in 1 .. Len(s) : t[i] = s[i], t[Len(s) + 1] = e
    PROVE  t = Append(s, e)
OBVIOUS

(* A sequence without the first element of s *)
LEMMA IsTail ==
    ASSUME NEW S, NEW s \in Seq(S), s # <<>>, NEW t \in Seq(S), Len(t) = Len(s) - 1,
           \A i \in 1 .. Len(t) : t[i] = s[i + 1]
    PROVE  t = Tail(s)
OBVIOUS

(* Functions on an initial segment are sequences. *)
LEMMA IsSeq ==
    ASSUME NEW S, NEW m \in Nat, NEW f \in [1 .. m -> S]
    PROVE  f \in Seq(S) /\ Len(f) = m
OBVIOUS

(* The elements of a slice that begins after position d *)
LEMMA Slice ==
    ASSUME NEW S, NEW s \in Seq(S), NEW d \in Nat, NEW n \in Nat, d <= n, Len(s) = n
    PROVE  n - d \in Nat /\ \A i \in 1 .. n - d : d + i \in 1 .. n /\ s[d + i] \in S
OBVIOUS

(* Records of two fields are equal when their fields are. *)
LEMMA SameEntry ==
    ASSUME NEW C, NEW e \in [cmd : C, published : BOOLEAN], NEW f \in [cmd : C, published : BOOLEAN],
           e.cmd = f.cmd, e.published = f.published
    PROVE  e = f
OBVIOUS

(* What storing TRUE in an entry's published does *)
LEMMA EntryPublished ==
    ASSUME NEW c, NEW e, e = [cmd |-> c, published |-> FALSE]
    PROVE  ~ e.published /\ [e EXCEPT !.published = TRUE] = [cmd |-> c, published |-> TRUE]
<1> DEFINE f == [e EXCEPT !.published = TRUE]
           g == [cmd |-> c, published |-> TRUE]
<1>1. f \in [cmd : {c}, published : BOOLEAN] /\ g \in [cmd : {c}, published : BOOLEAN]
  OBVIOUS
<1>2. f.cmd = g.cmd
  OBVIOUS
<1>3. f.published = TRUE
  OBVIOUS
<1>4. g.published = TRUE
  OBVIOUS
<1>5. e.published = FALSE
  OBVIOUS
<1> HIDE DEF f, g
<1>6. f.published = g.published
  BY <1>3, <1>4
<1>7. f = g
  BY <1>1, <1>2, <1>6, SameEntry
<1> QED BY <1>5, <1>7 DEF f, g

(* The length and the elements of the abstract queue *)
LEMMA AbsShape ==
    ASSUME TypeOK, Safe
    PROVE  /\ AbsQueue \in Seq(AbsEntry) /\ Len(AbsQueue) = enqueue_pos - dequeue_pos
           /\ enqueue_pos - dequeue_pos \in Nat /\ DOMAIN AbsQueue = 1 .. enqueue_pos - dequeue_pos
           /\ \A i \in 1 .. enqueue_pos - dequeue_pos :
                AbsQueue[i] = [cmd |-> claimed[dequeue_pos + i],
                               published |-> seq[Idx(dequeue_pos + i - 1)] = dequeue_pos + i]
<1>1. /\ dequeue_pos \in Nat /\ enqueue_pos \in Nat /\ dequeue_pos <= enqueue_pos
      /\ Len(claimed) = enqueue_pos /\ claimed \in Seq(Cmds \cup {NoCmd})
  BY DEF TypeOK, Safe, RingInv, CursorInv
<1>2. \A i \in 1 .. enqueue_pos - dequeue_pos : claimed[dequeue_pos + i] \in Cmds \cup {NoCmd}
  BY <1>1
<1>3. AbsQueue \in [1 .. enqueue_pos - dequeue_pos -> AbsEntry]
  BY <1>1, <1>2 DEF AbsQueue, AbsEntry
<1>4. AbsQueue \in Seq(AbsEntry) /\ Len(AbsQueue) = enqueue_pos - dequeue_pos
  BY <1>1, <1>3
<1> QED BY <1>1, <1>3, <1>4 DEF AbsQueue

(* Its shape after a step *)
LEMMA AbsShapeNext ==
    ASSUME TypeOK', Safe'
    PROVE  AbsQueue' \in Seq(AbsEntry) /\ Len(AbsQueue') = enqueue_pos' - dequeue_pos'
<1>1. /\ dequeue_pos' \in Nat /\ enqueue_pos' \in Nat /\ dequeue_pos' <= enqueue_pos'
      /\ Len(claimed') = enqueue_pos' /\ claimed' \in Seq(Cmds \cup {NoCmd})
  BY DEF TypeOK, Safe, RingInv, CursorInv
<1>2. /\ enqueue_pos' - dequeue_pos' \in Nat
      /\ \A i \in 1 .. enqueue_pos' - dequeue_pos' : claimed'[dequeue_pos' + i] \in Cmds \cup {NoCmd}
  BY <1>1, Slice
<1>3. AbsQueue' \in [1 .. enqueue_pos' - dequeue_pos' -> AbsEntry]
  BY <1>1, <1>2 DEF AbsQueue, AbsEntry
<1> QED BY <1>2, <1>3, IsSeq

(* Steps that leave the queue alone *)
LEMMA AbsSame ==
    ASSUME TypeOK, Safe, UNCHANGED <<enqueue_pos, dequeue_pos, claimed>>,
           \A n \in dequeue_pos .. enqueue_pos - 1 : seq'[Idx(n)] = seq[Idx(n)]
    PROVE  AbsQueue' = AbsQueue
<1>1. dequeue_pos \in Nat /\ enqueue_pos \in Nat
  BY DEF TypeOK
<1>2. \A i \in 1 .. enqueue_pos - dequeue_pos :
         seq'[Idx(dequeue_pos + i - 1)] = seq[Idx(dequeue_pos + i - 1)]
  <2> TAKE i \in 1 .. enqueue_pos - dequeue_pos
  <2>1. dequeue_pos + i - 1 \in dequeue_pos .. enqueue_pos - 1
    BY <1>1
  <2> QED BY <2>1
<1> QED BY <1>2 DEF AbsQueue

(* The compare-and-exchange of ring_enqueue is Claim. *)
LEMMA CasWinsClaims ==
    ASSUME TypeOK, TypeOK', Safe, Safe', Carries, NEW p \in Producers, EnqueueCasWins(p)
    PROVE  \E c \in Cmds : Queue!Claim(c)
<1>1. /\ pc[p] = "cas" /\ enqueue_pos = pos[p] /\ enqueue_pos' = enqueue_pos + 1
      /\ claimed' = Append(claimed, cmd[p]) /\ UNCHANGED <<seq, cell, dequeue_pos, lpc, lpos, out>>
  BY DEF EnqueueCasWins, loopVars
<1>2. /\ dequeue_pos \in Nat /\ enqueue_pos \in Nat /\ dequeue_pos <= enqueue_pos
      /\ Released \in Nat /\ Released <= dequeue_pos /\ Len(claimed) = enqueue_pos
      /\ claimed \in Seq(Cmds \cup {NoCmd}) /\ enqueue_pos < Released + Cap
  BY <1>1, Window DEF TypeOK, Safe, RingInv, CursorInv, PosterInv
<1>3. cmd[p] \in Cmds
  BY <1>1 DEF Carries
<1>4. enqueue_pos - dequeue_pos < Cap
  BY <1>2, CapAssumption
<1>5. seq[Idx(enqueue_pos)] = enqueue_pos
  <2>1. enqueue_pos \in enqueue_pos .. Released + Cap - 1
    BY <1>2, CapAssumption
  <2> QED BY <2>1 DEF Safe, RingInv, CellInv
<1>6. AbsQueue' = Append(AbsQueue, [cmd |-> cmd[p], published |-> FALSE])
  <2> DEFINE n == enqueue_pos - dequeue_pos
             e == [cmd |-> cmd[p], published |-> FALSE]
  <2>1. AbsQueue \in Seq(AbsEntry) /\ Len(AbsQueue) = n /\ e \in AbsEntry /\ n \in Nat
    BY <1>3, AbsShape DEF AbsEntry
  <2>2. AbsQueue' \in Seq(AbsEntry) /\ Len(AbsQueue') = n + 1
    BY <1>1, <1>2, AbsShapeNext
  <2>3. \A i \in 1 .. n : AbsQueue'[i] = AbsQueue[i]
    <3> TAKE i \in 1 .. n
    <3>1. i \in 1 .. n + 1 /\ dequeue_pos + i \in 1 .. Len(claimed) /\ enqueue_pos' - dequeue_pos' = n + 1
      BY <1>1, <1>2
    <3>2. claimed'[dequeue_pos + i] = claimed[dequeue_pos + i]
      BY <1>1, <1>2, <3>1
    <3> QED BY <1>1, <3>1, <3>2 DEF AbsQueue
  <2>4. AbsQueue'[n + 1] = e
    <3>1. n + 1 \in 1 .. n + 1 /\ enqueue_pos' - dequeue_pos' = n + 1 /\ dequeue_pos + (n + 1) = enqueue_pos + 1
      <4>1. enqueue_pos' = enqueue_pos + 1 /\ dequeue_pos' = dequeue_pos
        BY <1>1
      <4> QED BY <1>2, <4>1
    <3>2. claimed'[enqueue_pos + 1] = cmd[p] /\ dequeue_pos + (n + 1) - 1 = enqueue_pos
      BY <1>1, <1>2
    <3>3. seq'[Idx(enqueue_pos)] # enqueue_pos + 1
      BY <1>1, <1>2, <1>5
    <3> QED BY <1>1, <3>1, <3>2, <3>3 DEF AbsQueue
  <2> HIDE DEF n, e
  <2>5. AbsQueue' = Append(AbsQueue, e)
    BY <2>1, <2>2, <2>3, <2>4, IsAppend
  <2> QED BY <2>5 DEF e
<1>7. AbsOut' = AbsOut
  BY <1>1 DEF AbsOut
<1>8. Len(AbsQueue) < Cap
  BY <1>4, AbsShape
<1>9. PICK c \in Cmds : c = cmd[p]
  BY <1>3
<1>10. Queue!Claim(c)
  BY <1>6, <1>7, <1>8, <1>9 DEF Queue!Claim, AbsQueue, AbsOut
<1> QED BY <1>10

(* The release store of ring_enqueue is Publish. *)
LEMMA PublishPublishes ==
    ASSUME TypeOK, TypeOK', Safe, Safe', NEW p \in Producers, EnqueuePublish(p)
    PROVE  \E i \in DOMAIN AbsQueue : Queue!Publish(i)
<1> DEFINE n == enqueue_pos - dequeue_pos
           i == pos[p] - dequeue_pos + 1
<1>1. /\ Owns(p) /\ seq' = [seq EXCEPT ![Idx(pos[p])] = pos[p] + 1]
      /\ UNCHANGED <<cell, enqueue_pos, dequeue_pos, claimed, lpc, lpos, out>>
  BY DEF EnqueuePublish, Owns, loopVars, PublishedSeq
<1>2. /\ pos[p] \in Nat /\ dequeue_pos <= pos[p] /\ pos[p] < enqueue_pos /\ seq[Idx(pos[p])] = pos[p]
      /\ dequeue_pos \in Nat /\ enqueue_pos \in Nat /\ Idx(pos[p]) \in Slot
      /\ \A m \in dequeue_pos .. enqueue_pos - 1 : Idx(m) = Idx(pos[p]) => m = pos[p]
  BY <1>1, Window, OwnerCell DEF TypeOK
<1>3. i \in 1 .. n /\ n \in Nat
  BY <1>2
<1>4. /\ AbsQueue \in Seq(AbsEntry) /\ DOMAIN AbsQueue = 1 .. n
      /\ \A j \in 1 .. n : AbsQueue[j] = [cmd |-> claimed[dequeue_pos + j],
                               published |-> seq[Idx(dequeue_pos + j - 1)] = dequeue_pos + j]
  BY AbsShape
<1>5. \A j \in 1 .. n : AbsQueue'[j] = [cmd |-> claimed[dequeue_pos + j],
                               published |-> seq'[Idx(dequeue_pos + j - 1)] = dequeue_pos + j]
  BY <1>1 DEF AbsQueue
<1>6. \A j \in 1 .. n : j # i => AbsQueue'[j] = AbsQueue[j]
  <2> SUFFICES ASSUME NEW j \in 1 .. n, j # i PROVE AbsQueue'[j] = AbsQueue[j]
    OBVIOUS
  <2>1. dequeue_pos + j - 1 \in dequeue_pos .. enqueue_pos - 1 /\ dequeue_pos + j - 1 # pos[p]
    BY <1>2
  <2>2. Idx(dequeue_pos + j - 1) # Idx(pos[p])
    BY <1>2, <2>1
  <2>3. seq'[Idx(dequeue_pos + j - 1)] = seq[Idx(dequeue_pos + j - 1)]
    BY <1>1, <2>2 DEF TypeOK
  <2> QED BY <1>4, <1>5, <2>3
<1>7. ~ AbsQueue[i].published /\ AbsQueue'[i] = [AbsQueue[i] EXCEPT !.published = TRUE]
  <2>1. dequeue_pos + i - 1 = pos[p] /\ dequeue_pos + i = pos[p] + 1
    BY <1>2
  <2>2. seq'[Idx(pos[p])] = pos[p] + 1
    BY <1>1, <1>2 DEF TypeOK
  <2>3. AbsQueue[i] = [cmd |-> claimed[pos[p] + 1], published |-> FALSE]
    <3>1. AbsQueue[i] = [cmd |-> claimed[dequeue_pos + i],
                         published |-> seq[Idx(dequeue_pos + i - 1)] = dequeue_pos + i]
      <4> HIDE DEF i, n
      <4> QED BY <1>3, <1>4
    <3>2. (seq[Idx(pos[p])] = pos[p] + 1) = FALSE
      BY <1>2
    <3> HIDE DEF i
    <3> QED BY <2>1, <3>1, <3>2
  <2>4. AbsQueue'[i] = [cmd |-> claimed[pos[p] + 1], published |-> TRUE]
    BY <1>3, <1>5, <2>1, <2>2
  <2> HIDE DEF i
  <2> QED BY <2>3, <2>4, EntryPublished
<1>8. AbsQueue' = [AbsQueue EXCEPT ![i] = [AbsQueue[i] EXCEPT !.published = TRUE]]
  <2>1. AbsQueue' = [j \in 1 .. n |-> AbsQueue'[j]]
    BY <1>1 DEF AbsQueue
  <2> HIDE DEF i, n
  <2> QED BY <1>3, <1>4, <1>6, <1>7, <2>1
<1>9. AbsOut' = AbsOut
  BY <1>1 DEF AbsOut
<1>10. PICK k \in DOMAIN AbsQueue : k = i
  BY <1>3, <1>4
<1> HIDE DEF i, n
<1>11. Queue!Publish(k)
  BY <1>7, <1>8, <1>9, <1>10 DEF Queue!Publish, AbsQueue, AbsOut
<1> QED BY <1>11

(* The compare-and-exchange of ring_dequeue is Take. *)
LEMMA CasWinsTakes ==
    ASSUME TypeOK, TypeOK', Safe, Safe', DequeueCasWins
    PROVE  Queue!Take
<1>1. /\ lpc = "cas" /\ dequeue_pos = lpos /\ dequeue_pos' = dequeue_pos + 1 /\ lpc' = "copy"
      /\ UNCHANGED <<seq, cell, enqueue_pos, claimed, lpos, out>>
  BY DEF DequeueCasWins
<1>2. /\ dequeue_pos \in Nat /\ enqueue_pos \in Nat /\ dequeue_pos <= enqueue_pos
      /\ Released = dequeue_pos /\ seq[Idx(dequeue_pos)] = dequeue_pos + 1
  BY <1>1, Window DEF TypeOK, Safe, RingInv, CursorInv, PublishedSeq
<1>3. dequeue_pos < enqueue_pos
  <2> SUFFICES ASSUME dequeue_pos = enqueue_pos PROVE FALSE
    BY <1>2
  <2>1. dequeue_pos \in enqueue_pos .. Released + Cap - 1
    BY <1>2, CapAssumption
  <2>2. seq[Idx(dequeue_pos)] = dequeue_pos
    BY <2>1 DEF Safe, RingInv, CellInv
  <2> QED BY <1>2, <2>2
<1>4. cell[Idx(dequeue_pos)] = claimed[dequeue_pos + 1]
  <2>1. dequeue_pos \in dequeue_pos .. enqueue_pos - 1
    BY <1>2, <1>3
  <2>2. seq[Idx(dequeue_pos)] # dequeue_pos
    BY <1>2
  <2> QED BY <2>1, <2>2 DEF Safe, RingInv, CellInv
<1> DEFINE n == enqueue_pos - dequeue_pos
<1>5. /\ AbsQueue \in Seq(AbsEntry) /\ Len(AbsQueue) = n /\ n \in Nat \ {0}
      /\ \A i \in 1 .. n : AbsQueue[i] = [cmd |-> claimed[dequeue_pos + i],
                               published |-> seq[Idx(dequeue_pos + i - 1)] = dequeue_pos + i]
  <2>1. n \in Nat \ {0}
    BY <1>2, <1>3
  <2> HIDE DEF n
  <2> QED BY <2>1, AbsShape DEF n
<1>6. AbsQueue[1] = [cmd |-> claimed[dequeue_pos + 1], published |-> TRUE] /\ AbsQueue # <<>>
  <2>1. 1 \in 1 .. n /\ dequeue_pos + 1 - 1 = dequeue_pos
    BY <1>2, <1>5
  <2> QED BY <1>2, <1>5, <2>1
<1>7. AbsQueue' = Tail(AbsQueue)
  <2>1. AbsQueue' \in Seq(AbsEntry) /\ Len(AbsQueue') = n - 1
    BY <1>1, <1>2, AbsShapeNext
  <2>2. \A i \in 1 .. n - 1 : AbsQueue'[i] = AbsQueue[i + 1]
    <3> TAKE i \in 1 .. n - 1
    <3>1. i + 1 \in 1 .. n /\ dequeue_pos + (i + 1) = (dequeue_pos + 1) + i
          /\ dequeue_pos + (i + 1) - 1 = (dequeue_pos + 1) + i - 1 /\ enqueue_pos' - dequeue_pos' = n - 1
      BY <1>1, <1>2, <1>5
    <3> QED BY <1>1, <1>5, <3>1 DEF AbsQueue
  <2> HIDE DEF n
  <2> QED BY <1>5, <1>6, <2>1, <2>2, IsTail
<1>8. AbsOut' = Head(AbsQueue).cmd /\ Head(AbsQueue).published
  <2>1. AbsOut' = cell[Idx(dequeue_pos)]
    BY <1>1 DEF AbsOut
  <2>2. Head(AbsQueue) = AbsQueue[1]
    BY <1>5, <1>6
  <2> QED BY <1>4, <1>6, <2>1, <2>2
<1> QED BY <1>6, <1>7, <1>8 DEF Queue!Take, AbsQueue, AbsOut

(* The ring of cells, cursors and racing posters implements CmdQueue: the   *)
(* abstract queue orders commands by the compare-and-exchange that claims   *)
(* their place, shows a command once its poster has stored the cell's seq,  *)
(* and hands it out at the compare-and-exchange of ring_dequeue.            *)
THEOREM RingImplementsQueue == Spec => ImplementsCmdQueue
<1> DEFINE I == TypeOK /\ Safe /\ Carries
           AbsStep == Queue!Next \/ (AbsQueue' = AbsQueue /\ AbsOut' = AbsOut)
<1>1. Init => Queue!Init
  <2> SUFFICES ASSUME Init PROVE Queue!Init
    OBVIOUS
  <2>1. AbsQueue = <<>> /\ AbsOut = NoCmd
    BY DEF Init, AbsQueue, AbsOut
  <2> QED BY <2>1 DEF Queue!Init, AbsQueue, AbsOut
<1>2. I /\ I' /\ [Next]_vars => AbsStep
  <2> SUFFICES ASSUME TypeOK, Safe, Carries, TypeOK', Safe', [Next]_vars PROVE AbsStep
    OBVIOUS
  <2>0. ASSUME UNCHANGED <<seq, enqueue_pos, dequeue_pos, claimed>> PROVE AbsQueue' = AbsQueue
    BY <2>0, AbsSame
  <2>1. ASSUME NEW p \in Producers, EnqueueCasWins(p) PROVE AbsStep
    BY <2>1, CasWinsClaims DEF Queue!Next
  <2>2. ASSUME NEW p \in Producers, EnqueuePublish(p) PROVE AbsStep
    BY <2>2, PublishPublishes DEF Queue!Next, AbsQueue
  <2>3. ASSUME NEW p \in Producers, EnqueueWrite(p) PROVE AbsStep
    <3>1. Owns(p) /\ cell' = [cell EXCEPT ![Idx(pos[p])] = cmd[p]] /\ UNCHANGED <<lpc, lpos, out>>
      BY <2>3 DEF EnqueueWrite, Owns, loopVars
    <3>2. lpc = "copy" => cell'[Idx(lpos)] = cell[Idx(lpos)]
      BY <3>1, OwnerCell DEF TypeOK
    <3>3. AbsOut' = AbsOut
      BY <3>1, <3>2 DEF AbsOut
    <3> QED BY <2>0, <2>3, <3>3 DEF EnqueueWrite
  <2>4. ASSUME NEW p \in Producers,
               PostCmd(p) \/ EnqueueLoad(p) \/ EnqueueSeesFree(p) \/ EnqueueSeesTaken(p)
               \/ EnqueueFullRetry(p) \/ EnqueueRefused(p) \/ EnqueueCasFails(p) \/ PostPoke(p)
        PROVE  AbsStep
    BY <2>0, <2>4 DEF PostCmd, EnqueueLoad, EnqueueSeesFree, EnqueueSeesTaken, EnqueueFullRetry,
           EnqueueRefused, EnqueueCasFails, PostPoke, ringVars, loopVars, AbsOut
  <2>5. CASE DequeueCasWins
    BY <2>5, CasWinsTakes DEF Queue!Next
  <2>6. CASE DequeueCopy
    BY <2>0, <2>6 DEF DequeueCopy, ringVars, AbsOut
  <2>7. CASE DequeueRelease
    <3>1. /\ lpc = "release" /\ lpc' = "check" /\ seq' = [seq EXCEPT ![Idx(lpos)] = ReleasedSeq(lpos)]
          /\ UNCHANGED <<enqueue_pos, dequeue_pos, claimed, out>>
      BY <2>7 DEF DequeueRelease
    <3>2. /\ lpos = Released /\ dequeue_pos = Released + 1 /\ Released \in Nat
          /\ enqueue_pos <= Released + Cap /\ enqueue_pos \in Nat
      BY <3>1, Window DEF TypeOK
    <3>3. \A n \in dequeue_pos .. enqueue_pos - 1 : seq'[Idx(n)] = seq[Idx(n)]
      <4> TAKE n \in dequeue_pos .. enqueue_pos - 1
      <4>1. n \in Nat /\ lpos \in Nat /\ lpos < n /\ n < lpos + Cap
        BY <3>2, CapAssumption
      <4>2. Idx(n) # Idx(lpos)
        BY <4>1, IdxDistinct
      <4> QED BY <3>1, <4>2 DEF TypeOK
    <3>4. AbsQueue' = AbsQueue
      BY <3>1, <3>3, AbsSame
    <3> QED BY <3>1, <3>4 DEF AbsOut
  <2>8. CASE LoopSeesEventfd \/ DrainRead \/ DrainReadEmpty \/ DequeueSeesCmd \/ DequeueSeesEmpty \/ DequeueCasFails
    BY <2>0, <2>8 DEF LoopSeesEventfd, DrainRead, DrainReadEmpty, DequeueSeesCmd, DequeueSeesEmpty,
           DequeueCasFails, ringVars, loopVars, AbsOut
  <2>9. CASE UNCHANGED vars
    BY <2>0, <2>9 DEF vars, ringVars, loopVars, AbsOut
  <2> HIDE DEF AbsStep
  <2> QED BY <2>1, <2>2, <2>3, <2>4, <2>5, <2>6, <2>7, <2>8, <2>9 DEF Next, Poster, LoopStep
<1>3. AbsStep => [Queue!Next]_(Queue!vars)
  BY DEF Queue!vars, AbsQueue, AbsOut
<1>4. IInv => TypeOK /\ Safe
  BY DEF IInv, Safe
<1> QED BY <1>1, <1>2, <1>3, <1>4, InductiveInvariant, CarriesInvariant, PTL
        DEF Spec, ImplementsCmdQueue, Queue!Spec
=============================================================================
