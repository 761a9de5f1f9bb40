----------------------------- MODULE WsEchoProofs -----------------------------
(***************************************************************************)
(* The echo server, for any number of connections, any clients and any     *)
(* lengths: nothing leaks, no buffer is written past its end, and what a   *)
(* client is told is what the reference says it is owed.                   *)
(*                                                                         *)
(* The first invariant, IInv, is about descriptors and memory.  The second *)
(* one, AllTold, places every connection in the stream its client sends:   *)
(* what it holds and what it has not read is what follows that place, what *)
(* it has written answers the frames before it.                            *)
(***************************************************************************)
EXTENDS WsEcho, SequenceTheorems, NaturalsInduction, WellFoundedInduction, TLAPS

-----------------------------------------------------------------------------
(* Sequences of sequences, joined *)

(* A set of numbers that is not empty has a least element.                  *)
LEMMA Least ==
    ASSUME NEW S \in SUBSET Nat, S # {}
    PROVE  \E m \in S : \A k \in S : m <= k
<1>1. PICK m \in S : \A k \in S : <<k, m>> \notin OpToRel(<, Nat)
  BY NatLessThanWellFounded, WFMin
<1>2. \A k \in S : ~ (k < m)
  BY <1>1 DEF OpToRel
<1> QED BY <1>2

(* ... and the number before that is not in the set.                        *)
LEMMA First ==
    ASSUME NEW S \in SUBSET Nat, S # {}
    PROVE  \E m \in S : m \in Nat /\ (m # 0 => m - 1 \in Nat /\ m - 1 \notin S)
<1>1. PICK m \in S : \A k \in S : m <= k
  BY Least
<1>2. m \in Nat
  OBVIOUS
<1>3. m - 1 \notin S
  BY <1>1, <1>2
<1> QED BY <1>2, <1>3

(* The first i of ss, joined *)
Joined(ss, i) == FlattenSeq([j \in 1 .. i |-> ss[j]])

(* g is the function that FlattenSeq defines, up to n. *)
Joins(ss, n, g) == g = [i \in 1 .. n |-> IF i = 1 THEN ss[i] ELSE g[i - 1] \o ss[i]]

(* There is one, *)
LEMMA JoinsExist ==
    ASSUME NEW ss
    PROVE  \A n \in Nat : \E g : Joins(ss, n, g)
<1> DEFINE W == {n \in Nat : ~ \E g : Joins(ss, n, g)}
<1> SUFFICES ASSUME W # {} PROVE FALSE
  OBVIOUS
<1>1. PICK m \in W : \A k \in W : m <= k
  BY Least
<1>2. CASE m = 0
  <2> DEFINE g == [i \in 1 .. 0 |-> 0]
  <2>1. Joins(ss, 0, g)
    BY DEF Joins
  <2> QED BY <1>2, <2>1
<1>3. CASE m # 0
  <2>1. m - 1 \in Nat /\ m - 1 \notin W
    BY <1>1, <1>3
  <2>2. PICK h : Joins(ss, m - 1, h)
    BY <2>1
  <2> DEFINE last == IF m = 1 THEN ss[1] ELSE h[m - 1] \o ss[m]
             g == [i \in 1 .. m |-> IF i = m THEN last ELSE h[i]]
  <2>3. \A i \in 1 .. m - 1 : h[i] = IF i = 1 THEN ss[i] ELSE h[i - 1] \o ss[i]
    BY <2>2 DEF Joins
  <2>4. \A i \in 1 .. m : g[i] = IF i = 1 THEN ss[i] ELSE g[i - 1] \o ss[i]
    BY <1>3, <2>3
  <2>5. Joins(ss, m, g)
    BY <2>4 DEF Joins
  <2> QED BY <2>5
<1> QED BY <1>2, <1>3

(* and but one. *)
LEMMA JoinsUnique ==
    ASSUME NEW ss, NEW m \in Nat, NEW n \in Nat, m <= n, NEW g, NEW h,
           Joins(ss, m, g), Joins(ss, n, h)
    PROVE  \A i \in 1 .. m : g[i] = h[i]
<1> DEFINE W == {i \in 1 .. m : g[i] # h[i]}
<1> SUFFICES ASSUME W # {} PROVE FALSE
  OBVIOUS
<1>0. W \in SUBSET Nat
  OBVIOUS
<1>1. PICK k \in W : \A i \in W : k <= i
  <2> HIDE DEF W
  <2> QED BY <1>0, Least
<1>2. k \in 1 .. m /\ k \in 1 .. n /\ g[k] # h[k]
  OBVIOUS
<1>3. /\ g[k] = IF k = 1 THEN ss[k] ELSE g[k - 1] \o ss[k]
      /\ h[k] = IF k = 1 THEN ss[k] ELSE h[k - 1] \o ss[k]
  BY <1>2 DEF Joins
<1>4. k # 1 => g[k - 1] = h[k - 1]
  <2> SUFFICES ASSUME k # 1, g[k - 1] # h[k - 1] PROVE FALSE
    OBVIOUS
  <2>1. k - 1 \in W
    BY <1>2
  <2> QED BY <1>1, <1>2, <2>1
<1> QED BY <1>2, <1>3, <1>4

(* FlattenSeq computes what any such function does. *)
LEMMA JoinedIs ==
    ASSUME NEW ss, NEW n \in Nat \ {0}, NEW g, Joins(ss, n, g)
    PROVE  Joined(ss, n) = g[n]
<1> DEFINE t == [j \in 1 .. n |-> ss[j]]
           f == CHOOSE f : f = [i \in 1 .. n |-> IF i = 1 THEN t[i] ELSE f[i - 1] \o t[i]]
<1>1. Len(t) = n
  OBVIOUS
<1>2. FlattenSeq(t) = f[n]
  BY <1>1 DEF FlattenSeq
<1>3. g = [i \in 1 .. n |-> IF i = 1 THEN t[i] ELSE g[i - 1] \o t[i]]
  BY DEF Joins
<1>4. f = [i \in 1 .. n |-> IF i = 1 THEN t[i] ELSE f[i - 1] \o t[i]]
  BY <1>3
<1> HIDE DEF f
<1>5. Joins(ss, n, f)
  BY <1>4 DEF Joins
<1>6. g[n] = f[n]
  BY <1>5, JoinsUnique
<1> QED BY <1>2, <1>6 DEF Joined

(* Joined one by one. *)
LEMMA JoinedOne ==
    ASSUME NEW ss
    PROVE  /\ Joined(ss, 0) = <<>>
           /\ Joined(ss, 1) = ss[1]
           /\ \A i \in Nat \ {0} : Joined(ss, i + 1) = Joined(ss, i) \o ss[i + 1]
<1>1. Joined(ss, 0) = <<>>
  BY DEF Joined, FlattenSeq
<1>2. Joined(ss, 1) = ss[1]
  <2>1. PICK g : Joins(ss, 1, g)
    BY JoinsExist
  <2>2. Joined(ss, 1) = g[1] /\ g[1] = ss[1]
    <3>1. Joined(ss, 1) = g[1]
      BY <2>1, JoinedIs
    <3>2. g[1] = ss[1]
      BY <2>1 DEF Joins
    <3> QED BY <3>1, <3>2
  <2> QED BY <2>2
<1>3. ASSUME NEW i \in Nat \ {0}
      PROVE  Joined(ss, i + 1) = Joined(ss, i) \o ss[i + 1]
  <2>1. PICK g : Joins(ss, i + 1, g)
    BY JoinsExist
  <2>2. PICK h : Joins(ss, i, h)
    BY JoinsExist
  <2>3. Joined(ss, i + 1) = g[i + 1] /\ Joined(ss, i) = h[i]
    BY <2>1, <2>2, JoinedIs
  <2>4. \A j \in 1 .. i : h[j] = g[j]
    BY <2>1, <2>2, JoinsUnique
  <2>5. g[i + 1] = g[i] \o ss[i + 1]
    <3>1. i + 1 \in 1 .. i + 1 /\ i + 1 # 1 /\ (i + 1) - 1 = i
      OBVIOUS
    <3>2. g[i + 1] = g[(i + 1) - 1] \o ss[i + 1]
      BY <2>1, <3>1 DEF Joins
    <3> QED BY <3>1, <3>2
  <2>6. h[i] = g[i]
    BY <2>4
  <2> QED BY <2>3, <2>5, <2>6
<1> QED BY <1>1, <1>2, <1>3

(* Joining is associative. *)
LEMMA Assoc ==
    ASSUME NEW T, NEW x \in Seq(T), NEW y \in Seq(T), NEW z \in Seq(T)
    PROVE  (x \o y) \o z = x \o (y \o z)
BY ConcatAssociative

(* Sequences of cells, joined *)
LEMMA JoinedSeq ==
    ASSUME NEW T, NEW ss, NEW n \in Nat, \A j \in 1 .. n : ss[j] \in Seq(T)
    PROVE  /\ \A i \in 0 .. n : Joined(ss, i) \in Seq(T)
           /\ \A i \in 0 .. n - 1 : Joined(ss, i + 1) = Joined(ss, i) \o ss[i + 1]
<1>1. \A i \in 0 .. n : Joined(ss, i) \in Seq(T)
  <2> DEFINE W == {i \in 0 .. n : Joined(ss, i) \notin Seq(T)}
  <2> SUFFICES ASSUME W # {} PROVE FALSE
    OBVIOUS
  <2>1. W \in SUBSET Nat
    OBVIOUS
  <2>2. PICK m \in W : m \in Nat /\ (m # 0 => m - 1 \in Nat /\ m - 1 \notin W)
    <3> HIDE DEF W
    <3> QED BY <2>1, First
  <2>3. m \in 0 .. n /\ Joined(ss, m) \notin Seq(T)
    OBVIOUS
  <2>4. m # 0
    <3>1. Joined(ss, 0) = <<>> /\ <<>> \in Seq(T)
      BY JoinedOne, EmptySeq
    <3> HIDE DEF W
    <3> QED BY <2>3, <3>1
  <2>5. m # 1
    <3>1. Joined(ss, 1) = ss[1]
      BY JoinedOne
    <3>2. m = 1 => ss[1] \in Seq(T)
      BY <2>3
    <3> HIDE DEF W
    <3> QED BY <2>3, <3>1, <3>2
  <2>6. m - 1 \in Nat \ {0} /\ m - 1 \in 0 .. n /\ m \in 1 .. n
    BY <2>2, <2>3, <2>4, <2>5
  <2>7. Joined(ss, m - 1) \in Seq(T) /\ ss[m] \in Seq(T)
    BY <2>2, <2>4, <2>6
  <2>8. Joined(ss, (m - 1) + 1) = Joined(ss, m - 1) \o ss[(m - 1) + 1]
    BY <2>6, JoinedOne
  <2>9. (m - 1) + 1 = m
    BY <2>3
  <2>10. Joined(ss, m) = Joined(ss, m - 1) \o ss[m]
    BY <2>8, <2>9
  <2>11. Joined(ss, m) \in Seq(T)
    BY <2>7, <2>10, ConcatProperties
  <2> QED BY <2>3, <2>11
<1>2. ASSUME NEW i \in 0 .. n - 1
      PROVE  Joined(ss, i + 1) = Joined(ss, i) \o ss[i + 1]
  <2>1. CASE i = 0
    <3>1. ss[1] \in Seq(T) /\ <<>> \o ss[1] = ss[1]
      BY <2>1, ConcatEmptySeq
    <3>2. i + 1 = 1
      BY <2>1
    <3>3. Joined(ss, 1) = <<>> \o ss[1] /\ Joined(ss, i) = <<>>
      BY <2>1, <3>1, JoinedOne
    <3> QED BY <3>2, <3>3
  <2>2. CASE i # 0
    BY <2>2, JoinedOne
  <2> QED BY <2>1, <2>2
<1> QED BY <1>1, <1>2

(* Only what is joined matters. *)
LEMMA JoinedLocal ==
    ASSUME NEW ss, NEW tt, NEW i \in Nat, \A j \in 1 .. i : ss[j] = tt[j]
    PROVE  Joined(ss, i) = Joined(tt, i)
<1>1. [j \in 1 .. i |-> ss[j]] = [j \in 1 .. i |-> tt[j]]
  OBVIOUS
<1> QED BY <1>1 DEF Joined

(* A sequence of sequences joined is all of its members joined.             *)
LEMMA FlattenIsJoined ==
    ASSUME NEW n \in Nat, NEW ss, ss = [j \in 1 .. n |-> ss[j]]
    PROVE  FlattenSeq(ss) = Joined(ss, n)
BY DEF Joined

(* Sequence t of members of T begins with s. *)
Begins(T, s, t) == \E u \in Seq(T) : t = s \o u

(* More of them begins with fewer of them. *)
LEMMA JoinedPrefix ==
    ASSUME NEW T, NEW ss, NEW n \in Nat, \A j \in 1 .. n : ss[j] \in Seq(T)
    PROVE  \A i \in 0 .. n : Begins(T, Joined(ss, i), Joined(ss, n))
<1> SUFFICES ASSUME NEW i \in 0 .. n
             PROVE  Begins(T, Joined(ss, i), Joined(ss, n))
  OBVIOUS
<1> DEFINE W == {m \in i .. n : ~ Begins(T, Joined(ss, i), Joined(ss, m))}
<1> SUFFICES ASSUME W # {} PROVE FALSE
  OBVIOUS
<1>1. W \in SUBSET Nat
  OBVIOUS
<1>2. PICK m \in W : m \in Nat /\ (m # 0 => m - 1 \in Nat /\ m - 1 \notin W)
  <2> HIDE DEF W
  <2> QED BY <1>1, First
<1>3. /\ \A k \in 0 .. n : Joined(ss, k) \in Seq(T)
      /\ \A k \in 0 .. n - 1 : Joined(ss, k + 1) = Joined(ss, k) \o ss[k + 1]
  BY JoinedSeq
<1>4. m # i
  <2>1. Joined(ss, i) = Joined(ss, i) \o <<>> /\ <<>> \in Seq(T)
    BY <1>3, ConcatEmptySeq, EmptySeq
  <2> QED BY <2>1 DEF Begins
<1>5. m \in i .. n /\ i \in Nat /\ m # 0
  BY <1>4
<1>6. m - 1 \in i .. n /\ m - 1 \in 0 .. n - 1 /\ (m - 1) + 1 = m
  BY <1>4, <1>5
<1>7. m - 1 \notin W
  BY <1>2, <1>5
<1>8. PICK u \in Seq(T) : Joined(ss, m - 1) = Joined(ss, i) \o u
  BY <1>6, <1>7 DEF Begins
<1>9. Joined(ss, m) = Joined(ss, m - 1) \o ss[m] /\ ss[m] \in Seq(T)
  <2>1. ss[m] \in Seq(T)
    BY <1>5
  <2>2. Joined(ss, (m - 1) + 1) = Joined(ss, m - 1) \o ss[(m - 1) + 1]
    BY <1>3, <1>6
  <2> QED BY <1>6, <2>1, <2>2
<1>10. Begins(T, Joined(ss, i), Joined(ss, m))
  <2> DEFINE a == Joined(ss, i)
             b == ss[m]
  <2>1. a \in Seq(T) /\ b \in Seq(T) /\ Joined(ss, m) = (a \o u) \o b
    BY <1>3, <1>8, <1>9
  <2> HIDE DEF W, a, b
  <2>2. (a \o u) \o b = a \o (u \o b) /\ u \o b \in Seq(T)
    BY <2>1, Assoc, ConcatProperties
  <2>3. Joined(ss, m) = a \o (u \o b)
    BY <2>1, <2>2
  <2>4. Begins(T, a, Joined(ss, m))
    BY <2>2, <2>3 DEF Begins
  <2> QED BY <2>4 DEF a
<1> QED BY <1>10

(* Empty ones add nothing. *)
LEMMA JoinedEmpty ==
    ASSUME NEW T, NEW ss, NEW n \in Nat, \A j \in 1 .. n : ss[j] \in Seq(T), NEW i \in 0 .. n,
           \A j \in i + 1 .. n : ss[j] = <<>>
    PROVE  Joined(ss, n) = Joined(ss, i)
<1> DEFINE W == {m \in i .. n : Joined(ss, m) # Joined(ss, i)}
<1> SUFFICES ASSUME W # {} PROVE FALSE
  OBVIOUS
<1>1. W \in SUBSET Nat
  OBVIOUS
<1>2. PICK m \in W : m \in Nat /\ (m # 0 => m - 1 \in Nat /\ m - 1 \notin W)
  <2> HIDE DEF W
  <2> QED BY <1>1, First
<1>3. /\ \A k \in 0 .. n : Joined(ss, k) \in Seq(T)
      /\ \A k \in 0 .. n - 1 : Joined(ss, k + 1) = Joined(ss, k) \o ss[k + 1]
  BY JoinedSeq
<1>4. m # i
  OBVIOUS
<1>5. m \in i .. n /\ i \in Nat /\ m # 0
  BY <1>4
<1>6. m - 1 \in i .. n /\ m - 1 \in 0 .. n - 1 /\ (m - 1) + 1 = m
  BY <1>4, <1>5
<1>7. m - 1 \notin W
  BY <1>2, <1>5
<1>8. Joined(ss, m - 1) = Joined(ss, i)
  BY <1>6, <1>7
<1>9. ss[m] = <<>>
  BY <1>4, <1>5
<1>10. Joined(ss, m) = Joined(ss, m - 1) \o ss[m]
  <2>1. Joined(ss, (m - 1) + 1) = Joined(ss, m - 1) \o ss[(m - 1) + 1]
    BY <1>3, <1>6
  <2> QED BY <1>6, <2>1
<1>11. Joined(ss, m) = Joined(ss, i)
  BY <1>3, <1>8, <1>9, <1>10, ConcatEmptySeq
<1> QED BY <1>11

(* The next one after i of n follows them, and its cells are there.         *)
Follows(ss, i, n) ==
    /\ Len(Joined(ss, i + 1)) = Len(Joined(ss, i)) + Len(ss[i + 1])
    /\ Len(Joined(ss, i + 1)) <= Len(Joined(ss, n))
    /\ \A j \in 1 .. Len(ss[i + 1]) :
          Joined(ss, n)[Len(Joined(ss, i)) + j] = ss[i + 1][j]

(* Where the cells of one lie in all of them *)
LEMMA JoinedPlaces ==
    ASSUME NEW T, NEW ss, NEW n \in Nat, \A j \in 1 .. n : ss[j] \in Seq(T)
    PROVE  \A i \in 0 .. n - 1 : Follows(ss, i, n)
<1> SUFFICES ASSUME NEW i \in 0 .. n - 1
             PROVE  Follows(ss, i, n)
  OBVIOUS
<1>1. /\ \A k \in 0 .. n : Joined(ss, k) \in Seq(T)
      /\ \A k \in 0 .. n - 1 : Joined(ss, k + 1) = Joined(ss, k) \o ss[k + 1]
  BY JoinedSeq
<1>3. Begins(T, Joined(ss, i + 1), Joined(ss, n))
  <2>1. i + 1 \in 0 .. n
    OBVIOUS
  <2> QED BY <2>1, JoinedPrefix
<1> DEFINE a == Joined(ss, i)
           b == ss[i + 1]
<1>2. a \in Seq(T) /\ b \in Seq(T) /\ Joined(ss, i + 1) = a \o b
  BY <1>1
<1> HIDE DEF a, b
<1>10. PICK u \in Seq(T) : Joined(ss, n) = Joined(ss, i + 1) \o u
  BY <1>3 DEF Begins
<1>4. /\ a \o b \in Seq(T) /\ Len(a \o b) = Len(a) + Len(b)
      /\ \A j \in 1 .. Len(a) + Len(b) : (a \o b)[j] = IF j <= Len(a) THEN a[j] ELSE b[j - Len(a)]
  BY <1>2, ConcatProperties
<1>5. /\ Len((a \o b) \o u) = Len(a \o b) + Len(u)
      /\ \A j \in 1 .. Len(a \o b) + Len(u) :
            ((a \o b) \o u)[j] = IF j <= Len(a \o b) THEN (a \o b)[j] ELSE u[j - Len(a \o b)]
  BY <1>10, <1>4, ConcatProperties
<1>6. Len(a) \in Nat /\ Len(b) \in Nat /\ Len(u) \in Nat
  BY <1>2, <1>10, LenProperties
<1>7. \A j \in 1 .. Len(b) : ((a \o b) \o u)[Len(a) + j] = b[j]
  <2> SUFFICES ASSUME NEW j \in 1 .. Len(b) PROVE ((a \o b) \o u)[Len(a) + j] = b[j]
    OBVIOUS
  <2>1. /\ Len(a) + j \in 1 .. Len(a) + Len(b) /\ Len(a) + j \in 1 .. Len(a \o b) + Len(u)
        /\ ~ (Len(a) + j <= Len(a)) /\ Len(a) + j <= Len(a \o b) /\ (Len(a) + j) - Len(a) = j
    BY <1>4, <1>6
  <2> QED BY <1>4, <1>5, <2>1
<1>8. Len(a \o b) <= Len((a \o b) \o u)
  BY <1>4, <1>5, <1>6
<1>9. /\ Len(Joined(ss, i + 1)) = Len(a) + Len(b)
      /\ Len(Joined(ss, i + 1)) <= Len(Joined(ss, n))
      /\ \A j \in 1 .. Len(b) : Joined(ss, n)[Len(a) + j] = b[j]
  BY <1>2, <1>10, <1>4, <1>7, <1>8
<1> QED BY <1>9 DEF a, b, Follows

-----------------------------------------------------------------------------
(* Cells and frames on the wire *)

(* The strings, those the server writes by name among them, what a cell can *)
(* hold, and the cells                                                      *)
Words == STRING \cup {"b0", "b1", "ext", "key", "byte", "code", "frame", "http", "CLOSE", "PONG"}
Values ==
    Nat \cup [fin : BOOLEAN, op : Words, rsv : BOOLEAN] \cup [masked : BOOLEAN, n : Nat]
        \cup [op : Words, form : {7, 16, 64}, n : Nat]
Cells == [k : Words, v : Values]

(* The size of the length fields of a frame *)
HdrSize(f) == IF f.form = 7 THEN 2 ELSE 3

(* Joined to a sequence, the cells of another follow. *)
LEMMA Cat ==
    ASSUME NEW T, NEW a \in Seq(T), NEW b \in Seq(T)
    PROVE  /\ a \o b \in Seq(T)
           /\ Len(a) \in Nat /\ Len(b) \in Nat
           /\ Len(a \o b) = Len(a) + Len(b)
           /\ \A j \in 1 .. Len(a) : (a \o b)[j] = a[j]
           /\ \A j \in 1 .. Len(b) : (a \o b)[Len(a) + j] = b[j]
OBVIOUS

(* The constants, one by one.                                               *)
LEMMA Constants ==
    /\ SmallMax \in Nat /\ MediumMax \in Nat /\ MaxPayload \in Nat /\ TopBit \in Nat
    /\ MaxRequest \in Nat
    /\ 0 < SmallMax /\ SmallMax < MediumMax /\ MediumMax < MaxPayload /\ MaxPayload < TopBit
    /\ MaxRequest > 1
    /\ N16 = SmallMax + 1 /\ N64 = SmallMax + 2
BY ConstantsAssumption DEF N16, N64

(* Every cell there is *)
LEMMA CellsAre ==
    /\ \A x \in Words, v \in Values : Cell(x, v) \in Cells
    /\ \A n \in Nat : n \in Values
    /\ \A fin, rsv \in BOOLEAN, op \in Words : [fin |-> fin, op |-> op, rsv |-> rsv] \in Values
    /\ \A masked \in BOOLEAN, n \in Nat : [masked |-> masked, n |-> n] \in Values
    /\ \A op \in Words, form \in {7, 16, 64}, n \in Nat :
          [op |-> op, form |-> form, n |-> n] \in Values
    /\ STRING \subseteq Words
    /\ "b0" \in Words /\ "b1" \in Words /\ "ext" \in Words /\ "key" \in Words
    /\ "byte" \in Words /\ "code" \in Words /\ "frame" \in Words /\ "http" \in Words
    /\ "CLOSE" \in Words /\ "PONG" \in Words
<1>1. \A x \in Words, v \in Values : Cell(x, v) \in Cells
  BY DEF Cell, Cells
<1>2. \A n \in Nat : n \in Values
  BY DEF Values
<1>3. \A fin, rsv \in BOOLEAN, op \in Words : [fin |-> fin, op |-> op, rsv |-> rsv] \in Values
  BY DEF Values
<1>4. \A masked \in BOOLEAN, n \in Nat : [masked |-> masked, n |-> n] \in Values
  BY DEF Values
<1>5. \A op \in Words, form \in {7, 16, 64}, n \in Nat :
         [op |-> op, form |-> form, n |-> n] \in Values
  BY DEF Values
<1>6. /\ STRING \subseteq Words
      /\ "b0" \in Words /\ "b1" \in Words /\ "ext" \in Words /\ "key" \in Words
      /\ "byte" \in Words /\ "code" \in Words /\ "frame" \in Words /\ "http" \in Words
      /\ "CLOSE" \in Words /\ "PONG" \in Words
  BY DEF Words
<1> QED BY <1>1, <1>2, <1>3, <1>4, <1>5, <1>6

(* Bits of a payload *)
LEMMA BitsAre ==
    ASSUME NEW s \in Seq(Nat)
    PROVE  /\ Bits(s) \in Seq(Cells) /\ Len(Bits(s)) = Len(s)
           /\ \A j \in 1 .. Len(s) : Bits(s)[j] = Cell("byte", s[j])
<1>1. \A j \in 1 .. Len(s) : Cell("byte", s[j]) \in Cells
  BY CellsAre
<1>2. Bits(s) = [i \in 1 .. Len(s) |-> Cell("byte", s[i])]
  BY DEF Bits
<1> HIDE DEF Cells
<1>3. [i \in 1 .. Len(s) |-> Cell("byte", s[i])] \in [1 .. Len(s) -> Cells]
  BY <1>1
<1> QED BY <1>2, <1>3

(* Where the fields of a frame are *)
LEMMA FrameBytesAre ==
    ASSUME NEW f \in Frames
    PROVE  /\ FrameBytes(f) \in Seq(Cells) /\ Len(FrameBytes(f)) >= 2
           /\ FrameBytes(f)[1] = Cell("b0", [fin |-> f.fin, op |-> f.op, rsv |-> f.rsv])
           /\ FrameBytes(f)[2] = Cell("b1", [masked |-> f.masked,
                                             n |-> IF f.form = 7 THEN f.len
                                                   ELSE IF f.form = 16 THEN N16 ELSE N64])
           /\ f.form # 7 => /\ FrameBytes(f)[3] = Cell("ext", f.len)
                            /\ Len(FrameBytes(f)) >= 3
           /\ f.masked => /\ FrameBytes(f)[HdrSize(f) + 1] = Cell("key", f.key)
                          /\ Len(FrameBytes(f)) = HdrSize(f) + 1 + Len(f.data)
                          /\ \A j \in 1 .. Len(f.data) : FrameBytes(f)[HdrSize(f) + 1 + j]
                                = Cell("byte", (f.data[j] + f.key) % 2)
<1> DEFINE n == IF f.form = 7 THEN f.len ELSE IF f.form = 16 THEN N16 ELSE N64
           b0 == Cell("b0", [fin |-> f.fin, op |-> f.op, rsv |-> f.rsv])
           b1 == Cell("b1", [masked |-> f.masked, n |-> n])
           h == <<b0, b1>>
           e == IF f.form = 7 THEN <<>> ELSE <<Cell("ext", f.len)>>
           y == IF f.masked THEN <<Cell("key", f.key)>> ELSE <<>>
           d == Bits(IF f.masked THEN Xor(f.data, f.key) ELSE f.data)
<1>1. /\ f.fin \in BOOLEAN /\ f.op \in STRING /\ f.rsv \in BOOLEAN /\ f.masked \in BOOLEAN
      /\ f.len \in Nat /\ f.key \in Nat /\ f.data \in Seq({0, 1}) /\ f.form \in {7, 16, 64}
  BY DEF Frames
<1>2. n \in Nat
  BY <1>1, Constants
<1>3. b0 \in Cells /\ b1 \in Cells /\ Cell("ext", f.len) \in Cells /\ Cell("key", f.key) \in Cells
  <2> HIDE DEF n
  <2>1. /\ [fin |-> f.fin, op |-> f.op, rsv |-> f.rsv] \in Values
        /\ [masked |-> f.masked, n |-> n] \in Values /\ f.len \in Values /\ f.key \in Values
    BY <1>1, <1>2, CellsAre
  <2> QED BY <2>1, CellsAre
<1>4. /\ Xor(f.data, f.key) \in Seq(Nat) /\ f.data \in Seq(Nat)
      /\ Len(Xor(f.data, f.key)) = Len(f.data)
      /\ \A j \in 1 .. Len(f.data) : Xor(f.data, f.key)[j] = (f.data[j] + f.key) % 2
  <2>1. \A j \in 1 .. Len(f.data) : (f.data[j] + f.key) % 2 \in Nat
    BY <1>1
  <2>2. Xor(f.data, f.key) = [j \in 1 .. Len(f.data) |-> (f.data[j] + f.key) % 2]
    BY <1>1 DEF Xor
  <2>3. Xor(f.data, f.key) \in [1 .. Len(f.data) -> Nat]
    BY <2>1, <2>2
  <2>4. f.data \in Seq(Nat)
    BY <1>1
  <2> QED BY <1>1, <2>2, <2>3, <2>4
<1>5. /\ d \in Seq(Cells)
      /\ f.masked => /\ Len(d) = Len(f.data)
                     /\ \A j \in 1 .. Len(f.data) : d[j] = Cell("byte", (f.data[j] + f.key) % 2)
  BY <1>1, <1>4, BitsAre
<1>6. FrameBytes(f) = ((h \o e) \o y) \o d
  BY DEF FrameBytes
<1>7. /\ h \in Seq(Cells) /\ Len(h) = 2 /\ h[1] = b0 /\ h[2] = b1
      /\ e \in Seq(Cells) /\ Len(e) = HdrSize(f) - 2 /\ (f.form # 7 => e[1] = Cell("ext", f.len))
      /\ y \in Seq(Cells) /\ (f.masked => Len(y) = 1 /\ y[1] = Cell("key", f.key))
  <2> HIDE DEF b0, b1, Cells
  <2> QED BY <1>3 DEF HdrSize
<1> HIDE DEF Cells, b0, b1, h, e, y, d
<1>8. /\ h \o e \in Seq(Cells) /\ Len(h \o e) = HdrSize(f)
      /\ (h \o e)[1] = b0 /\ (h \o e)[2] = b1 /\ (f.form # 7 => (h \o e)[3] = Cell("ext", f.len))
      /\ HdrSize(f) \in {2, 3} /\ (f.form # 7 => HdrSize(f) = 3)
  <2>1. HdrSize(f) \in {2, 3} /\ (f.form # 7 <=> HdrSize(f) = 3)
    BY DEF HdrSize
  <2>2. Len(h) = 2 /\ Len(e) = HdrSize(f) - 2
    BY <1>7
  <2>3. /\ h \o e \in Seq(Cells) /\ Len(h \o e) = Len(h) + Len(e)
        /\ \A j \in 1 .. Len(h) : (h \o e)[j] = h[j]
        /\ \A j \in 1 .. Len(e) : (h \o e)[Len(h) + j] = e[j]
    <3>1. h \in Seq(Cells) /\ e \in Seq(Cells)
      BY <1>7
    <3> QED BY <3>1, Cat
  <2>4. Len(h \o e) = HdrSize(f) /\ (h \o e)[1] = b0 /\ (h \o e)[2] = b1
    BY <1>7, <2>1, <2>2, <2>3
  <2>5. f.form # 7 => (h \o e)[2 + 1] = e[1]
    BY <1>1, <2>1, <2>2, <2>3
  <2> QED BY <1>7, <2>1, <2>3, <2>4, <2>5
<1> DEFINE x == h \o e
<1> HIDE DEF x
<1>9. /\ x \o y \in Seq(Cells) /\ Len(x \o y) = HdrSize(f) + Len(y) /\ Len(y) \in Nat
      /\ (x \o y)[1] = b0 /\ (x \o y)[2] = b1 /\ (f.form # 7 => (x \o y)[3] = Cell("ext", f.len))
      /\ f.masked => (x \o y)[HdrSize(f) + 1] = Cell("key", f.key)
  BY <1>7, <1>8 DEF x
<1> DEFINE z == x \o y
<1> HIDE DEF z
<1>10. /\ z \o d \in Seq(Cells) /\ Len(z \o d) = HdrSize(f) + Len(y) + Len(d)
       /\ Len(d) \in Nat
       /\ (z \o d)[1] = b0 /\ (z \o d)[2] = b1 /\ (f.form # 7 => (z \o d)[3] = Cell("ext", f.len))
       /\ f.masked => /\ (z \o d)[HdrSize(f) + 1] = Cell("key", f.key)
                      /\ \A j \in 1 .. Len(f.data) :
                            (z \o d)[HdrSize(f) + 1 + j] = Cell("byte", (f.data[j] + f.key) % 2)
  <2>1. Len(z) = HdrSize(f) + Len(y) /\ z \in Seq(Cells) /\ HdrSize(f) \in {2, 3}
        /\ (f.masked => Len(z) = HdrSize(f) + 1) /\ (f.form # 7 => HdrSize(f) = 3)
    BY <1>7, <1>8, <1>9 DEF z
  <2>2. /\ z \o d \in Seq(Cells) /\ Len(z \o d) = Len(z) + Len(d) /\ Len(d) \in Nat
        /\ \A j \in 1 .. Len(z) : (z \o d)[j] = z[j]
        /\ \A j \in 1 .. Len(d) : (z \o d)[Len(z) + j] = d[j]
    <3>1. z \in Seq(Cells) /\ d \in Seq(Cells)
      BY <1>5, <2>1
    <3> QED BY <3>1, Cat
  <2>3. (z \o d)[1] = z[1] /\ (z \o d)[2] = z[2] /\ (f.form # 7 => (z \o d)[3] = z[3])
    BY <1>9, <2>1, <2>2
  <2>4. f.masked => (z \o d)[HdrSize(f) + 1] = z[HdrSize(f) + 1]
    BY <2>1, <2>2
  <2>5. f.masked => \A j \in 1 .. Len(f.data) :
           (z \o d)[HdrSize(f) + 1 + j] = Cell("byte", (f.data[j] + f.key) % 2)
    BY <1>5, <2>1, <2>2
  <2> QED BY <1>9, <2>1, <2>2, <2>3, <2>4, <2>5 DEF z
<1>11. FrameBytes(f) = z \o d
  BY <1>6 DEF z, x
<1>12. /\ FrameBytes(f) \in Seq(Cells) /\ Len(FrameBytes(f)) >= 2
       /\ f.form # 7 => Len(FrameBytes(f)) >= 3
       /\ f.masked => Len(FrameBytes(f)) = HdrSize(f) + 1 + Len(f.data)
  <2>1. HdrSize(f) \in {2, 3} /\ (f.form # 7 => HdrSize(f) = 3) /\ Len(y) \in Nat /\ Len(d) \in Nat
    BY <1>8, <1>9, <1>10
  <2>2. Len(FrameBytes(f)) = HdrSize(f) + Len(y) + Len(d) /\ FrameBytes(f) \in Seq(Cells)
    BY <1>10, <1>11
  <2>3. f.masked => Len(y) = 1 /\ Len(d) = Len(f.data)
    BY <1>5, <1>7
  <2>4. Len(FrameBytes(f)) >= HdrSize(f) /\ HdrSize(f) \in Nat
    BY <2>1, <2>2
  <2>5. Len(FrameBytes(f)) >= 2 /\ (f.form # 7 => Len(FrameBytes(f)) >= 3)
    BY <2>1, <2>4
  <2>6. ASSUME f.masked
        PROVE  Len(FrameBytes(f)) = HdrSize(f) + 1 + Len(f.data)
    BY <2>2, <2>3, <2>6
  <2> QED BY <2>2, <2>5, <2>6
<1>13. /\ FrameBytes(f)[1] = b0 /\ FrameBytes(f)[2] = b1
       /\ f.form # 7 => FrameBytes(f)[3] = Cell("ext", f.len)
       /\ f.masked => /\ FrameBytes(f)[HdrSize(f) + 1] = Cell("key", f.key)
                      /\ \A j \in 1 .. Len(f.data) : FrameBytes(f)[HdrSize(f) + 1 + j]
                            = Cell("byte", (f.data[j] + f.key) % 2)
  BY <1>10, <1>11
<1> QED BY <1>12, <1>13 DEF b0, b1

-----------------------------------------------------------------------------
(* The stream of a script *)

(* The frames of a script on the wire, and where the wire is after i of them *)
OnWire(fs) == [j \in DOMAIN fs |-> FrameBytes(fs[j])]
Pos(s, i) == Len(s.request) + Len(Joined(OnWire(s.frames), i))

(* Min of two lengths, and of a set that is not empty                       *)
LEMMA MinOf ==
    /\ \A a, b \in Nat : Min({a, b}) = IF a <= b THEN a ELSE b
    /\ \A S \in SUBSET Nat : S # {} => Min(S) \in S /\ \A x \in S : Min(S) <= x
<1>1. ASSUME NEW a \in Nat, NEW b \in Nat
      PROVE  Min({a, b}) = IF a <= b THEN a ELSE b
  <2> DEFINE m == IF a <= b THEN a ELSE b
  <2>1. m \in {a, b} /\ \A y \in {a, b} : m <= y
    OBVIOUS
  <2>2. \A x \in {a, b} : (\A y \in {a, b} : x <= y) => x = m
    OBVIOUS
  <2> HIDE DEF m
  <2>3. Min({a, b}) = m
    BY <2>1, <2>2 DEF Min
  <2> QED BY <2>3 DEF m
<1>2. ASSUME NEW S \in SUBSET Nat, S # {}
      PROVE  Min(S) \in S /\ \A x \in S : Min(S) <= x
  <2>1. \E m \in S : \A k \in S : m <= k
    BY <1>2, Least
  <2> QED BY <2>1 DEF Min
<1> QED BY <1>1, <1>2

(* A header ends at e. *)
IsEnd(b, e) == e \in 2 .. Len(b) /\ b[e - 1].k = "crlf1" /\ b[e].k = "crlf2"

(* find_header_end finds the first. *)
LEMMA HeaderEndIs ==
    ASSUME NEW b \in Seq(Cells)
    PROVE  \/ HeaderEnd(b) = 0 /\ \A e : ~ IsEnd(b, e)
           \/ /\ HeaderEnd(b) # 0 /\ HeaderEnd(b) \in 2 .. Len(b) /\ IsEnd(b, HeaderEnd(b))
              /\ \A e : IsEnd(b, e) => HeaderEnd(b) <= e
<1> DEFINE ends == {e \in 2 .. Len(b) : b[e - 1].k = "crlf1" /\ b[e].k = "crlf2"}
<1>1. \A e : e \in ends <=> IsEnd(b, e)
  BY DEF IsEnd
<1>2. ends \in SUBSET Nat /\ ends \subseteq 2 .. Len(b)
  OBVIOUS
<1>3. HeaderEnd(b) = IF ends = {} THEN 0 ELSE Min(ends)
  BY DEF HeaderEnd
<1> HIDE DEF ends
<1>4. ends # {} => Min(ends) \in ends /\ \A x \in ends : Min(ends) <= x
  BY <1>2, MinOf
<1>5. CASE ends = {}
  BY <1>1, <1>3, <1>5
<1>6. CASE ends # {}
  <2>1. HeaderEnd(b) \in ends /\ \A x \in ends : HeaderEnd(b) <= x
    BY <1>3, <1>4, <1>6
  <2> DEFINE h == HeaderEnd(b)
  <2>2. h \in 2 .. Len(b)
    BY <1>2, <2>1
  <2> HIDE DEF h
  <2>3. h # 0
    BY <2>2
  <2> QED BY <1>1, <2>1, <2>2, <2>3 DEF h
<1> QED BY <1>5, <1>6

(* What has been read may not show the end yet, but never a false one.      *)
LEMMA HeaderEndOfPart ==
    ASSUME NEW w \in Seq(Cells), NEW b \in 0 .. Len(w), NEW a \in 0 .. b
    PROVE  LET x == SubSeq(w, 1, a)
               y == SubSeq(w, 1, b)
           IN /\ x \in Seq(Cells) /\ Len(x) = a /\ \A j \in 1 .. a : x[j] = w[j]
              /\ HeaderEnd(x) # 0 => HeaderEnd(y) = HeaderEnd(x)
              /\ HeaderEnd(x) \in 0 .. a
<1> DEFINE x == SubSeq(w, 1, a)
           y == SubSeq(w, 1, b)
<1> HIDE DEF Cells
<1>1. x \in Seq(Cells) /\ Len(x) = a /\ \A j \in 1 .. a : x[j] = w[j]
  OBVIOUS
<1>2. y \in Seq(Cells) /\ Len(y) = b /\ \A j \in 1 .. b : y[j] = w[j]
  OBVIOUS
<1> HIDE DEF x, y
<1>3. \A e \in 1 .. a : IsEnd(x, e) <=> IsEnd(y, e)
  BY <1>1, <1>2 DEF IsEnd
<1>4. HeaderEnd(x) \in 0 .. a
  BY <1>1, HeaderEndIs
<1>5. ASSUME HeaderEnd(x) # 0
      PROVE  HeaderEnd(y) = HeaderEnd(x)
  <2>1. IsEnd(x, HeaderEnd(x)) /\ HeaderEnd(x) \in 2 .. a /\ \A e : IsEnd(x, e) => HeaderEnd(x) <= e
    BY <1>1, <1>5, HeaderEndIs
  <2>2. IsEnd(y, HeaderEnd(x))
    BY <1>3, <2>1
  <2>3. /\ HeaderEnd(y) \in 2 .. b /\ IsEnd(y, HeaderEnd(y))
        /\ \A e : IsEnd(y, e) => HeaderEnd(y) <= e
    BY <1>2, <2>2, HeaderEndIs
  <2>4. HeaderEnd(y) <= HeaderEnd(x)
    BY <2>2, <2>3
  <2>5. HeaderEnd(y) \in 1 .. a
    BY <2>1, <2>3, <2>4
  <2>6. IsEnd(x, HeaderEnd(y))
    BY <1>3, <2>3, <2>5
  <2>7. HeaderEnd(x) <= HeaderEnd(y)
    BY <2>1, <2>6
  <2> QED BY <2>1, <2>3, <2>4, <2>7
<1> QED BY <1>1, <1>4, <1>5 DEF x, y

(* The stream of a script: where its request and its frames lie *)
LEMMA ScriptIs ==
    ASSUME NEW s \in Scripts
    PROVE  /\ s.request \in Seq(Cells) /\ s.frames \in Seq(Frames)
           /\ HeaderEnd(Wire(s)) \in {0, Len(s.request)}
           /\ \A i \in 1 .. Len(s.frames) :
                 /\ s.frames[i] \in Frames
                 /\ s.frames[i].form = 7 => s.frames[i].len <= SmallMax
                 /\ s.frames[i].form = 16 => s.frames[i].len <= MediumMax
                 /\ s.frames[i].len <= MaxPayload => Len(s.frames[i].data) = s.frames[i].len
           /\ Wire(s) \in Seq(Cells) /\ Len(Wire(s)) \in Nat
           /\ \A j \in 1 .. Len(s.request) : Wire(s)[j] = s.request[j]
           /\ Pos(s, 0) = Len(s.request) /\ Pos(s, Len(s.frames)) = Len(Wire(s))
           /\ \A i \in 0 .. Len(s.frames) : Pos(s, i) \in Nat
           /\ \A i \in 0 .. Len(s.frames) - 1 :
                 /\ Pos(s, i + 1) = Pos(s, i) + Len(FrameBytes(s.frames[i + 1]))
                 /\ Pos(s, i + 1) <= Len(Wire(s))
                 /\ \A j \in 1 .. Len(FrameBytes(s.frames[i + 1])) :
                       Wire(s)[Pos(s, i) + j] = FrameBytes(s.frames[i + 1])[j]
<1> DEFINE fs == s.frames
           n == Len(fs)
           ss == OnWire(fs)
           r == s.request
<1>1. /\ r \in Seq([k : STRING, v : {0}]) /\ fs \in Seq(Frames)
      /\ HeaderEnd(Wire(s)) \in {0, Len(r)}
      /\ \A i \in DOMAIN fs : /\ fs[i].form = 7 => fs[i].len <= SmallMax
                              /\ fs[i].form = 16 => fs[i].len <= MediumMax
                              /\ fs[i].len <= MaxPayload => Len(fs[i].data) = fs[i].len
  BY ScriptsAssumption
<1>2. r \in Seq(Cells)
  <2>1. \A x \in [k : STRING, v : {0}] : x \in Cells
    BY DEF Cells, Words, Values
  <2>2. [k : STRING, v : {0}] \subseteq Cells
    BY <2>1
  <2> HIDE DEF r
  <2> QED BY <1>1, <2>2, SeqMonotonic
<1>3. n \in Nat /\ DOMAIN fs = 1 .. n /\ \A i \in 1 .. n : fs[i] \in Frames
  BY <1>1
<1>4. /\ ss = [j \in 1 .. n |-> ss[j]]
      /\ \A j \in 1 .. n : ss[j] = FrameBytes(fs[j]) /\ ss[j] \in Seq(Cells)
  <2>1. \A j \in 1 .. n : ss[j] = FrameBytes(fs[j])
    BY <1>3 DEF OnWire
  <2>2. \A j \in 1 .. n : FrameBytes(fs[j]) \in Seq(Cells)
    BY <1>3, FrameBytesAre
  <2>3. ss = [j \in 1 .. n |-> ss[j]]
    BY <1>3 DEF OnWire
  <2> QED BY <2>1, <2>2, <2>3
<1>5. Wire(s) = r \o Joined(ss, n)
  <2>1. Wire(s) = r \o FlattenSeq(ss)
    BY DEF Wire, OnWire
  <2> HIDE DEF ss
  <2>2. FlattenSeq(ss) = Joined(ss, n)
    BY <1>3, <1>4, FlattenIsJoined
  <2> QED BY <2>1, <2>2
<1> DEFINE all == Joined(ss, n)
<1> HIDE DEF fs, n, ss, r, all, Cells
<1>6. \A i \in 0 .. n : Joined(ss, i) \in Seq(Cells)
  BY <1>3, <1>4, JoinedSeq
<1>7. all \in Seq(Cells) /\ Wire(s) = r \o all
  BY <1>3, <1>5, <1>6 DEF all
<1>8. /\ Wire(s) \in Seq(Cells) /\ Len(Wire(s)) = Len(r) + Len(all)
      /\ Len(r) \in Nat /\ Len(all) \in Nat
      /\ \A j \in 1 .. Len(r) : Wire(s)[j] = r[j]
      /\ \A j \in 1 .. Len(all) : Wire(s)[Len(r) + j] = all[j]
  BY <1>2, <1>7, Cat
<1>9. \A i : Pos(s, i) = Len(r) + Len(Joined(ss, i))
  BY DEF Pos, r, ss, fs
<1>10. Pos(s, 0) = Len(r) /\ Pos(s, n) = Len(Wire(s))
  BY <1>8, <1>9, JoinedOne DEF all
<1>11. \A i \in 0 .. n : Pos(s, i) \in Nat /\ Len(Joined(ss, i)) \in Nat
  BY <1>6, <1>8, <1>9
<1>12. ASSUME NEW i \in 0 .. n - 1
       PROVE  /\ Pos(s, i + 1) = Pos(s, i) + Len(FrameBytes(fs[i + 1]))
              /\ Pos(s, i + 1) <= Len(Wire(s))
              /\ \A j \in 1 .. Len(FrameBytes(fs[i + 1])) :
                    Wire(s)[Pos(s, i) + j] = FrameBytes(fs[i + 1])[j]
  <2>1. ss[i + 1] = FrameBytes(fs[i + 1]) /\ ss[i + 1] \in Seq(Cells)
    BY <1>3, <1>4
  <2>2. /\ Len(Joined(ss, i + 1)) = Len(Joined(ss, i)) + Len(ss[i + 1])
        /\ Len(Joined(ss, i + 1)) <= Len(Joined(ss, n))
        /\ \A j \in 1 .. Len(ss[i + 1]) :
              Joined(ss, n)[Len(Joined(ss, i)) + j] = ss[i + 1][j]
    <3>1. n \in Nat /\ \A j \in 1 .. n : ss[j] \in Seq(Cells)
      BY <1>3, <1>4
    <3>2. Follows(ss, i, n)
      BY <3>1, JoinedPlaces
    <3> QED BY <3>2 DEF Follows
  <2> DEFINE b == ss[i + 1]
             p == Len(Joined(ss, i))
             q == Len(Joined(ss, i + 1))
  <2>3. p \in Nat /\ q \in Nat /\ Len(b) \in Nat
    <3>1. i \in 0 .. n /\ i + 1 \in 0 .. n
      BY <1>3
    <3> QED BY <1>11, <2>1, <3>1
  <2>4. Pos(s, i) = Len(r) + p /\ Pos(s, i + 1) = Len(r) + q
    BY <1>9
  <2>5. q = p + Len(b) /\ q <= Len(all) /\ \A j \in 1 .. Len(b) : all[p + j] = b[j]
    BY <2>2 DEF all
  <2> HIDE DEF b, p, q
  <2>6. Pos(s, i + 1) = Pos(s, i) + Len(b) /\ Pos(s, i + 1) <= Len(Wire(s))
    BY <1>8, <2>3, <2>4, <2>5
  <2>7. \A j \in 1 .. Len(b) : Wire(s)[Pos(s, i) + j] = b[j]
    <3> SUFFICES ASSUME NEW j \in 1 .. Len(b) PROVE Wire(s)[Pos(s, i) + j] = b[j]
      OBVIOUS
    <3>1. p + j \in 1 .. Len(all) /\ Pos(s, i) + j = Len(r) + (p + j)
      BY <1>8, <2>3, <2>4, <2>5
    <3>2. Wire(s)[Len(r) + (p + j)] = all[p + j]
      BY <1>8, <3>1
    <3> QED BY <2>5, <3>1, <3>2
  <2> QED BY <2>1, <2>6, <2>7 DEF b
<1>13. /\ r \in Seq(Cells) /\ fs \in Seq(Frames) /\ HeaderEnd(Wire(s)) \in {0, Len(r)}
       /\ \A i \in 1 .. n : /\ fs[i] \in Frames
                            /\ fs[i].form = 7 => fs[i].len <= SmallMax
                            /\ fs[i].form = 16 => fs[i].len <= MediumMax
                            /\ fs[i].len <= MaxPayload => Len(fs[i].data) = fs[i].len
  BY <1>1, <1>2, <1>3
<1> QED BY <1>8, <1>10, <1>11, <1>12, <1>13 DEF fs, n, r

-----------------------------------------------------------------------------
(* Messages *)

(* Frame i begins a message, and a message that has begun goes on to i.     *)
Started(fs, i) == \E j \in 1 .. i : InMessage(fs, i, j) /\ fs[j].op \in {"TEXT", "BIN"}

(* What the next frame makes of the message                                 *)
LEMMA NextFrame ==
    ASSUME NEW fs, NEW i \in Nat
    PROVE  LET f == fs[i + 1] IN
           /\ Open(fs, i + 2) <=> IF IsData(f) THEN ~ f.fin ELSE Open(fs, i + 1)
           /\ \A j \in 1 .. i : InMessage(fs, i + 1, j)
                                <=> InMessage(fs, i, j) /\ (IsData(f) => f.op = "CONT")
           /\ InMessage(fs, i + 1, i + 1) <=> IsData(f)
<1> DEFINE f == fs[i + 1]
<1>1. (i + 2) - 1 = i + 1 /\ (i + 1) - 1 = i
  OBVIOUS
<1>2. Open(fs, i + 2) <=> IF IsData(f) THEN ~ f.fin ELSE Open(fs, i + 1)
  <2>1. Open(fs, i + 2) <=> \E j \in 1 .. i + 1 :
           IsData(fs[j]) /\ ~ fs[j].fin /\ \A l \in j + 1 .. i + 1 : ~ IsData(fs[l])
    BY <1>1 DEF Open
  <2>2. Open(fs, i + 1) <=> \E j \in 1 .. i :
           IsData(fs[j]) /\ ~ fs[j].fin /\ \A l \in j + 1 .. i : ~ IsData(fs[l])
    BY <1>1 DEF Open
  <2>3. CASE IsData(f)
    <3>1. \A j \in 1 .. i + 1 :
             (\A l \in j + 1 .. i + 1 : ~ IsData(fs[l])) <=> j = i + 1
      BY <2>3
    <3>2. Open(fs, i + 2) <=> ~ f.fin
      BY <2>1, <2>3, <3>1
    <3> QED BY <2>3, <3>2
  <2>4. CASE ~ IsData(f)
    <3>1. \A j \in 1 .. i :
             (\A l \in j + 1 .. i + 1 : ~ IsData(fs[l])) <=> \A l \in j + 1 .. i : ~ IsData(fs[l])
      <4> SUFFICES ASSUME NEW j \in 1 .. i, \A l \in j + 1 .. i : ~ IsData(fs[l]),
                          NEW l \in j + 1 .. i + 1
                   PROVE  ~ IsData(fs[l])
        OBVIOUS
      <4>1. l \in j + 1 .. i \/ l = i + 1
        OBVIOUS
      <4> QED BY <2>4, <4>1
    <3>2. \A j \in 1 .. i + 1 : IsData(fs[j]) => j \in 1 .. i
      <4> SUFFICES ASSUME NEW j \in 1 .. i + 1, IsData(fs[j]) PROVE j \in 1 .. i
        OBVIOUS
      <4>1. j # i + 1
        BY <2>4
      <4> QED BY <4>1
    <3>3. 1 .. i \subseteq 1 .. i + 1
      OBVIOUS
    <3>4. Open(fs, i + 2) => Open(fs, i + 1)
      BY <2>1, <2>2, <3>1, <3>2
    <3>5. Open(fs, i + 1) => Open(fs, i + 2)
      BY <2>1, <2>2, <3>1, <3>3
    <3> QED BY <2>4, <3>4, <3>5
  <2> QED BY <2>3, <2>4
<1>3. ASSUME NEW j \in 1 .. i
      PROVE  InMessage(fs, i + 1, j) <=> InMessage(fs, i, j) /\ (IsData(f) => f.op = "CONT")
  <2>1. \A l : l \in j + 1 .. i + 1 <=> l \in j + 1 .. i \/ l = i + 1
    OBVIOUS
  <2> QED BY <2>1, Zenon DEF InMessage
<1>4. InMessage(fs, i + 1, i + 1) <=> IsData(f)
  <2>1. (i + 1) + 1 .. i + 1 = {}
    OBVIOUS
  <2> QED BY <2>1, Zenon DEF InMessage
<1> QED BY <1>2, <1>3, <1>4

(* No frame finds a message unfinished before the first.                    *)
LEMMA NoneOpen == \A fs : ~ Open(fs, 1) /\ ~ Open(fs, 0 + 1)
BY DEF Open

(* The kind of a message is that of the frame that began it.                *)
LEMMA KindIs ==
    ASSUME NEW fs, NEW i \in Nat, NEW j \in 1 .. i, InMessage(fs, i, j), fs[j].op # "CONT"
    PROVE  Kind(fs, i) = fs[j].op
<1>1. ASSUME NEW x \in 1 .. i, InMessage(fs, i, x), fs[x].op # "CONT",
             NEW y \in 1 .. i, InMessage(fs, i, y), fs[y].op # "CONT", x < y
      PROVE  FALSE
  <2>1. y \in x + 1 .. i /\ IsData(fs[y])
    BY <1>1 DEF InMessage
  <2> QED BY <1>1, <2>1 DEF InMessage
<1>2. \A x \in 1 .. i : InMessage(fs, i, x) /\ fs[x].op # "CONT" => x = j
  <2> SUFFICES ASSUME NEW x \in 1 .. i, InMessage(fs, i, x), fs[x].op # "CONT", x # j
               PROVE  FALSE
    OBVIOUS
  <2>1. x < j \/ j < x
    OBVIOUS
  <2> QED BY <1>1, <2>1
<1> DEFINE c == CHOOSE x \in 1 .. i : InMessage(fs, i, x) /\ fs[x].op # "CONT"
<1>3. c \in 1 .. i /\ InMessage(fs, i, c) /\ fs[c].op # "CONT"
  OBVIOUS
<1>4. Kind(fs, i) = fs[c].op
  BY DEF Kind
<1> HIDE DEF c
<1> QED BY <1>2, <1>3, <1>4

(* The bodies joined, and how a body grows with a frame                     *)
Pieces(fs, i) == [j \in 1 .. i |-> IF InMessage(fs, i, j) THEN fs[j].data ELSE <<>>]

(* The payload of a message is that of its frames, joined.                  *)
LEMMA BodyIs ==
    ASSUME NEW fs \in Seq(Frames), NEW i \in 0 .. Len(fs)
    PROVE  /\ \A j \in 1 .. i : Pieces(fs, i)[j] \in Seq({0, 1})
           /\ Body(fs, i) = Joined(Pieces(fs, i), i)
           /\ Body(fs, i) \in Seq({0, 1})
<1>1. \A j \in 1 .. i : fs[j].data \in Seq({0, 1}) /\ <<>> \in Seq({0, 1})
  <2>1. \A j \in 1 .. i : fs[j] \in Frames
    OBVIOUS
  <2>2. \A f \in Frames : f.data \in Seq({0, 1})
    BY DEF Frames
  <2> QED BY <2>1, <2>2, EmptySeq
<1>2. \A j \in 1 .. i : Pieces(fs, i)[j] = IF InMessage(fs, i, j) THEN fs[j].data ELSE <<>>
  BY DEF Pieces
<1>3. \A j \in 1 .. i : Pieces(fs, i)[j] \in Seq({0, 1})
  BY <1>1, <1>2
<1>4. Pieces(fs, i) = [j \in 1 .. i |-> Pieces(fs, i)[j]]
  BY DEF Pieces
<1>5. i \in Nat
  OBVIOUS
<1>6. FlattenSeq(Pieces(fs, i)) = Joined(Pieces(fs, i), i)
  BY <1>4, <1>5, FlattenIsJoined
<1>7. Body(fs, i) = Joined(Pieces(fs, i), i)
  BY <1>6 DEF Body, Pieces
<1>8. Joined(Pieces(fs, i), i) \in Seq({0, 1})
  <2>1. i \in 0 .. i
    BY <1>5
  <2> QED BY <1>3, <1>5, <2>1, JoinedSeq
<1> QED BY <1>3, <1>7, <1>8

(* The next frame starts a message, goes on with it or leaves it.           *)
LEMMA BodyGrows ==
    ASSUME NEW fs \in Seq(Frames), NEW i \in 0 .. Len(fs) - 1
    PROVE  LET f == fs[i + 1] IN
           /\ IsData(f) /\ f.op # "CONT" => Body(fs, i + 1) = f.data
           /\ IsData(f) /\ f.op = "CONT" => Body(fs, i + 1) = Body(fs, i) \o f.data
           /\ ~ IsData(f) => Body(fs, i + 1) = Body(fs, i)
<1> DEFINE f == fs[i + 1]
           p == Pieces(fs, i)
           q == Pieces(fs, i + 1)
           d == f.data
<1>1. i \in Nat /\ i + 1 \in Nat /\ i \in 0 .. Len(fs) /\ i + 1 \in 0 .. Len(fs)
      /\ i + 1 \in 1 .. i + 1 /\ i \in 0 .. (i + 1) - 1 /\ (i + 1) - 1 = i /\ 0 \in 0 .. i
      /\ i \in 0 .. i + 1 /\ 1 .. i \subseteq 1 .. i + 1
  OBVIOUS
<1>2. /\ \A j \in 1 .. i : p[j] \in Seq({0, 1})
      /\ Body(fs, i) = Joined(p, i) /\ Body(fs, i) \in Seq({0, 1})
  BY <1>1, BodyIs
<1>3. /\ \A j \in 1 .. i + 1 : q[j] \in Seq({0, 1})
      /\ Body(fs, i + 1) = Joined(q, i + 1)
  BY <1>1, BodyIs
<1>4. /\ \A j \in 1 .. i : p[j] = IF InMessage(fs, i, j) THEN fs[j].data ELSE <<>>
      /\ \A j \in 1 .. i + 1 : q[j] = IF InMessage(fs, i + 1, j) THEN fs[j].data ELSE <<>>
  BY DEF Pieces
<1>5. /\ \A j \in 1 .. i : InMessage(fs, i + 1, j)
                           <=> InMessage(fs, i, j) /\ (IsData(f) => f.op = "CONT")
      /\ InMessage(fs, i + 1, i + 1) <=> IsData(f)
  BY <1>1, NextFrame
<1>6. q[i + 1] = IF IsData(f) THEN d ELSE <<>>
  BY <1>1, <1>4, <1>5
<1>7. Joined(q, i + 1) = Joined(q, i) \o q[i + 1]
  BY <1>1, <1>3, JoinedSeq
<1>8. d \in Seq({0, 1})
  <2>1. f \in Frames
    BY <1>1
  <2> QED BY <2>1 DEF Frames
<1> HIDE DEF p, q, d, f
<1>9. CASE IsData(f) => f.op = "CONT"
  <2>1. \A j \in 1 .. i : q[j] = p[j]
    BY <1>1, <1>4, <1>5, <1>9
  <2>2. Joined(q, i) = Body(fs, i)
    BY <1>1, <1>2, <2>1, JoinedLocal
  <2>3. Body(fs, i + 1) = Body(fs, i) \o q[i + 1]
    BY <1>3, <1>7, <2>2
  <2>4. IsData(f) => Body(fs, i + 1) = Body(fs, i) \o d
    BY <1>6, <2>3
  <2>5. ~ IsData(f) => Body(fs, i + 1) = Body(fs, i)
    BY <1>2, <1>6, <2>3, ConcatEmptySeq
  <2> QED BY <1>9, <2>4, <2>5 DEF d, f
<1>10. CASE IsData(f) /\ f.op # "CONT"
  <2>1. \A j \in 1 .. i : q[j] = <<>> /\ q[j] \in Seq({0, 1})
    BY <1>1, <1>3, <1>4, <1>5, <1>10
  <2>2. \A j \in 0 + 1 .. i : q[j] = <<>>
    BY <2>1
  <2>3. Joined(q, i) = Joined(q, 0)
    BY <1>1, <2>1, <2>2, JoinedEmpty
  <2>4. Body(fs, i + 1) = <<>> \o d
    BY <1>3, <1>6, <1>7, <1>10, <2>3, JoinedOne
  <2>5. <<>> \o d = d
    BY <1>8, ConcatEmptySeq
  <2> QED BY <1>10, <2>4, <2>5 DEF d, f
<1> QED BY <1>9, <1>10 DEF d, f

-----------------------------------------------------------------------------
(* What the reference owes *)

(* A frame with no close code is sound, and its message is.                 *)
LEMMA CodeIs ==
    ASSUME NEW fs, NEW i
    PROVE  /\ Code(fs, i) \in {0, CLOSE_PROTOCOL, CLOSE_TOO_BIG}
           /\ Code(fs, i) = 0 =>
                 /\ Legal(fs[i]) /\ ~ (fs[i].len > MaxPayload)
                 /\ IsData(fs[i]) => /\ Open(fs, i) <=> fs[i].op = "CONT"
                                     /\ ~ (Len(Body(fs, i)) > MaxPayload)
<1> DEFINE d == IsData(fs[i])
           o == Open(fs, i)
           l == fs[i].op = "CONT"
           g == Legal(fs[i])
           x == fs[i].len > MaxPayload
           y == Len(Body(fs, i)) > MaxPayload
<1>1. Code(fs, i) = IF ~ g THEN 1002 ELSE IF x THEN 1009 ELSE IF ~ d THEN 0
                    ELSE IF o # l THEN 1002 ELSE IF y THEN 1009 ELSE 0
  BY DEF Code, CLOSE_PROTOCOL, CLOSE_TOO_BIG
<1>2. o \in BOOLEAN /\ l \in BOOLEAN
  BY DEF Open
<1> HIDE DEF d, o, l, g, x, y
<1>3. Code(fs, i) = 0 => g /\ ~ x /\ (d => (o = l) /\ ~ y)
  BY <1>1
<1>4. (o = l) => (o <=> l)
  BY <1>2
<1>5. Code(fs, i) \in {0, CLOSE_PROTOCOL, CLOSE_TOO_BIG}
  BY <1>1 DEF CLOSE_PROTOCOL, CLOSE_TOO_BIG
<1> QED BY <1>3, <1>4, <1>5 DEF d, o, l, g, x, y

(* If what is unfinished was begun, so is what the next frame leaves.       *)
LEMMA StartedNext ==
    ASSUME NEW fs, NEW i \in Nat, Code(fs, i + 1) = 0, Open(fs, i + 1) => Started(fs, i)
    PROVE  /\ IsData(fs[i + 1]) => Started(fs, i + 1)
           /\ Open(fs, i + 2) => Started(fs, i + 1)
<1> DEFINE f == fs[i + 1]
<1>1. /\ Open(fs, i + 2) <=> IF IsData(f) THEN ~ f.fin ELSE Open(fs, i + 1)
      /\ \A j \in 1 .. i : InMessage(fs, i + 1, j)
                           <=> InMessage(fs, i, j) /\ (IsData(f) => f.op = "CONT")
      /\ InMessage(fs, i + 1, i + 1) <=> IsData(f)
  BY NextFrame
<1>2. Legal(f) /\ (IsData(f) => (Open(fs, i + 1) <=> f.op = "CONT"))
  BY CodeIs
<1>3. i + 1 \in 1 .. i + 1 /\ 1 .. i \subseteq 1 .. i + 1
  OBVIOUS
<1>4. ASSUME Started(fs, i), IsData(f) => f.op = "CONT"
      PROVE  Started(fs, i + 1)
  <2>1. PICK j \in 1 .. i : InMessage(fs, i, j) /\ fs[j].op \in {"TEXT", "BIN"}
    BY <1>4 DEF Started
  <2>2. InMessage(fs, i + 1, j) /\ j \in 1 .. i + 1
    BY <1>1, <1>3, <1>4, <2>1
  <2> QED BY <2>1, <2>2 DEF Started
<1>5. ASSUME IsData(f), f.op # "CONT"
      PROVE  Started(fs, i + 1)
  <2>1. f.op \in {"TEXT", "BIN"}
    BY <1>2, <1>5 DEF Legal, IsData, Ops, Control
  <2>2. InMessage(fs, i + 1, i + 1)
    BY <1>1, <1>5
  <2> QED BY <1>3, <2>1, <2>2 DEF Started
<1>6. IsData(f) => Started(fs, i + 1)
  BY <1>2, <1>4, <1>5
<1>7. ~ IsData(f) /\ Open(fs, i + 2) => Started(fs, i + 1)
  BY <1>1, <1>4
<1> QED BY <1>6, <1>7

(* As long as no frame ends the connection, what is unfinished was begun.   *)
LEMMA Begun ==
    ASSUME NEW fs, NEW n \in Nat, \A j \in 1 .. n : ~ Ends(fs, j)
    PROVE  \A i \in 0 .. n : Open(fs, i + 1) => Started(fs, i)
<1> DEFINE W == {i \in 0 .. n : Open(fs, i + 1) /\ ~ Started(fs, i)}
<1> SUFFICES ASSUME W # {} PROVE FALSE
  OBVIOUS
<1>1. W \in SUBSET Nat
  OBVIOUS
<1>2. PICK m \in W : m \in Nat /\ (m # 0 => m - 1 \in Nat /\ m - 1 \notin W)
  <2> HIDE DEF W
  <2> QED BY <1>1, First
<1>3. m \in 0 .. n /\ Open(fs, m + 1) /\ ~ Started(fs, m)
  OBVIOUS
<1>4. m # 0
  BY <1>3, NoneOpen
<1>5. PICK l \in Nat : m = l + 1
  <2>1. m - 1 \in Nat /\ m = (m - 1) + 1
    BY <1>2, <1>4
  <2> QED BY <2>1
<1>6. l \in 0 .. n /\ l + 1 \in 1 .. n /\ (l + 1) + 1 = l + 2 /\ m - 1 = l
  BY <1>3, <1>5
<1>7. Open(fs, l + 1) => Started(fs, l)
  BY <1>2, <1>4, <1>6
<1>8. Code(fs, l + 1) = 0
  BY <1>6 DEF Ends
<1>9. Open(fs, l + 2) => Started(fs, l + 1)
  BY <1>7, <1>8, StartedNext
<1> QED BY <1>3, <1>5, <1>6, <1>9

(* An answer is a header and a body, in the form the code gives it too.     *)
LEMMA AnswerIs ==
    ASSUME NEW op \in Words, NEW body \in Seq(Cells)
    PROVE  /\ Answer(op, body) \in Seq(Cells)
           /\ Form(Len(body)) = Shortest(Len(body))
<1>1. Shortest(Len(body)) \in {7, 16, 64}
  BY DEF Shortest
<1>2. [op |-> op, form |-> Shortest(Len(body)), n |-> Len(body)] \in Values
  BY <1>1, CellsAre
<1>3. Cell("frame", [op |-> op, form |-> Shortest(Len(body)), n |-> Len(body)]) \in Cells
  BY <1>2, CellsAre
<1> DEFINE c == Cell("frame", [op |-> op, form |-> Shortest(Len(body)), n |-> Len(body)])
<1>4. Answer(op, body) = <<c>> \o body
  BY DEF Answer
<1> HIDE DEF c
<1>5. Answer(op, body) \in Seq(Cells)
  BY <1>3, <1>4 DEF c
<1>6. Len(body) \in Nat
  OBVIOUS
<1>7. Form(Len(body)) = Shortest(Len(body))
  BY <1>6, Constants DEF Form, Shortest
<1> QED BY <1>5, <1>7

(* The reply to a frame, while none before it ends the connection.          *)
LEMMA ReplyIs ==
    ASSUME NEW fs \in Seq(Frames), NEW i \in 0 .. Len(fs) - 1, \A j \in 1 .. i : ~ Ends(fs, j)
    PROVE  Reply(fs, i + 1) \in Seq(Cells)
<1> DEFINE f == fs[i + 1]
           b == Body(fs, i + 1)
<1>1. i \in Nat /\ i + 1 \in 1 .. Len(fs) /\ i + 1 \in 0 .. Len(fs) /\ i \in 0 .. i /\ i + 1 \in Nat
  OBVIOUS
<1>2. f \in Frames /\ f.op \in Words /\ f.data \in Seq(Nat)
  <2>1. f \in Frames
    BY <1>1
  <2>2. f.op \in STRING /\ f.data \in Seq({0, 1})
    BY <2>1 DEF Frames
  <2>3. f.data \in Seq(Nat)
    BY <2>2
  <2> QED BY <2>1, <2>2, <2>3, CellsAre
<1>3. b \in Seq(Nat)
  <2>1. b \in Seq({0, 1})
    BY <1>1, BodyIs
  <2> HIDE DEF b
  <2> QED BY <2>1
<1>4. Bits(b) \in Seq(Cells) /\ Bits(f.data) \in Seq(Cells) /\ <<>> \in Seq(Cells)
  BY <1>2, <1>3, BitsAre, EmptySeq
<1>5. <<Cell("code", Code(fs, i + 1))>> \in Seq(Cells)
  <2>1. Code(fs, i + 1) \in Nat
    BY CodeIs DEF CLOSE_PROTOCOL, CLOSE_TOO_BIG
  <2>2. Cell("code", Code(fs, i + 1)) \in Cells
    BY <2>1, CellsAre
  <2> QED BY <2>2
<1>6. ASSUME Code(fs, i + 1) = 0, IsData(f)
      PROVE  Kind(fs, i + 1) \in Words
  <2>1. Open(fs, i + 1) => Started(fs, i)
    BY <1>1, Begun
  <2>2. Started(fs, i + 1)
    BY <1>1, <1>6, <2>1, StartedNext
  <2>3. PICK j \in 1 .. i + 1 : InMessage(fs, i + 1, j) /\ fs[j].op \in {"TEXT", "BIN"}
    BY <2>2 DEF Started
  <2>4. Kind(fs, i + 1) = fs[j].op
    BY <1>1, <2>3, KindIs
  <2>5. fs[j] \in Frames
    BY <1>1
  <2>6. fs[j].op \in STRING
    BY <2>5 DEF Frames
  <2> QED BY <2>4, <2>6, CellsAre
<1>7. "CLOSE" \in Words /\ "PONG" \in Words
  BY CellsAre
<1>8. \/ Reply(fs, i + 1) = Answer("CLOSE", <<Cell("code", Code(fs, i + 1))>>)
      \/ Code(fs, i + 1) = 0 /\ IsData(f) /\ Reply(fs, i + 1) = Answer(Kind(fs, i + 1), Bits(b))
      \/ Reply(fs, i + 1) = Answer("PONG", Bits(f.data))
      \/ Reply(fs, i + 1) = Answer("CLOSE", Bits(f.data))
      \/ Reply(fs, i + 1) = <<>>
  BY DEF Reply
<1> HIDE DEF f, b
<1> QED BY <1>4, <1>5, <1>6, <1>7, <1>8, AnswerIs

(* What an accepted client has been told after i frames                     *)
Said(s, i) == <<Cell("http", 101)>> \o Joined(Replies(s.frames), i)

(* All replies: to every frame up to the one that ends the connection.      *)
LEMMA RepliesAre ==
    ASSUME NEW fs \in Seq(Frames), NEW n, n = Len(fs)
    PROVE  /\ n \in Nat /\ Replies(fs) = [i \in 1 .. n |-> Replies(fs)[i]]
           /\ \A i \in 1 .. n : Replies(fs)[i] \in Seq(Cells)
           /\ \A i \in 0 .. n - 1 : (\A j \in 1 .. i : ~ Ends(fs, j))
                                    => Replies(fs)[i + 1] = Reply(fs, i + 1)
           /\ \A i \in 1 .. n : Ends(fs, i) => \A l \in i + 1 .. n : Replies(fs)[l] = <<>>
<1>1. n \in Nat /\ DOMAIN fs = 1 .. n
  OBVIOUS
<1>2. Replies(fs) = [i \in 1 .. n |-> IF \E j \in 1 .. i - 1 : Ends(fs, j) THEN <<>>
                                      ELSE Reply(fs, i)]
  BY <1>1 DEF Replies
<1>3. \A i \in 1 .. n : Replies(fs)[i] = IF \E j \in 1 .. i - 1 : Ends(fs, j) THEN <<>>
                                         ELSE Reply(fs, i)
  BY <1>2
<1>4. Replies(fs) = [i \in 1 .. n |-> Replies(fs)[i]]
  BY <1>2
<1>5. ASSUME NEW i \in 0 .. n - 1
      PROVE  (\A j \in 1 .. i : ~ Ends(fs, j)) => Replies(fs)[i + 1] = Reply(fs, i + 1)
  <2>1. (i + 1) - 1 = i /\ i + 1 \in 1 .. n
    BY <1>1
  <2> QED BY <1>3, <2>1
<1>6. ASSUME NEW i \in 1 .. n, Ends(fs, i), NEW l \in i + 1 .. n
      PROVE  Replies(fs)[l] = <<>>
  <2>1. i \in 1 .. l - 1 /\ l \in 1 .. n
    BY <1>1
  <2> QED BY <1>3, <1>6, <2>1
<1>7. ASSUME NEW i \in 1 .. n
      PROVE  Replies(fs)[i] \in Seq(Cells)
  <2>1. PICK l \in 0 .. n - 1 : i = l + 1 /\ i - 1 = l
    <3>1. i - 1 \in 0 .. n - 1 /\ i = (i - 1) + 1
      BY <1>1
    <3> QED BY <3>1
  <2>2. CASE \A j \in 1 .. l : ~ Ends(fs, j)
    BY <1>5, <2>1, <2>2, ReplyIs
  <2>3. CASE \E j \in 1 .. l : Ends(fs, j)
    BY <1>3, <2>1, <2>3, EmptySeq
  <2> QED BY <2>2, <2>3
<1> QED BY <1>1, <1>4, <1>5, <1>6, <1>7

(* What is said grows reply by reply, and not after the last.               *)
LEMMA SaidIs ==
    ASSUME NEW s \in Scripts
    PROVE  LET fs == s.frames
               n == Len(fs)
           IN /\ Said(s, 0) = <<Cell("http", 101)>>
              /\ \A i \in 0 .. n : /\ Said(s, i) \in Seq(Cells)
                                   /\ Begins(Cells, Said(s, i), Said(s, n))
              /\ \A i \in 0 .. n - 1 : (\A j \in 1 .. i : ~ Ends(fs, j)) =>
                    /\ Reply(fs, i + 1) \in Seq(Cells)
                    /\ Said(s, i + 1) = Said(s, i) \o Reply(fs, i + 1)
              /\ \A i \in 1 .. n : Ends(fs, i) => Said(s, n) = Said(s, i)
              /\ <<Cell("http", 101)>> \o FlattenSeq(Replies(fs)) = Said(s, n)
<1> DEFINE fs == s.frames
           n == Len(fs)
           h == <<Cell("http", 101)>>
           R == Replies(fs)
<1>1. fs \in Seq(Frames)
  BY ScriptIs
<1>2. /\ n \in Nat /\ R = [i \in 1 .. n |-> R[i]]
      /\ \A i \in 1 .. n : R[i] \in Seq(Cells)
      /\ \A i \in 0 .. n - 1 : (\A j \in 1 .. i : ~ Ends(fs, j)) => R[i + 1] = Reply(fs, i + 1)
      /\ \A i \in 1 .. n : Ends(fs, i) => \A l \in i + 1 .. n : R[l] = <<>>
  <2> HIDE DEF fs
  <2> QED BY <1>1, RepliesAre
<1>3. h \in Seq(Cells)
  <2>1. Cell("http", 101) \in Cells
    BY CellsAre
  <2> QED BY <2>1
<1>4. \A i : Said(s, i) = h \o Joined(R, i)
  BY DEF Said
<1> HIDE DEF fs, n, h, R
<1>5. /\ \A i \in 0 .. n : Joined(R, i) \in Seq(Cells)
      /\ \A i \in 0 .. n - 1 : Joined(R, i + 1) = Joined(R, i) \o R[i + 1]
  BY <1>2, JoinedSeq
<1>6. Said(s, 0) = h
  <2>1. Joined(R, 0) = <<>>
    BY JoinedOne
  <2> QED BY <1>3, <1>4, <2>1, ConcatEmptySeq
<1>7. ASSUME NEW i \in 0 .. n
      PROVE  Said(s, i) \in Seq(Cells) /\ Begins(Cells, Said(s, i), Said(s, n))
  <2> DEFINE a == Joined(R, i)
             c == Joined(R, n)
  <2>1. a \in Seq(Cells) /\ Begins(Cells, a, c)
    BY <1>2, <1>5, JoinedPrefix
  <2>2. Said(s, i) = h \o a /\ Said(s, n) = h \o c
    BY <1>4
  <2> HIDE DEF a, c
  <2>3. PICK u \in Seq(Cells) : c = a \o u
    BY <2>1 DEF Begins
  <2>4. h \o a \in Seq(Cells) /\ (h \o a) \o u = h \o (a \o u)
    BY <1>3, <2>1, Cat, Assoc
  <2>5. Said(s, n) = Said(s, i) \o u
    BY <2>2, <2>3, <2>4
  <2> QED BY <2>2, <2>4, <2>5 DEF Begins
<1>8. ASSUME NEW i \in 0 .. n - 1, \A j \in 1 .. i : ~ Ends(fs, j)
      PROVE  /\ Reply(fs, i + 1) \in Seq(Cells)
             /\ Said(s, i + 1) = Said(s, i) \o Reply(fs, i + 1)
  <2> DEFINE a == Joined(R, i)
             r == Reply(fs, i + 1)
  <2>1. i \in 0 .. n /\ i + 1 \in 1 .. n
    BY <1>2
  <2>2. r = R[i + 1] /\ r \in Seq(Cells) /\ a \in Seq(Cells)
    BY <1>2, <1>5, <1>8, <2>1
  <2>3. Joined(R, i + 1) = a \o r
    BY <1>5, <2>2
  <2> HIDE DEF a, r
  <2>4. (h \o a) \o r = h \o (a \o r)
    <3>1. a \in Seq(Cells) /\ r \in Seq(Cells)
      BY <2>2
    <3> QED BY <1>3, <3>1, Assoc
  <2>5. Said(s, i + 1) = (h \o a) \o r
    BY <1>4, <2>3, <2>4
  <2>6. Said(s, i) = h \o a
    BY <1>4 DEF a
  <2> QED BY <2>2, <2>5, <2>6 DEF r
<1>9. ASSUME NEW i \in 1 .. n, Ends(fs, i)
      PROVE  Said(s, n) = Said(s, i)
  <2>1. i \in 0 .. n /\ \A l \in i + 1 .. n : R[l] = <<>>
    <3>1. i \in 0 .. n
      BY <1>2
    <3>2. Ends(fs, i) => \A l \in i + 1 .. n : R[l] = <<>>
      BY <1>2
    <3> QED BY <1>9, <3>1, <3>2
  <2>2. Joined(R, n) = Joined(R, i)
    BY <1>2, <2>1, JoinedEmpty
  <2> QED BY <1>4, <2>2
<1>10. h \o FlattenSeq(R) = Said(s, n)
  <2>1. FlattenSeq(R) = Joined(R, n)
    BY <1>2, FlattenIsJoined
  <2> QED BY <1>4, <2>1
<1> QED BY <1>6, <1>7, <1>8, <1>9, <1>10 DEF fs, n, h, R

-----------------------------------------------------------------------------
(* Nothing leaks: the invariant *)

(***************************************************************************)
(* Nothing leaks from the echo server, for any number of connections, any  *)
(* clients and any lengths.                                                *)
(***************************************************************************)

(* The fields of a connection's record *)
Fields == {"pc", "in", "peer", "cut", "carry", "buf", "hdr", "key", "msg", "msg_op", "tx",
           "next", "out", "due", "heap"}

(* Where conn_fiber can be *)
Stages == {"none", "start", "tx", "done"} \cup Reads

(* A record of these fields, at a stage of conn_fiber; when it writes, what *)
(* it does then is known.                                                   *)
Shaped(k) ==
    /\ k = [f \in Fields |-> k[f]]
    /\ k.pc \in Stages
    /\ k.pc = "tx" => k.next \in {"head", "done"}
    /\ k.heap \subseteq Blocks
    /\ k.pc = "none" => k.heap = {}

(* The listener has a descriptor in hand only between accept and spawn, and *)
(* no fiber runs on it yet.                                                 *)
Handing ==
    /\ lpc \in {"none", "bind", "args", "fiber", "start", "accept", "sleep", "spawn",
                "close", "gone", "killed"}
    /\ lpc = "spawn" => accepted \in Conns
    /\ lpc # "spawn" => accepted = Listener
    /\ \A c \in Conns : accepted = c => conn[c].pc = "none"

(* The inductive invariant *)
IInv ==
    /\ DOMAIN conn = Conns /\ conn = [c \in Conns |-> conn[c]]
    /\ \A c \in Conns : Shaped(conn[c])
    /\ Handing
    /\ NothingLeaks

-----------------------------------------------------------------------------
(* Handlers *)

(* The fiber goes on: its record keeps its shape and its buffers.           *)
GoesOn(k, j) == Shaped(j) /\ j.heap = k.heap /\ j.pc # "none"

(* A connection with a fiber *)
Live(k) == Shaped(k) /\ k.pc # "none"

(* To another field, or to the end.                                         *)
LEMMA GotoGoesOn ==
    ASSUME NEW k, Live(k), NEW stage \in Reads \cup {"done"}
    PROVE  GoesOn(k, Goto(k, stage))
BY DEF Live, GoesOn, Shaped, Goto, Stages, Reads, Fields

(* To writing.                                                              *)
LEMMA WritingGoesOn ==
    ASSUME NEW k, Live(k), NEW writes, NEW next \in {"head", "done"}
    PROVE  GoesOn(k, Writing(k, writes, next))
BY DEF Live, GoesOn, Shaped, Writing, Stages, Reads, Fields

(* A frame is sent, a close frame is the last.                              *)
LEMMA SendGoesOn ==
    ASSUME NEW k, Live(k)
    PROVE  /\ \A op, body : \A next \in {"head", "done"} :
                 GoesOn(k, SendFrame(k, op, body, next))
           /\ \A code : GoesOn(k, SendClose(k, code))
<1>1. \A op, body : \A next \in {"head", "done"} : GoesOn(k, SendFrame(k, op, body, next))
  <2> SUFFICES ASSUME NEW op, NEW body, NEW next \in {"head", "done"}
               PROVE  GoesOn(k, SendFrame(k, op, body, next))
    OBVIOUS
  <2>1. \E writes : SendFrame(k, op, body, next) = Writing(k, writes, next)
    BY DEF SendFrame
  <2>2. QED BY <2>1, WritingGoesOn
<1>2. QED BY <1>1 DEF SendClose

(* The message so far and its kind *)
WithMsg(k, m, o) == [k EXCEPT !.msg = m, !.msg_op = o]

(* Nor do its other fields matter.                                          *)
LEMMA FieldsGoOn ==
    ASSUME NEW k, Live(k)
    PROVE  /\ \A m, o : Live(WithMsg(k, m, o)) /\ WithMsg(k, m, o).heap = k.heap
           /\ \A h : LET j == [k EXCEPT !.hdr = h] IN Live(j) /\ j.heap = k.heap
           /\ \A n : LET j == [k EXCEPT !.hdr.len = n] IN Live(j) /\ j.heap = k.heap
           /\ \A x : LET j == [k EXCEPT !.key = x] IN Live(j) /\ j.heap = k.heap
           /\ \A x : LET j == [k EXCEPT !.carry = x] IN Live(j) /\ j.heap = k.heap
<1>1. \A m, o : Live(WithMsg(k, m, o)) /\ WithMsg(k, m, o).heap = k.heap
  <2> SUFFICES ASSUME NEW m, NEW o
               PROVE  Live(WithMsg(k, m, o)) /\ WithMsg(k, m, o).heap = k.heap
    OBVIOUS
  <2>1. k = [f \in Fields |-> k[f]]
    BY DEF Live, Shaped
  <2>2. WithMsg(k, m, o) = [f \in Fields |-> IF f = "msg_op" THEN o
                                             ELSE IF f = "msg" THEN m ELSE k[f]]
    BY <2>1 DEF WithMsg, Fields
  <2>3. QED BY <2>1, <2>2 DEF Live, Shaped, Fields
<1>2. \A h : LET j == [k EXCEPT !.hdr = h] IN Live(j) /\ j.heap = k.heap
  BY DEF Live, Shaped, Stages, Reads, Fields
<1>3. \A n : LET j == [k EXCEPT !.hdr.len = n] IN Live(j) /\ j.heap = k.heap
  BY DEF Live, Shaped, Stages, Reads, Fields
<1>4. \A x : LET j == [k EXCEPT !.key = x] IN Live(j) /\ j.heap = k.heap
  BY DEF Live, Shaped, Stages, Reads, Fields
<1>5. \A x : LET j == [k EXCEPT !.carry = x] IN Live(j) /\ j.heap = k.heap
  BY DEF Live, Shaped, Stages, Reads, Fields
<1>6. QED BY <1>1, <1>2, <1>3, <1>4, <1>5

(* What goes on from there goes on from here.                               *)
LEMMA Onwards ==
    ASSUME NEW k, NEW j, NEW i, j.heap = k.heap, GoesOn(j, i)
    PROVE  GoesOn(k, i)
BY DEF GoesOn

(* Every frame is answered, awaited or refused.                             *)
LEMMA OnFrameGoesOn ==
    ASSUME NEW k, Live(k), NEW body
    PROVE  GoesOn(k, OnFrame(k, body))
<1>1. GoesOn(k, OnDataFrame(k, body))
  <2> DEFINE starts == k.hdr.op # "CONT"
             op == IF starts THEN k.hdr.op ELSE k.msg_op
             sofar == IF starts THEN <<>> ELSE k.msg
             msg == sofar \o body
             j == WithMsg(k, msg, "none")
             l == WithMsg(k, msg, op)
  <2> HIDE DEF starts, op, sofar, msg
  <2>1. /\ GoesOn(k, SendClose(k, CLOSE_PROTOCOL)) /\ GoesOn(k, SendClose(k, CLOSE_TOO_BIG))
        /\ GoesOn(k, SendFrame(k, op, body, "head"))
    BY SendGoesOn
  <2>2. Live(j) /\ j.heap = k.heap /\ Live(l) /\ l.heap = k.heap
    BY FieldsGoOn
  <2> HIDE DEF j, l
  <2>3. GoesOn(k, SendFrame(j, op, msg, "head"))
    BY <2>2, SendGoesOn, Onwards
  <2>4. "head" \in Reads \cup {"done"}
    BY DEF Reads
  <2>5. GoesOn(k, Goto(l, "head"))
    BY <2>2, <2>4, GotoGoesOn, Onwards
  <2>6. OnDataFrame(k, body) =
           IF starts = (k.msg_op # "none") THEN SendClose(k, CLOSE_PROTOCOL)
           ELSE IF starts /\ k.hdr.fin THEN SendFrame(k, op, body, "head")
           ELSE IF TooLong(sofar, body) THEN SendClose(k, CLOSE_TOO_BIG)
           ELSE IF k.hdr.fin THEN SendFrame(j, op, msg, "head")
           ELSE Goto(l, "head")
    BY DEF OnDataFrame, starts, op, sofar, msg, j, l, WithMsg
  <2>7. QED BY <2>1, <2>3, <2>5, <2>6
<1>2. "head" \in Reads \cup {"done"}
  BY DEF Reads
<1>3. /\ GoesOn(k, SendFrame(k, "CLOSE", body, "done"))
      /\ GoesOn(k, Pong(k, body)) /\ GoesOn(k, Goto(k, "head"))
  BY <1>2, SendGoesOn, GotoGoesOn DEF Pong
<1>4. QED BY <1>1, <1>3 DEF OnFrame

(* ... as is every length, header and request.                              *)
LEMMA HandlersGoOn ==
    ASSUME NEW k, Live(k)
    PROVE  /\ GoesOn(k, Sized(k)) /\ GoesOn(k, RecvHead(k)) /\ GoesOn(k, RecvExt(k))
           /\ GoesOn(k, RecvMask(k)) /\ GoesOn(k, RecvPayload(k)) /\ GoesOn(k, Handshake(k))
<1>1. /\ {"head", "ext", "mask", "payload"} \subseteq Reads \cup {"done"}
      /\ {"head", "done"} \subseteq {"head", "done"}
  BY DEF Reads
<1>2. ASSUME NEW j, Live(j)
      PROVE  /\ GoesOn(j, Sized(j)) /\ GoesOn(j, Goto(j, "ext")) /\ GoesOn(j, Goto(j, "payload"))
             /\ \A code : GoesOn(j, SendClose(j, code))
  <2>1. /\ GoesOn(j, Goto(j, "mask")) /\ GoesOn(j, Goto(j, "ext"))
        /\ GoesOn(j, Goto(j, "payload"))
    BY <1>1, <1>2, GotoGoesOn
  <2>2. \A code : GoesOn(j, SendClose(j, code))
    BY <1>2, SendGoesOn
  <2>3. QED BY <2>1, <2>2 DEF Sized
<1>3. GoesOn(k, RecvHead(k))
  <2> DEFINE h == [k EXCEPT !.hdr = [fin |-> k.buf[1].v.fin, op |-> k.buf[1].v.op,
                                     len |-> k.buf[2].v.n]]
  <2>1. Live(h) /\ h.heap = k.heap
    BY FieldsGoOn
  <2>2. \/ RecvHead(k) = SendClose(h, CLOSE_PROTOCOL)
        \/ RecvHead(k) = Goto(h, "ext")
        \/ RecvHead(k) = Sized(h)
    BY DEF RecvHead
  <2> HIDE DEF h
  <2>3. QED BY <1>2, <2>1, <2>2, Onwards
<1>4. GoesOn(k, RecvExt(k))
  <2> DEFINE h == [k EXCEPT !.hdr.len = k.buf[1].v]
  <2>1. Live(h) /\ h.heap = k.heap
    BY FieldsGoOn
  <2>2. RecvExt(k) = SendClose(k, CLOSE_PROTOCOL) \/ RecvExt(k) = Sized(h)
    BY DEF RecvExt
  <2> HIDE DEF h
  <2>3. QED BY <1>2, <2>1, <2>2, Onwards
<1>5. GoesOn(k, RecvMask(k))
  <2> DEFINE h == [k EXCEPT !.key = k.buf[1].v]
  <2>1. Live(h) /\ h.heap = k.heap
    BY FieldsGoOn
  <2>2. RecvMask(k) = Goto(h, "payload")
    BY DEF RecvMask
  <2> HIDE DEF h
  <2>3. QED BY <1>2, <2>1, <2>2, Onwards
<1>6. GoesOn(k, RecvPayload(k))
  BY OnFrameGoesOn DEF RecvPayload
<1>7. GoesOn(k, Handshake(k))
  <2> DEFINE h == [k EXCEPT !.carry = Behind(k.buf, HeaderEnd(k.buf))]
  <2>1. Live(h) /\ h.heap = k.heap
    BY FieldsGoOn
  <2>2. \/ Handshake(k) = Writing(k, <<<<Cell("http", 431)>>>>, "done")
        \/ Handshake(k) = Writing(h, <<<<Cell("http", 400)>>>>, "done")
        \/ Handshake(k) = Writing(h, <<<<Cell("http", 101)>>>>, "head")
    BY DEF Handshake
  <2> HIDE DEF h
  <2>3. /\ \A writes : GoesOn(k, Writing(k, writes, "done"))
        /\ \A writes : GoesOn(h, Writing(h, writes, "done")) /\ GoesOn(h, Writing(h, writes, "head"))
    BY <2>1, WritingGoesOn
  <2>4. QED BY <2>1, <2>2, <2>3, Onwards
<1>8. QED BY <1>2, <1>3, <1>4, <1>5, <1>6, <1>7

-----------------------------------------------------------------------------
(* Steps *)

(* Whatever is written to the other fields of a connection, it goes on.     *)
LEMMA OthersGoOn ==
    ASSUME NEW k, Live(k), NEW j, j = [f \in Fields |-> j[f]],
           j.pc = k.pc, j.next = k.next, j.heap = k.heap
    PROVE  GoesOn(k, j)
BY DEF Live, GoesOn, Shaped

(* A connection's own step after which it is still there.                   *)
LEMMA StepKeeps ==
    ASSUME IInv, NEW c \in Conns, conn[c].pc # "none", NEW k, Shaped(k), k.pc # "none",
           conn' = [conn EXCEPT ![c] = k], UNCHANGED <<fds, listenVars>>
    PROVE  IInv'
<1>1. /\ UNCHANGED <<fds, lpc, served, max_conns, accepted, args>>
      /\ conn = [d \in Conns |-> conn[d]] /\ DOMAIN conn = Conns
  BY DEF listenVars, IInv
<1>2. conn'[c] = k /\ \A d \in Conns \ {c} : conn'[d] = conn[d]
  BY <1>1
<1>3. DOMAIN conn' = Conns /\ conn' = [d \in Conns |-> conn'[d]]
  BY <1>1
<1>5. \A d \in Conns : /\ Shaped(conn'[d]) /\ (conn'[d].pc = "none" <=> conn[d].pc = "none")
                       /\ conn'[d].pc = "none" => conn'[d].heap = {}
  BY <1>2 DEF IInv, NothingLeaks
<1>6. \A d \in Conns : Shaped(conn[d])'
  BY <1>5 DEF Shaped
<1>7. Handing'
  BY <1>1, <1>5 DEF IInv, Handing
<1>8. NothingLeaks'
  BY <1>1, <1>5 DEF IInv, NothingLeaks
<1>9. QED BY <1>3, <1>6, <1>7, <1>8 DEF IInv

(* A fiber that ends closes its descriptor and has freed what it had.       *)
LEMMA EndKeeps ==
    ASSUME IInv, NEW c \in Conns, conn[c].pc # "none",
           conn' = [conn EXCEPT ![c] = Idle], fds' = fds \ {c}, UNCHANGED listenVars
    PROVE  IInv'
<1>1. /\ conn = [d \in Conns |-> conn[d]] /\ DOMAIN conn = Conns
      /\ UNCHANGED <<lpc, served, max_conns, accepted, args>>
  BY DEF IInv, listenVars
<1>2. conn'[c] = Idle /\ \A d \in Conns \ {c} : conn'[d] = conn[d]
  BY <1>1
<1>3. DOMAIN conn' = Conns /\ conn' = [d \in Conns |-> conn'[d]]
  BY <1>1
<1>4. Idle.pc = "none" /\ Idle.heap = {} /\ Shaped(Idle)
  BY DEF Idle, Shaped, Fields, Stages
<1>5. \A d \in Conns : Shaped(conn'[d])
  BY <1>2, <1>4 DEF IInv
<1>6. \A d \in Conns : Shaped(conn[d])'
  BY <1>5 DEF Shaped
<1>7. accepted # c
  BY DEF IInv, Handing
<1>8. Handing'
  BY <1>1, <1>2, <1>4 DEF IInv, Handing
<1>9. NothingLeaks'
  <2>1. \A d \in Conns : d \in fds' <=> (conn'[d].pc # "none" \/ accepted' = d)
    BY <1>1, <1>2, <1>4, <1>7 DEF IInv, NothingLeaks
  <2>2. \A d \in Conns : conn'[d].pc = "none" => conn'[d].heap = {}
    BY <1>2, <1>4 DEF IInv, NothingLeaks
  <2>3. Listener \in fds' <=> Listener \in fds
    BY ConstantsAssumption
  <2>4. QED BY <1>1, <2>1, <2>2, <2>3 DEF IInv, NothingLeaks
<1>10. QED BY <1>3, <1>6, <1>8, <1>9 DEF IInv

(* The fiber of a connection, from its start to its end.                    *)
LEMMA ConnFiberKeeps ==
    ASSUME IInv, NEW c \in Conns, ConnFiber(c)
    PROVE  IInv'
<1> DEFINE k == conn[c]
<1>1. Shaped(k) /\ k = [f \in Fields |-> k[f]]
  BY DEF IInv, Shaped
<1>2. CASE Start(c)
  <2>1. k.pc = "start"
    BY <1>2 DEF Start
  <2>2. PICK got \in {{}, {"conn"}, {"conn", "payload"}, {"conn", "msg"}, Blocks} :
          \/ /\ conn' = [conn EXCEPT ![c] = Idle]
             /\ fds' = fds \ {c}
          \/ /\ conn' = [conn EXCEPT ![c].heap = got,
                                     ![c].pc = IF got = Blocks THEN "request" ELSE "done"]
             /\ UNCHANGED fds
    BY <1>2 DEF Start
  <2>3. UNCHANGED listenVars
    BY <1>2 DEF Start
  <2>4. CASE conn' = [conn EXCEPT ![c] = Idle] /\ fds' = fds \ {c}
    BY <2>1, <2>3, <2>4, EndKeeps
  <2>5. CASE conn' = [conn EXCEPT ![c].heap = got,
                                  ![c].pc = IF got = Blocks THEN "request" ELSE "done"]
             /\ UNCHANGED fds
    <3>1. PICK j : j = [k EXCEPT !.heap = got, !.pc = IF got = Blocks THEN "request" ELSE "done"]
      OBVIOUS
    <3>2. got \subseteq Blocks
      BY DEF Blocks
    <3>3. j = [f \in Fields |-> IF f = "pc" THEN IF got = Blocks THEN "request" ELSE "done"
                                ELSE IF f = "heap" THEN got ELSE k[f]]
      BY <1>1, <3>1 DEF Fields
    <3>4. Shaped(j) /\ j.pc # "none"
      BY <1>1, <3>2, <3>3 DEF Shaped, Stages, Reads, Fields
    <3>5. conn' = [conn EXCEPT ![c] = j]
      BY <2>5, <3>1 DEF IInv
    <3>6. QED BY <2>1, <2>3, <2>5, <3>4, <3>5, StepKeeps
  <2>6. QED BY <2>2, <2>4, <2>5
<1>3. CASE Done(c)
  <2>1. /\ k.pc = "done" /\ conn' = [conn EXCEPT ![c] = [Idle EXCEPT !.heap = k.heap \ Blocks]]
        /\ fds' = fds \ {c} /\ UNCHANGED listenVars
    BY <1>3 DEF Done, Freed
  <2>2. k.heap \ Blocks = {}
    BY <1>1 DEF Shaped
  <2>3. [Idle EXCEPT !.heap = k.heap \ Blocks] = Idle
    <3>1. Idle.heap = {} /\ Idle = [f \in Fields |-> Idle[f]]
      BY DEF Idle, Fields
    <3>2. [Idle EXCEPT !.heap = {}] = [f \in Fields |-> IF f = "heap" THEN {} ELSE Idle[f]]
      BY <3>1 DEF Fields
    <3>3. QED BY <2>2, <3>1, <3>2
  <2>4. QED BY <2>1, <2>3, EndKeeps
\* Every other step leaves the buffers and goes on
<1>4. ASSUME Live(k), NEW j, GoesOn(k, j), Become(c, j)
      PROVE  IInv'
  BY <1>4, StepKeeps DEF Live, GoesOn, Become
<1>5. Starved(k) => Live(k) /\ k.pc \in Reads
  BY <1>1 DEF Starved, Live, Reads
<1>6. CASE ReadCarried(c)
  <2>1. PICK x, y : Starved(k) /\ Become(c, [k EXCEPT !.buf = x, !.carry = y])
    BY <1>6 DEF ReadCarried
  <2>2. PICK j : j = [k EXCEPT !.buf = x, !.carry = y]
    OBVIOUS
  <2>3. j = [f \in Fields |-> IF f = "carry" THEN y ELSE IF f = "buf" THEN x ELSE k[f]]
    BY <1>1, <2>2 DEF Fields
  <2>4. GoesOn(k, j)
    BY <1>5, <2>1, <2>3, OthersGoOn DEF Fields
  <2>5. QED BY <1>4, <1>5, <2>1, <2>2, <2>4
<1>7. CASE Read(c)
  <2>1. PICK x, y : Starved(k) /\ Become(c, [k EXCEPT !.buf = x, !.in = y])
    BY <1>7 DEF Read
  <2>2. PICK j : j = [k EXCEPT !.buf = x, !.in = y]
    OBVIOUS
  <2>3. j = [f \in Fields |-> IF f = "in" THEN y ELSE IF f = "buf" THEN x ELSE k[f]]
    BY <1>1, <2>2 DEF Fields
  <2>4. GoesOn(k, j)
    BY <1>5, <2>1, <2>3, OthersGoOn DEF Fields
  <2>5. QED BY <1>4, <1>5, <2>1, <2>2, <2>4
<1>8. CASE ReadEnds(c)
  <2>1. Starved(k) /\ Become(c, Goto(k, "done"))
    BY <1>8 DEF ReadEnds
  <2>2. GoesOn(k, Goto(k, "done"))
    BY <1>5, <2>1, GotoGoesOn
  <2>3. QED BY <1>4, <1>5, <2>1, <2>2
<1>9. CASE Write(c)
  <2>1. k.pc = "tx"
    BY <1>9 DEF Write
  <2>2. PICK x, y, stage : /\ stage \in {"tx", k.next}
                           /\ Become(c, [k EXCEPT !.out = x, !.tx = y, !.pc = stage])
    <3> DEFINE stage == IF Len(k.tx) = 1 THEN k.next ELSE "tx"
    <3>1. Become(c, [k EXCEPT !.out = k.out \o Head(k.tx), !.tx = Tail(k.tx), !.pc = stage])
      BY <1>9 DEF Write
    <3>2. stage \in {"tx", k.next}
      OBVIOUS
    <3> HIDE DEF stage
    <3>3. QED BY <3>1, <3>2
  <2>3. Live(k)
    BY <1>1, <2>1 DEF Live
  <2>4. PICK j : j = [k EXCEPT !.out = x, !.tx = y, !.pc = stage]
    OBVIOUS
  <2>5. j = [f \in Fields |-> IF f = "pc" THEN stage ELSE IF f = "tx" THEN y
                              ELSE IF f = "out" THEN x ELSE k[f]]
    BY <1>1, <2>4 DEF Fields
  <2>6. GoesOn(k, j)
    BY <1>1, <2>1, <2>2, <2>5 DEF GoesOn, Shaped, Stages, Reads, Fields
  <2>7. QED BY <1>4, <2>2, <2>3, <2>4, <2>6
<1>10. CASE WriteFails(c)
  <2>1. PICK x : k.pc = "tx" /\ Become(c, [k EXCEPT !.out = x, !.tx = <<>>, !.pc = "done"])
    BY <1>10 DEF WriteFails
  <2>2. Live(k)
    BY <1>1, <2>1 DEF Live
  <2>3. PICK j : j = [k EXCEPT !.out = x, !.tx = <<>>, !.pc = "done"]
    OBVIOUS
  <2>4. j = [f \in Fields |-> IF f = "pc" THEN "done" ELSE IF f = "tx" THEN <<>>
                              ELSE IF f = "out" THEN x ELSE k[f]]
    BY <1>1, <2>3 DEF Fields
  <2>5. GoesOn(k, j)
    BY <1>1, <2>1, <2>4 DEF GoesOn, Shaped, Stages, Reads, Fields
  <2>6. QED BY <1>4, <2>1, <2>2, <2>3, <2>5
<1>11. CASE HandleRequest(c) \/ HandleHead(c) \/ HandleExt(c) \/ HandleMask(c) \/ HandlePayload(c)
  <2>1. k.pc \in Reads
    BY <1>11 DEF HandleRequest, HandleHead, HandleExt, HandleMask, HandlePayload, Field, Reads
  <2>2. Live(k)
    BY <1>1, <2>1 DEF Live, Reads
  <2>3. PICK j \in {Handshake(k), RecvHead(k), RecvExt(k), RecvMask(k), RecvPayload(k)} :
           Become(c, j)
    BY <1>11 DEF HandleRequest, HandleHead, HandleExt, HandleMask, HandlePayload
  <2>4. GoesOn(k, j)
    BY <2>2, HandlersGoOn
  <2>5. QED BY <1>4, <2>2, <2>3, <2>4
<1>12. QED BY <1>2, <1>3, <1>6, <1>7, <1>8, <1>9, <1>10, <1>11 DEF ConnFiber, Proceeds

(* The server and its listener.                                             *)
LEMMA ListenerKeeps ==
    ASSUME IInv, Serve \/ ServeFails \/ ListenFiber
    PROVE  IInv'
<1>1. /\ conn = [d \in Conns |-> conn[d]] /\ DOMAIN conn = Conns
      /\ \A d \in Conns : Shaped(conn[d]) /\ d # Listener
  BY ConstantsAssumption DEF IInv
\* No connection is touched
<1>2. ASSUME conn' = conn, Handing', NothingLeaks'
      PROVE  IInv'
  <2>1. \A d \in Conns : Shaped(conn[d])'
    BY <1>1, <1>2 DEF Shaped
  <2>2. QED BY <1>1, <1>2, <2>1 DEF IInv
<1>3. CASE Serve
  <2>1. /\ fds' = fds \cup {Listener} /\ UNCHANGED <<conn, served, accepted>>
        /\ lpc \in {"none", "bind", "args", "fiber"}
        /\ lpc' \in {"bind", "args", "fiber", "start"}
        /\ args' => lpc' \in {"fiber", "start"}
    BY <1>3 DEF Serve, IInv, NothingLeaks
  <2>2. Handing' /\ NothingLeaks'
    BY <1>1, <2>1 DEF IInv, Handing, NothingLeaks
  <2>3. QED BY <1>2, <2>1, <2>2
<1>4. CASE ServeFails
  <2>1. /\ fds' = fds \ {Listener} /\ UNCHANGED <<conn, served, accepted>>
        /\ lpc \in {"bind", "args", "fiber"} /\ lpc' = "none" /\ args' = FALSE
    BY <1>4 DEF ServeFails
  <2>2. Handing' /\ NothingLeaks'
    BY <1>1, <2>1 DEF IInv, Handing, NothingLeaks
  <2>3. QED BY <1>2, <2>1, <2>2
<1>5. CASE ListenStart
  <2>1. /\ UNCHANGED <<conn, fds, accepted>>
        /\ lpc = "start" /\ lpc' = "accept" /\ args' = FALSE
    BY <1>5 DEF ListenStart
  <2>2. Handing' /\ NothingLeaks'
    BY <1>1, <2>1 DEF IInv, Handing, NothingLeaks
  <2>3. QED BY <1>2, <2>1, <2>2
<1>6. CASE AcceptFails
  <2>1. /\ UNCHANGED <<conn, fds, accepted, args>>
        /\ lpc \in {"accept", "sleep"} /\ lpc' \in {"accept", "sleep", "close"}
    BY <1>6 DEF AcceptFails
  <2>2. Handing' /\ NothingLeaks'
    BY <1>1, <2>1 DEF IInv, Handing, NothingLeaks
  <2>3. QED BY <1>2, <2>1, <2>2
<1>7. ASSUME NEW c \in Conns, Accept(c)
      PROVE  IInv'
  <2>1. /\ lpc = "accept" /\ lpc' = "spawn" /\ c \notin fds /\ fds' = fds \cup {c}
        /\ accepted' = c /\ UNCHANGED <<conn, args>>
    BY <1>7 DEF Accept
  <2>2. conn[c].pc = "none" /\ accepted = Listener
    BY <2>1 DEF IInv, NothingLeaks, Handing
  <2>3. Handing'
    BY <1>1, <2>1, <2>2 DEF IInv, Handing
  <2>4. NothingLeaks'
    BY <1>1, <2>1, <2>2 DEF IInv, NothingLeaks
  <2>5. QED BY <1>2, <2>1, <2>3, <2>4
<1>8. ASSUME NEW script \in Scripts, Spawn(script)
      PROVE  IInv'
  <2>1. PICK j : j = [Idle EXCEPT !.pc = "start", !.in = Wire(script), !.due = Owed(script)]
    OBVIOUS
  <2>2. /\ lpc = "spawn" /\ lpc' \in {"accept", "close"} /\ accepted' = Listener
        /\ conn' = [conn EXCEPT ![accepted] = j] /\ UNCHANGED <<fds, args>>
    BY <1>8, <2>1 DEF Spawn
  <2>3. accepted \in Conns /\ conn[accepted].pc = "none" /\ accepted \in fds
    BY <2>2 DEF IInv, Handing, NothingLeaks
  <2>4. /\ j.pc = "start" /\ j.heap = {} /\ Shaped(j)
    BY <2>1 DEF Idle, Shaped, Fields, Stages
  <2>5. conn'[accepted] = j /\ \A d \in Conns \ {accepted} : conn'[d] = conn[d]
    BY <1>1, <2>2, <2>3
  <2>6. DOMAIN conn' = Conns /\ conn' = [d \in Conns |-> conn'[d]]
    BY <1>1, <2>2
  <2>7. \A d \in Conns : Shaped(conn'[d])
    BY <1>1, <2>4, <2>5
  <2>8. \A d \in Conns : Shaped(conn[d])'
    BY <2>7 DEF Shaped
  <2>9. Handing'
    BY <1>1, <2>2 DEF IInv, Handing
  <2>10. NothingLeaks'
    BY <1>1, <2>2, <2>3, <2>4, <2>5 DEF IInv, NothingLeaks
  <2>11. QED BY <2>6, <2>8, <2>9, <2>10 DEF IInv
<1>9. CASE SpawnFails
  <2>1. /\ lpc = "spawn" /\ lpc' = "accept" /\ fds' = fds \ {accepted}
        /\ accepted' = Listener /\ UNCHANGED <<conn, args>>
    BY <1>9 DEF SpawnFails
  <2>2. accepted \in Conns /\ conn[accepted].pc = "none"
    BY <2>1 DEF IInv, Handing
  <2>3. Handing'
    BY <1>1, <2>1 DEF IInv, Handing
  <2>4. NothingLeaks'
    BY <1>1, <2>1, <2>2 DEF IInv, NothingLeaks
  <2>5. QED BY <1>2, <2>1, <2>3, <2>4
<1>10. CASE ListenClose
  <2>1. /\ lpc = "close" /\ lpc' = "gone" /\ fds' = fds \ {Listener}
        /\ UNCHANGED <<conn, accepted, args>>
    BY <1>10 DEF ListenClose
  <2>2. Handing' /\ NothingLeaks'
    BY <1>1, <2>1 DEF IInv, Handing, NothingLeaks
  <2>3. QED BY <1>2, <2>1, <2>2
<1>11. QED
  BY <1>3, <1>4, <1>5, <1>6, <1>7, <1>8, <1>9, <1>10 DEF ListenFiber

(* The client stops sending, or is lost.                                    *)
LEMMA PeerKeeps ==
    ASSUME IInv, NEW c \in Conns, PeerCloses(c) \/ PeerResets(c)
    PROVE  IInv'
<1> DEFINE k == conn[c]
<1>1. k.pc # "none" /\ Shaped(k) /\ k = [f \in Fields |-> k[f]]
  BY DEF IInv, Shaped, PeerCloses, PeerResets
<1>2. ASSUME NEW j, GoesOn(k, j), Become(c, j)
      PROVE  IInv'
  BY <1>1, <1>2, StepKeeps DEF GoesOn, Become
<1>3. CASE PeerCloses(c)
  <2>1. PICK x, y : Become(c, [k EXCEPT !.peer = "eof", !.in = x, !.cut = y])
    BY <1>3 DEF PeerCloses
  <2>2. PICK j : j = [k EXCEPT !.peer = "eof", !.in = x, !.cut = y]
    OBVIOUS
  <2>3. j = [f \in Fields |-> IF f = "cut" THEN y ELSE IF f = "in" THEN x
                              ELSE IF f = "peer" THEN "eof" ELSE k[f]]
    BY <1>1, <2>2 DEF Fields
  <2>4. GoesOn(k, j)
    BY <1>1, <2>3, OthersGoOn DEF Live, Fields
  <2>5. QED BY <1>2, <2>1, <2>2, <2>4
<1>4. CASE PeerResets(c)
  <2>1. Become(c, [k EXCEPT !.peer = "reset", !.in = <<>>])
    BY <1>4 DEF PeerResets
  <2>2. PICK j : j = [k EXCEPT !.peer = "reset", !.in = <<>>]
    OBVIOUS
  <2>3. j = [f \in Fields |-> IF f = "in" THEN <<>>
                              ELSE IF f = "peer" THEN "reset" ELSE k[f]]
    BY <1>1, <2>2 DEF Fields
  <2>4. GoesOn(k, j)
    BY <1>1, <2>3, OthersGoOn DEF Live, Fields
  <2>5. QED BY <1>2, <2>1, <2>2, <2>4
<1>5. QED BY <1>3, <1>4

(* The signal leaves nothing: no connection, no descriptor, no listener.    *)
LEMMA KillKeeps ==
    ASSUME IInv, NEW c \in Conns, WriteKills(c)
    PROVE  IInv'
<1>1. /\ conn' = [d \in Conns |-> Idle] /\ fds' = {}
      /\ lpc' = "killed" /\ accepted' = Listener /\ args' = FALSE
  BY DEF WriteKills
<1>2. Idle.pc = "none" /\ Idle.heap = {} /\ Shaped(Idle)
  BY DEF Idle, Shaped, Fields, Stages
<1>3. DOMAIN conn' = Conns /\ conn' = [d \in Conns |-> conn'[d]]
      /\ \A d \in Conns : conn'[d] = Idle
  BY <1>1
<1>4. \A d \in Conns : Shaped(conn[d])'
  BY <1>2, <1>3 DEF Shaped
<1>5. Handing' /\ NothingLeaks'
  BY <1>1, <1>2, <1>3, ConstantsAssumption DEF Handing, NothingLeaks
<1>6. QED BY <1>3, <1>4, <1>5 DEF IInv

-----------------------------------------------------------------------------
(* Theorem of the first invariant *)

(* The shape of the records and the listener's hand-over hold throughout.   *)
LEMMA IInvHolds == Spec => []IInv
<1>1. Init => IInv
  <2> SUFFICES ASSUME Init PROVE IInv
    OBVIOUS
  <2>1. Idle.pc = "none" /\ Idle.heap = {} /\ Shaped(Idle)
    BY DEF Idle, Shaped, Fields, Stages
  <2>2. /\ DOMAIN conn = Conns /\ conn = [c \in Conns |-> conn[c]]
        /\ \A c \in Conns : conn[c] = Idle
    BY DEF Init
  <2>3. Handing /\ NothingLeaks
    BY <2>1, <2>2, ConstantsAssumption DEF Init, Handing, NothingLeaks
  <2>4. QED BY <2>1, <2>2, <2>3 DEF IInv
<1>2. IInv /\ [Next]_vars => IInv'
  <2> SUFFICES ASSUME IInv, [Next]_vars PROVE IInv'
    OBVIOUS
  <2>1. CASE UNCHANGED vars
    BY <2>1 DEF vars, listenVars, IInv, Shaped, Handing, NothingLeaks
  <2>2. CASE Next
    BY <2>2, ListenerKeeps, ConnFiberKeeps, PeerKeeps, KillKeeps DEF Next
  <2>3. QED BY <2>1, <2>2
<1>3. QED BY <1>1, <1>2, PTL DEF Spec

(* Whatever fails, and at whatever point, a descriptor is open exactly      *)
(* while a fiber is there to close it, and so is the memory.                *)
THEOREM NothingIsLeaked == Spec => []NothingLeaks
<1>1. IInv => NothingLeaks
  BY DEF IInv
<1>2. QED BY <1>1, IInvHolds, PTL

-----------------------------------------------------------------------------
(* Places in the stream *)

(* r is what follows place p of stream w, all of it if whole.               *)
Along(r, whole, w, p) ==
    /\ p \in Nat /\ p + Len(r) <= Len(w)
    /\ \A j \in 1 .. Len(r) : r[j] = w[p + j]
    /\ whole => p + Len(r) = Len(w)

(* Nothing the client sent has been lost.                                   *)
Lossless(k) == ~ k.cut /\ k.peer # "reset"

(* What connection k has read and not used, and what it has yet to read,    *)
(* is what follows place p of stream w ...                                  *)
At(k, w, p) == Along(k.buf \o (k.carry \o k.in), Lossless(k), w, p)

(* ... and what follows when the field in hand has been used.               *)
After(k, w, p) == Along(k.carry \o k.in, Lossless(k), w, p)

(* Of what follows a place, each part follows its own.                      *)
LEMMA AlongParts ==
    ASSUME NEW w \in Seq(Cells), NEW p \in Nat, NEW b \in Seq(Cells), NEW t \in Seq(Cells),
           NEW e, Along(b \o t, e, w, p)
    PROVE  /\ Along(t, e, w, p + Len(b)) /\ p + Len(b) <= Len(w)
           /\ \A j \in 1 .. Len(b) : b[j] = w[p + j]
           /\ Along(b, FALSE, w, p)
<1>1. /\ Len(b) \in Nat /\ Len(t) \in Nat /\ Len(w) \in Nat
      /\ Len(b \o t) = Len(b) + Len(t)
      /\ \A j \in 1 .. Len(b) : (b \o t)[j] = b[j]
      /\ \A j \in 1 .. Len(t) : (b \o t)[Len(b) + j] = t[j]
  BY Cat
<1>2. /\ p + Len(b \o t) <= Len(w)
      /\ \A j \in 1 .. Len(b \o t) : (b \o t)[j] = w[p + j]
      /\ e => p + Len(b \o t) = Len(w)
  BY DEF Along
<1> DEFINE x == b \o t
<1> HIDE DEF x
<1>3. /\ Len(x) = Len(b) + Len(t) /\ p + Len(x) <= Len(w)
      /\ \A j \in 1 .. Len(b) : x[j] = b[j]
      /\ \A j \in 1 .. Len(t) : x[Len(b) + j] = t[j]
      /\ \A j \in 1 .. Len(x) : x[j] = w[p + j]
      /\ e => p + Len(x) = Len(w)
  BY <1>1, <1>2 DEF x
<1>4. p + Len(b) <= Len(w) /\ p + Len(b) \in Nat /\ (p + Len(b)) + Len(t) <= Len(w)
  BY <1>1, <1>3
<1>5. e => (p + Len(b)) + Len(t) = Len(w)
  BY <1>1, <1>3
<1>6. \A j \in 1 .. Len(b) : b[j] = w[p + j]
  BY <1>1, <1>3
<1>7. ASSUME NEW j \in 1 .. Len(t)
      PROVE  t[j] = w[(p + Len(b)) + j]
  <2>1. Len(b) + j \in 1 .. Len(x) /\ p + (Len(b) + j) = (p + Len(b)) + j
    BY <1>1, <1>3
  <2> QED BY <1>3, <2>1
<1> QED BY <1>4, <1>5, <1>6, <1>7 DEF Along

(* The first n of a sequence; Behind has the others.                        *)
Before(b, n) == SubSeq(b, 1, n)

(* A stream cut in two                                                      *)
LEMMA Cut ==
    ASSUME NEW T, NEW b \in Seq(T), NEW n \in 0 .. Len(b)
    PROVE  /\ Before(b, n) \in Seq(T) /\ Len(Before(b, n)) = n
           /\ Behind(b, n) \in Seq(T) /\ Len(Behind(b, n)) = Len(b) - n
           /\ Before(b, n) \o Behind(b, n) = b
<1> DEFINE x == SubSeq(b, 1, n)
           y == SubSeq(b, n + 1, Len(b))
<1>1. x \in Seq(T) /\ Len(x) = n /\ \A j \in 1 .. n : x[j] = b[j]
  OBVIOUS
<1>2. y \in Seq(T) /\ Len(y) = Len(b) - n /\ \A j \in 1 .. Len(b) - n : y[j] = b[n + j]
  <2>1. Len(b) \in Nat /\ n + 1 \in Int /\ \A i \in n + 1 .. Len(b) : b[i] \in T
    OBVIOUS
  <2> DEFINE l == Len(b)
             m == n + 1
  <2>2. m \in Int /\ l \in Int /\ \A i \in m .. l : b[i] \in T
    BY <2>1
  <2>3. l - m + 1 = Len(b) - n /\ (m <= l <=> 0 < Len(b) - n) /\ Len(b) - n \in Nat
    BY <2>1
  <2>4. \A j \in 1 .. Len(b) - n : m + j - 1 = n + j
    BY <2>1
  <2> HIDE DEF l, m
  <2>5. /\ SubSeq(b, m, l) \in Seq(T)
        /\ Len(SubSeq(b, m, l)) = IF m <= l THEN l - m + 1 ELSE 0
        /\ \A i \in 1 .. l - m + 1 : SubSeq(b, m, l)[i] = b[m + i - 1]
    BY <2>2, SubSeqProperties
  <2>6. Len(SubSeq(b, m, l)) = Len(b) - n
    BY <2>3, <2>5
  <2>7. \A j \in 1 .. Len(b) - n : SubSeq(b, m, l)[j] = b[n + j]
    BY <2>3, <2>4, <2>5
  <2> QED BY <2>5, <2>6, <2>7 DEF l, m
<1> HIDE DEF x, y
<1>3. /\ x \o y \in Seq(T) /\ Len(x \o y) = n + (Len(b) - n)
      /\ \A j \in 1 .. n : (x \o y)[j] = x[j]
      /\ \A j \in 1 .. Len(b) - n : (x \o y)[n + j] = y[j]
  <2>1. x \in Seq(T) /\ y \in Seq(T)
    BY <1>1, <1>2
  <2>2. /\ x \o y \in Seq(T) /\ Len(x \o y) = Len(x) + Len(y)
        /\ \A j \in 1 .. Len(x) : (x \o y)[j] = x[j]
        /\ \A j \in 1 .. Len(y) : (x \o y)[Len(x) + j] = y[j]
    BY <2>1, Cat
  <2> QED BY <1>1, <1>2, <2>2
<1>4. Len(b) \in Nat
  OBVIOUS
<1> DEFINE z == x \o y
<1>5. /\ z \in Seq(T) /\ Len(z) = Len(b)
      /\ \A j \in 1 .. n : z[j] = b[j]
      /\ \A j \in 1 .. Len(b) - n : z[n + j] = b[n + j]
  BY <1>1, <1>2, <1>3, <1>4
<1> HIDE DEF z
<1>6. x \o y = b
  <2>1. ASSUME NEW j \in 1 .. Len(b)
        PROVE  z[j] = b[j]
    <3>1. CASE j <= n
      BY <1>5, <3>1
    <3>2. CASE n < j
      <4> DEFINE l == j - n
      <4>1. l \in 1 .. Len(b) - n /\ n + l = j
        BY <1>4, <3>2
      <4> HIDE DEF l
      <4> QED BY <1>5, <4>1
    <3> QED BY <3>1, <3>2
  <2>2. z = b
    BY <1>5, <2>1, SeqEqual
  <2> QED BY <2>2 DEF z
<1> QED BY <1>1, <1>2, <1>6 DEF x, y, Before, Behind

(* The same stream, cut at another place                                    *)
LEMMA Recut ==
    ASSUME NEW T, NEW a \in Seq(T), NEW b \in Seq(T), NEW n \in 0 .. Len(b)
    PROVE  /\ a \o Before(b, n) \in Seq(T) /\ Len(a \o Before(b, n)) = Len(a) + n
           /\ (a \o Before(b, n)) \o Behind(b, n) = a \o b
<1> DEFINE x == Before(b, n)
           y == Behind(b, n)
<1>1. x \in Seq(T) /\ Len(x) = n /\ y \in Seq(T) /\ x \o y = b
  BY Cut
<1> HIDE DEF x, y
<1>2. a \o x \in Seq(T) /\ Len(a \o x) = Len(a) + n
  BY <1>1, Cat
<1>3. (a \o x) \o y = a \o (x \o y)
  <2>1. x \in Seq(T) /\ y \in Seq(T)
    BY <1>1
  <2> QED BY <2>1, Assoc
<1>4. (a \o x) \o y = a \o b
  BY <1>1, <1>3
<1> QED BY <1>2, <1>4 DEF x, y

-----------------------------------------------------------------------------
(* Records *)

(* The fields that a connection keeps when it goes on to read or to write   *)
Kept(k, j) ==
    /\ j.in = k.in /\ j.peer = k.peer /\ j.cut = k.cut /\ j.carry = k.carry
    /\ j.out = k.out /\ j.due = k.due /\ j.msg = k.msg /\ j.msg_op = k.msg_op

(* A connection that goes on to read: its fields.                           *)
LEMMA GotoIs ==
    ASSUME NEW k, k = [f \in Fields |-> k[f]], NEW stage
    PROVE  LET j == Goto(k, stage) IN
           /\ j = [f \in Fields |-> j[f]] /\ Kept(k, j)
           /\ j.pc = stage /\ j.buf = <<>> /\ j.hdr = k.hdr /\ j.key = k.key /\ j.tx = k.tx
           /\ j.heap = k.heap
BY DEF Goto, Kept, Fields

(* A connection that goes on to write: its fields.                          *)
LEMMA WritingIs ==
    ASSUME NEW k, k = [f \in Fields |-> k[f]], NEW writes, NEW next
    PROVE  LET j == Writing(k, writes, next) IN
           /\ j = [f \in Fields |-> j[f]] /\ Kept(k, j)
           /\ j.pc = "tx" /\ j.buf = <<>> /\ j.tx = writes /\ j.next = next /\ j.heap = k.heap
BY DEF Writing, Kept, Fields

-----------------------------------------------------------------------------
(* The echo: the invariant *)

(* Connection k has written, or has yet to write in one or two calls, said. *)
Telling(k, said) ==
    \E a, b \in Seq(Cells) : \/ k.tx = <<a>> /\ k.out \o a = said
                             \/ k.tx = <<a, b>> /\ (k.out \o a) \o b = said

(* Its buffers and its peer *)
Sane(k) ==
    /\ k.buf \in Seq(Cells) /\ k.carry \in Seq(Cells) /\ k.in \in Seq(Cells)
    /\ k.out \in Seq(Cells) /\ k.due \in Seq(Cells) /\ k.msg \in Seq(Cells)
    /\ k.cut \in BOOLEAN /\ (k.peer = "up" => ~ k.cut)
    /\ Len(k.carry) < MaxRequest /\ Len(k.msg) <= MaxPayload

(* The message that is unfinished after i frames *)
Reassembles(k, fs, i) ==
    IF Open(fs, i + 1)
    THEN k.msg = Bits(Body(fs, i)) /\ k.msg_op = Kind(fs, i) /\ k.msg_op # "none"
    ELSE k.msg_op = "none"

(* It has accepted the client of script s and taken i frames, none of which *)
(* ends the connection.                                                     *)
Mid(k, s, i) ==
    /\ Sane(k) /\ s \in Scripts /\ k.due = Owed(s) /\ Owed(s) = Said(s, Len(s.frames))
    /\ i \in 0 .. Len(s.frames) /\ \A j \in 1 .. i : ~ Ends(s.frames, j)
    /\ Reassembles(k, s.frames, i)

(* What it knows of the frame it reads *)
Sound(f) == ~ f.rsv /\ f.masked /\ f.op \in Ops
Knows(k, f) == k.hdr = [fin |-> f.fin, op |-> f.op, len |-> f.len]
Fits(f) == Legal(f) /\ ~ (f.len > MaxPayload)

InFrame(k, s, i, f) ==
    \/ /\ k.pc = "ext" /\ Sound(f) /\ f.form # 7
       /\ k.hdr = [fin |-> f.fin, op |-> f.op, len |-> IF f.form = 16 THEN N16 ELSE N64]
       /\ At(k, Wire(s), Pos(s, i) + 2)
    \/ /\ k.pc = "mask" /\ Fits(f) /\ Knows(k, f)
       /\ At(k, Wire(s), Pos(s, i) + HdrSize(f))
    \/ /\ k.pc = "payload" /\ Fits(f) /\ Knows(k, f) /\ k.key = f.key
       /\ At(k, Wire(s), Pos(s, i) + HdrSize(f) + 1)

(* Where it is after i frames: it answers, or awaits the next or reads it.  *)
Serves(k, s, i) ==
    /\ Mid(k, s, i)
    /\ \/ /\ k.pc = "tx" /\ k.next = "head" /\ Telling(k, Said(s, i))
          /\ At(k, Wire(s), Pos(s, i))
       \/ /\ k.pc = "head" /\ k.out = Said(s, i)
          /\ At(k, Wire(s), Pos(s, i))
       \/ /\ i < Len(s.frames) /\ k.out = Said(s, i)
          /\ InFrame(k, s, i, s.frames[i + 1])

(* Or before the first, or writing for the last time                        *)
Asks(k, s) ==
    /\ k.pc \in {"start", "request"} /\ k.due = Owed(s) /\ Owed(s) \in Seq(Cells)
    /\ k.out = <<>> /\ k.carry = <<>> /\ k.msg_op = "none"
    /\ At(k, Wire(s), 0)

Leaves(k) == k.pc = "tx" /\ k.next = "done" /\ Telling(k, k.due)

(* A fiber that is done has said all it owed, unless it failed.             *)
Over(k) ==
    /\ k.pc \in {"none", "done"} /\ IsPrefix(k.out, k.due)
    /\ k.pc = "done" /\ Lossless(k) /\ k.heap = Blocks => k.out = k.due

Told(k) ==
    /\ Sane(k) /\ Len(k.buf) <= Wants(k)
    /\ \/ Over(k)
       \/ Leaves(k)
       \/ \E s \in Scripts : Asks(k, s) \/ \E i \in 0 .. Len(s.frames) : Serves(k, s, i)

-----------------------------------------------------------------------------
(* What keeps this *)

(* Whatever it goes on to do *)
LEMMA KeptIs ==
    ASSUME NEW k, NEW j, Kept(k, j), j.buf = <<>>, Sane(k)
    PROVE  /\ Sane(j) /\ Len(j.buf) = 0
           /\ \A s, i : Mid(k, s, i) => Mid(j, s, i)
           /\ \A w, p : After(k, w, p) => At(j, w, p)
<1>1. Sane(j) /\ Len(j.buf) = 0
  <2>1. <<>> \in Seq(Cells) /\ Len(<<>>) = 0
    BY EmptySeq
  <2> QED BY <2>1 DEF Kept, Sane
<1>2. \A s, i : Mid(k, s, i) => Mid(j, s, i)
  BY <1>1 DEF Kept, Mid, Reassembles
<1>3. ASSUME NEW w, NEW p, After(k, w, p)
      PROVE  At(j, w, p)
  <2> DEFINE t == k.carry \o k.in
  <2>1. k.carry \in Seq(Cells) /\ k.in \in Seq(Cells)
    BY DEF Sane
  <2>2. t \in Seq(Cells)
    BY <2>1, Cat
  <2>3. j.carry = k.carry /\ j.in = k.in /\ Lossless(j) = Lossless(k)
    BY DEF Kept, Lossless
  <2>4. j.carry \o j.in = t
    BY <2>3
  <2> HIDE DEF t
  <2>5. <<>> \o t = t
    BY <2>2, ConcatEmptySeq
  <2>6. j.buf \o (j.carry \o j.in) = t
    BY <2>4, <2>5
  <2>7. Along(t, Lossless(k), w, p)
    BY <1>3 DEF After, t
  <2> QED BY <2>3, <2>6, <2>7 DEF At
<1> QED BY <1>1, <1>2, <1>3

(* A frame to send is what the reference calls its answer.                  *)
LEMMA SendIs ==
    ASSUME NEW k, k = [f \in Fields |-> k[f]], k.out \in Seq(Cells), NEW op \in Words,
           NEW body \in Seq(Cells), NEW next
    PROVE  LET j == SendFrame(k, op, body, next) IN
           /\ Kept(k, j) /\ j.pc = "tx" /\ j.buf = <<>> /\ j.next = next /\ j.heap = k.heap
           /\ Telling(j, k.out \o Answer(op, body))
<1> DEFINE c == Cell("frame", [op |-> op, form |-> Form(Len(body)), n |-> Len(body)])
           h == <<c>>
           writes == IF body = <<>> THEN <<h>> ELSE <<h, body>>
           j == Writing(k, writes, next)
<1>1. SendFrame(k, op, body, next) = j
  BY DEF SendFrame
<1>2. Answer(op, body) = h \o body
  BY AnswerIs DEF Answer
<1>3. h \in Seq(Cells)
  <2>1. Form(Len(body)) \in {7, 16, 64} /\ Len(body) \in Nat
    BY DEF Form
  <2>2. [op |-> op, form |-> Form(Len(body)), n |-> Len(body)] \in Values
    BY <2>1, CellsAre
  <2>3. c \in Cells
    BY <2>2, CellsAre
  <2> HIDE DEF c
  <2> QED BY <2>3
<1> HIDE DEF c, h
<1>4. Kept(k, j) /\ j.pc = "tx" /\ j.buf = <<>> /\ j.next = next /\ j.heap = k.heap /\ j.tx = writes
  <2> HIDE DEF writes
  <2> QED BY WritingIs
<1>5. j.out = k.out
  BY <1>4 DEF Kept
<1> HIDE DEF j
<1> DEFINE o == k.out
<1>6. o \in Seq(Cells)
  OBVIOUS
<1> HIDE DEF o
<1>8. o \o (h \o body) = (o \o h) \o body
  <2>1. o \in Seq(Cells) /\ h \in Seq(Cells) /\ body \in Seq(Cells)
    BY <1>3, <1>6
  <2> HIDE DEF Cells
  <2> QED BY <2>1, Assoc
<1>7. Telling(j, o \o (h \o body))
  <2>1. CASE body = <<>>
    <3>1. h \o body = h /\ j.tx = <<h>>
      BY <1>3, <1>4, <2>1, ConcatEmptySeq
    <3>2. j.out \o h = o \o (h \o body)
      BY <1>5, <3>1 DEF o
    <3> QED BY <1>3, <3>1, <3>2 DEF Telling
  <2>2. CASE body # <<>>
    <3>1. j.tx = <<h, body>>
      BY <1>4, <2>2
    <3>2. (j.out \o h) \o body = o \o (h \o body)
      BY <1>5, <1>8 DEF o
    <3> QED BY <1>3, <3>1, <3>2 DEF Telling
  <2> QED BY <2>1, <2>2
<1> QED BY <1>1, <1>2, <1>4, <1>7 DEF o

(* The answer to frame i, after which the connection goes on ...            *)
LEMMA SaysNext ==
    ASSUME NEW k, k = [f \in Fields |-> k[f]], NEW s \in Scripts, NEW i \in 0 .. Len(s.frames) - 1,
           Mid(k, s, i + 1), k.out = Said(s, i), After(k, Wire(s), Pos(s, i + 1)),
           NEW op \in Words, NEW body \in Seq(Cells), Answer(op, body) = Reply(s.frames, i + 1)
    PROVE  Told(SendFrame(k, op, body, "head"))
<1> DEFINE j == SendFrame(k, op, body, "head")
           n == Len(s.frames)
<1>1. n \in Nat /\ i + 1 \in 0 .. n /\ 1 .. i \subseteq 1 .. i + 1
  BY ScriptIs
<1>2. Sane(k) /\ \A l \in 1 .. i : ~ Ends(s.frames, l)
  BY <1>1 DEF Mid
<1>3. /\ Kept(k, j) /\ j.pc = "tx" /\ j.buf = <<>> /\ j.next = "head"
      /\ Telling(j, k.out \o Answer(op, body))
  <2>1. k.out \in Seq(Cells)
    BY <1>2 DEF Sane
  <2> QED BY <2>1, SendIs
<1>4. Said(s, i + 1) = Said(s, i) \o Reply(s.frames, i + 1)
  BY <1>2, SaidIs
<1>5. Telling(j, Said(s, i + 1))
  BY <1>3, <1>4
<1> HIDE DEF j
<1>6. Sane(j) /\ Len(j.buf) = 0 /\ Mid(j, s, i + 1) /\ At(j, Wire(s), Pos(s, i + 1))
  BY <1>2, <1>3, KeptIs
<1>7. Serves(j, s, i + 1)
  BY <1>3, <1>5, <1>6 DEF Serves
<1>8. Wants(j) = 0
  BY <1>3 DEF Wants
<1>9. Told(j)
  BY <1>1, <1>6, <1>7, <1>8 DEF Told
<1> QED BY <1>9 DEF j

(* ... or ends.                                                             *)
LEMMA SaysLast ==
    ASSUME NEW k, k = [f \in Fields |-> k[f]], NEW s \in Scripts, NEW i \in 0 .. Len(s.frames) - 1,
           Mid(k, s, i), k.out = Said(s, i), Ends(s.frames, i + 1),
           NEW op \in Words, NEW body \in Seq(Cells), Answer(op, body) = Reply(s.frames, i + 1)
    PROVE  Told(SendFrame(k, op, body, "done"))
<1> DEFINE j == SendFrame(k, op, body, "done")
           n == Len(s.frames)
<1>1. n \in Nat /\ i + 1 \in 1 .. n
  BY ScriptIs
<1>2. Sane(k) /\ (\A l \in 1 .. i : ~ Ends(s.frames, l)) /\ k.due = Said(s, n)
  BY DEF Mid
<1>3. /\ Kept(k, j) /\ j.pc = "tx" /\ j.buf = <<>> /\ j.next = "done"
      /\ Telling(j, k.out \o Answer(op, body))
  <2>1. k.out \in Seq(Cells)
    BY <1>2 DEF Sane
  <2> QED BY <2>1, SendIs
<1>4. Said(s, i + 1) = Said(s, i) \o Reply(s.frames, i + 1)
  BY <1>2, SaidIs
<1>5. Said(s, n) = Said(s, i + 1)
  BY <1>1, SaidIs
<1>6. j.due = Said(s, i) \o Reply(s.frames, i + 1)
  BY <1>2, <1>3, <1>4, <1>5 DEF Kept
<1>7. Telling(j, j.due)
  BY <1>3, <1>6
<1> HIDE DEF j
<1>8. Sane(j) /\ Len(j.buf) = 0
  BY <1>2, <1>3, KeptIs
<1>9. Wants(j) = 0
  BY <1>3 DEF Wants
<1>10. Told(j)
  BY <1>3, <1>7, <1>8, <1>9 DEF Told, Leaves
<1> QED BY <1>10 DEF j

(* A frame that must be refused is.                                         *)
LEMMA Refuses ==
    ASSUME NEW k, k = [f \in Fields |-> k[f]], NEW s \in Scripts, NEW i \in 0 .. Len(s.frames) - 1,
           Mid(k, s, i), k.out = Said(s, i), NEW code, code # 0, Code(s.frames, i + 1) = code
    PROVE  Told(SendClose(k, code))
<1>1. code \in Nat
  BY CodeIs DEF CLOSE_PROTOCOL, CLOSE_TOO_BIG
<1>2. Cell("code", code) \in Cells
  BY <1>1, CellsAre
<1>3. <<Cell("code", code)>> \in Seq(Cells) /\ "CLOSE" \in Words
  BY <1>2, CellsAre
<1>4. Reply(s.frames, i + 1) = Answer("CLOSE", <<Cell("code", code)>>)
  BY DEF Reply
<1>5. Ends(s.frames, i + 1)
  BY DEF Ends
<1>6. Told(SendFrame(k, "CLOSE", <<Cell("code", code)>>, "done"))
  BY <1>3, <1>4, <1>5, SaysLast
<1> QED BY <1>6 DEF SendClose

(* It awaits the next frame.                                                *)
LEMMA Awaits ==
    ASSUME NEW k, k = [f \in Fields |-> k[f]], NEW s \in Scripts, NEW i \in 0 .. Len(s.frames),
           Mid(k, s, i), k.out = Said(s, i), After(k, Wire(s), Pos(s, i))
    PROVE  Told(Goto(k, "head"))
<1> DEFINE j == Goto(k, "head")
<1>1. Kept(k, j) /\ j.pc = "head" /\ j.buf = <<>>
  BY GotoIs
<1> HIDE DEF j
<1>2. Sane(k)
  BY DEF Mid
<1>3. Sane(j) /\ Len(j.buf) = 0 /\ Mid(j, s, i) /\ At(j, Wire(s), Pos(s, i))
  BY <1>1, <1>2, KeptIs
<1>4. Serves(j, s, i)
  BY <1>1, <1>3 DEF Serves, Kept
<1>5. Wants(j) = 2
  BY <1>1 DEF Wants
<1>6. Told(j)
  BY <1>3, <1>4, <1>5 DEF Told
<1> QED BY <1>6 DEF j

(* It reads another field of it.                                            *)
LEMMA ReadsOn ==
    ASSUME NEW k, k = [f \in Fields |-> k[f]], NEW s \in Scripts, NEW i \in 0 .. Len(s.frames) - 1,
           Mid(k, s, i), k.out = Said(s, i), NEW stage \in {"ext", "mask", "payload"},
           NEW p, After(k, Wire(s), p),
           LET f == s.frames[i + 1] IN
           /\ stage = "ext" =>
                 /\ Sound(f) /\ f.form # 7 /\ p = Pos(s, i) + 2
                 /\ k.hdr = [fin |-> f.fin, op |-> f.op, len |-> IF f.form = 16 THEN N16 ELSE N64]
           /\ stage = "mask" => Fits(f) /\ Knows(k, f) /\ p = Pos(s, i) + HdrSize(f)
           /\ stage = "payload" => /\ Fits(f) /\ Knows(k, f) /\ k.key = f.key
                                   /\ p = Pos(s, i) + HdrSize(f) + 1
    PROVE  Told(Goto(k, stage))
<1> DEFINE j == Goto(k, stage)
           f == s.frames[i + 1]
<1>1. Kept(k, j) /\ j.pc = stage /\ j.buf = <<>> /\ j.hdr = k.hdr /\ j.key = k.key
  BY GotoIs
<1> HIDE DEF j
<1>2. Sane(k)
  BY DEF Mid
<1>3. Sane(j) /\ Len(j.buf) = 0 /\ Mid(j, s, i) /\ At(j, Wire(s), p)
  BY <1>1, <1>2, KeptIs
<1>4. i + 1 \in 1 .. Len(s.frames) /\ i \in 0 .. Len(s.frames) /\ i < Len(s.frames)
  BY ScriptIs
<1>5. InFrame(j, s, i, f)
  BY <1>1, <1>3 DEF InFrame, Knows
<1>6. Serves(j, s, i)
  BY <1>1, <1>3, <1>4, <1>5 DEF Serves, Kept
<1>7. 0 <= Wants(j)
  <2>1. stage = "payload" => j.hdr.len = f.len
    BY <1>1 DEF Knows
  <2>2. f.len \in Nat
    BY <1>4, ScriptIs DEF Frames
  <2> QED BY <1>1, <2>1, <2>2 DEF Wants
<1>8. Told(j)
  BY <1>3, <1>4, <1>6, <1>7 DEF Told
<1> QED BY <1>8 DEF j

-----------------------------------------------------------------------------
(* Fields of a frame *)

(* What it knows of a frame is no part of where it is.                      *)
LEMMA FieldsMid ==
    ASSUME NEW k, NEW j, Kept(k, j), j.buf = k.buf
    PROVE  /\ Sane(k) => Sane(j)
           /\ \A s, i : Mid(k, s, i) => Mid(j, s, i)
           /\ \A w, p : After(k, w, p) => After(j, w, p)
<1>1. Sane(k) => Sane(j)
  BY DEF Kept, Sane
<1>2. \A s, i : Mid(k, s, i) => Mid(j, s, i)
  BY <1>1 DEF Kept, Mid, Reassembles
<1>3. \A w, p : After(k, w, p) => After(j, w, p)
  <2>1. j.carry = k.carry /\ j.in = k.in /\ Lossless(j) = Lossless(k)
    BY DEF Kept, Lossless
  <2> QED BY <2>1 DEF After
<1> QED BY <1>1, <1>2, <1>3

(* Only the header of the frame is noted ...                                *)
LEMMA HdrIs ==
    ASSUME NEW k, k = [f \in Fields |-> k[f]], NEW h
    PROVE  LET j == [k EXCEPT !.hdr = h] IN
           /\ j = [f \in Fields |-> j[f]] /\ Kept(k, j) /\ j.buf = k.buf /\ j.hdr = h
BY DEF Kept, Fields

(* ... or only its mask key.                                                *)
LEMMA KeyIs ==
    ASSUME NEW k, k = [f \in Fields |-> k[f]], NEW x
    PROVE  LET j == [k EXCEPT !.key = x] IN
           /\ j = [f \in Fields |-> j[f]] /\ Kept(k, j) /\ j.buf = k.buf /\ j.hdr = k.hdr /\ j.key = x
BY DEF Kept, Fields

(* What is in hand is the part of the frame that lies there.                *)
LEMMA InHand ==
    ASSUME NEW k, Sane(k), NEW s \in Scripts, NEW i \in 0 .. Len(s.frames) - 1, NEW d \in Nat,
           d + Len(k.buf) <= Len(FrameBytes(s.frames[i + 1])), At(k, Wire(s), Pos(s, i) + d)
    PROVE  /\ \A j \in 1 .. Len(k.buf) : k.buf[j] = FrameBytes(s.frames[i + 1])[d + j]
           /\ After(k, Wire(s), Pos(s, i) + (d + Len(k.buf)))
<1> DEFINE w == Wire(s)
           p == Pos(s, i)
           f == FrameBytes(s.frames[i + 1])
           b == k.buf
           t == k.carry \o k.in
           e == Lossless(k)
<1>1. /\ w \in Seq(Cells) /\ p \in Nat /\ Len(f) \in Nat
      /\ \A j \in 1 .. Len(f) : w[p + j] = f[j]
  <2>1. i \in 0 .. Len(s.frames) /\ i + 1 \in 1 .. Len(s.frames)
    BY ScriptIs
  <2>2. s.frames[i + 1] \in Frames
    BY <2>1, ScriptIs
  <2>3. f \in Seq(Cells)
    BY <2>2, FrameBytesAre
  <2>4. Len(f) \in Nat
    BY <2>3
  <2> QED BY <2>1, <2>4, ScriptIs
<1>2. b \in Seq(Cells) /\ k.carry \in Seq(Cells) /\ k.in \in Seq(Cells)
  BY DEF Sane
<1>3. t \in Seq(Cells) /\ Len(b) \in Nat
  BY <1>2, Cat
<1>4. Along(b \o t, e, w, p + d)
  BY DEF At
<1>5. p + d \in Nat
  BY <1>1
<1> DEFINE q == p + d
<1>6. \A j \in Nat : q + j = p + (d + j)
  BY <1>1
<1>7. d + Len(b) <= Len(f)
  OBVIOUS
<1> HIDE DEF w, p, f, b, t, e
<1>8. /\ Along(t, e, w, q + Len(b)) /\ \A j \in 1 .. Len(b) : b[j] = w[q + j]
  <2> HIDE DEF q
  <2>1. q \in Nat /\ Along(b \o t, e, w, q)
    BY <1>4, <1>5 DEF q
  <2>2. w \in Seq(Cells) /\ b \in Seq(Cells) /\ t \in Seq(Cells)
    BY <1>1, <1>2, <1>3
  <2>3. /\ Along(t, e, w, q + Len(b)) /\ q + Len(b) <= Len(w)
        /\ \A j \in 1 .. Len(b) : b[j] = w[q + j]
        /\ Along(b, FALSE, w, q)
    BY <2>1, <2>2, AlongParts
  <2> QED BY <2>3
<1> HIDE DEF q
<1>9. \A j \in 1 .. Len(b) : b[j] = f[d + j]
  <2> SUFFICES ASSUME NEW j \in 1 .. Len(b) PROVE b[j] = f[d + j]
    OBVIOUS
  <2>1. d + j \in 1 .. Len(f) /\ q + j = p + (d + j)
    BY <1>1, <1>3, <1>6, <1>7
  <2>2. b[j] = w[q + j]
    BY <1>8
  <2> QED BY <1>1, <2>1, <2>2
<1>10. Along(t, e, w, p + (d + Len(b)))
  <2>1. q + Len(b) = p + (d + Len(b))
    BY <1>3, <1>6
  <2> QED BY <1>8, <2>1
<1> QED BY <1>9, <1>10 DEF w, p, f, b, t, e, After

(* The length is known                                                      *)
LEMMA SizedTold ==
    ASSUME NEW k, k = [f \in Fields |-> k[f]], NEW s \in Scripts, NEW i \in 0 .. Len(s.frames) - 1,
           Mid(k, s, i), k.out = Said(s, i),
           LET f == s.frames[i + 1] IN
           /\ Sound(f) /\ Knows(k, f) /\ f.form = Shortest(f.len) /\ f.len < TopBit
           /\ After(k, Wire(s), Pos(s, i) + HdrSize(f))
    PROVE  Told(Sized(k))
<1> DEFINE f == s.frames[i + 1]
<1>1. k.hdr.op = f.op /\ k.hdr.fin = f.fin /\ k.hdr.len = f.len
  BY DEF Knows
<1>2. f.fin \in BOOLEAN
  <2>1. i + 1 \in 1 .. Len(s.frames)
    BY ScriptIs
  <2>2. f \in Frames
    BY <2>1, ScriptIs
  <2> QED BY <2>2 DEF Frames
<1>3. CASE f.op \in Control /\ (~ f.fin \/ f.len > SmallMax)
  <2>1. ~ Legal(f)
    <3>1. f.len \in Nat
      <4>1. i + 1 \in 1 .. Len(s.frames)
        BY ScriptIs
      <4>2. f \in Frames
        BY <4>1, ScriptIs
      <4> QED BY <4>2 DEF Frames
    <3> QED BY <1>3, <3>1, Constants DEF Legal
  <2>2. Code(s.frames, i + 1) = CLOSE_PROTOCOL
    BY <2>1 DEF Code
  <2>3. Sized(k) = SendClose(k, CLOSE_PROTOCOL)
    BY <1>1, <1>3 DEF Sized
  <2>4. Told(SendClose(k, CLOSE_PROTOCOL))
    <3>1. CLOSE_PROTOCOL # 0
      BY DEF CLOSE_PROTOCOL
    <3> QED BY <2>2, <3>1, Refuses
  <2> QED BY <2>3, <2>4
<1>4. CASE ~ (f.op \in Control /\ (~ f.fin \/ f.len > SmallMax))
  <2>1. Legal(f)
    <3>1. f.len \in Nat
      <4>1. i + 1 \in 1 .. Len(s.frames)
        BY ScriptIs
      <4>2. f \in Frames
        BY <4>1, ScriptIs
      <4> QED BY <4>2 DEF Frames
    <3> QED BY <1>2, <1>4, <3>1, Constants DEF Legal, Sound
  <2>2. CASE f.len > MaxPayload
    <3>1. Code(s.frames, i + 1) = CLOSE_TOO_BIG
      BY <2>1, <2>2 DEF Code
    <3>2. Sized(k) = SendClose(k, CLOSE_TOO_BIG)
      BY <1>1, <1>4, <2>2 DEF Sized
    <3>3. Told(SendClose(k, CLOSE_TOO_BIG))
      <4>1. CLOSE_TOO_BIG # 0
        BY DEF CLOSE_TOO_BIG
      <4> QED BY <3>1, <4>1, Refuses
    <3> QED BY <3>2, <3>3
  <2>3. CASE ~ (f.len > MaxPayload)
    <3>1. Sized(k) = Goto(k, "mask")
      BY <1>1, <1>4, <2>3 DEF Sized
    <3>2. Fits(f)
      BY <2>1, <2>3 DEF Fits
    <3>3. Told(Goto(k, "mask"))
      <4> DEFINE p == Pos(s, i) + HdrSize(f)
      <4>1. After(k, Wire(s), p) /\ Fits(f) /\ Knows(k, f) /\ p = Pos(s, i) + HdrSize(f)
        BY <3>2
      <4> HIDE DEF p
      <4> QED BY <4>1, ReadsOn
    <3> QED BY <3>1, <3>3
  <2> QED BY <2>2, <2>3
<1> QED BY <1>3, <1>4

-----------------------------------------------------------------------------
(* Payloads and messages *)

(* Masked twice, a bit is what it was.                                      *)
LEMMA MaskedTwice ==
    ASSUME NEW d \in {0, 1}, NEW x \in Nat
    PROVE  (((d + x) % 2) + x) % 2 = d
<1>1. x % 2 \in {0, 1} /\ x = 2 * (x \div 2) + (x % 2) /\ x \div 2 \in Nat
  OBVIOUS
<1> DEFINE q == x \div 2
           r == x % 2
<1>2. r \in {0, 1} /\ x = 2 * q + r /\ q \in Nat
  BY <1>1
<1> HIDE DEF q, r
<1>3. CASE r = 0
  <2>1. (d + x) % 2 = d
    BY <1>2, <1>3
  <2> QED BY <1>2, <1>3, <2>1
<1>4. CASE r = 1
  <2>1. (d + x) % 2 = 1 - d
    BY <1>2, <1>4
  <2> QED BY <1>2, <1>4, <2>1
<1> QED BY <1>2, <1>3, <1>4

(* The payload is what the client meant.                                    *)
LEMMA Unmasked ==
    ASSUME NEW data \in Seq({0, 1}), NEW x \in Nat, NEW b \in Seq(Cells), Len(b) = Len(data),
           \A j \in 1 .. Len(b) : b[j] = Cell("byte", (data[j] + x) % 2)
    PROVE  Bits(Xor([i \in DOMAIN b |-> b[i].v], x)) = Bits(data)
<1> DEFINE n == Len(data)
           raw == [i \in DOMAIN b |-> b[i].v]
           y == Xor(raw, x)
<1>1. n \in Nat /\ DOMAIN b = 1 .. n /\ DOMAIN data = 1 .. n /\ \A j \in 1 .. n : data[j] \in {0, 1}
  OBVIOUS
<1>2. raw = [i \in 1 .. n |-> b[i].v]
  BY <1>1
<1>3. \A j \in 1 .. n : raw[j] = (data[j] + x) % 2
  BY <1>1, <1>2 DEF Cell
<1>4. y = [i \in 1 .. n |-> (raw[i] + x) % 2]
  BY <1>2 DEF Xor
<1> HIDE DEF raw, y, n
<1>5. \A j \in 1 .. n : y[j] = data[j]
  <2> SUFFICES ASSUME NEW j \in 1 .. n PROVE y[j] = data[j]
    OBVIOUS
  <2>1. y[j] = (((data[j] + x) % 2) + x) % 2
    BY <1>3, <1>4
  <2> QED BY <1>1, <2>1, MaskedTwice
<1>6. Bits(y) = [i \in 1 .. n |-> Cell("byte", y[i])]
  BY <1>4 DEF Bits
<1>7. Bits(data) = [i \in 1 .. n |-> Cell("byte", data[i])]
  BY <1>1 DEF Bits
<1>8. Bits(y) = Bits(data)
  BY <1>5, <1>6, <1>7
<1> QED BY <1>8 DEF y, raw

(* The cells of two payloads joined are those of the one after the other.   *)
LEMMA BitsJoined ==
    ASSUME NEW a \in Seq({0, 1}), NEW b \in Seq({0, 1})
    PROVE  /\ Bits(a) \in Seq(Cells) /\ Len(Bits(a)) = Len(a)
           /\ Bits(b) \in Seq(Cells) /\ Len(Bits(b)) = Len(b)
           /\ Bits(a \o b) = Bits(a) \o Bits(b)
           /\ a \o b \in Seq({0, 1}) /\ Len(a \o b) = Len(a) + Len(b)
<1>1. a \in Seq(Nat) /\ b \in Seq(Nat)
  OBVIOUS
<1>2. a \o b \in Seq({0, 1}) /\ Len(a \o b) = Len(a) + Len(b)
  OBVIOUS
<1>3. /\ a \o b \in Seq(Nat) /\ Len(a) \in Nat /\ Len(b) \in Nat
      /\ \A j \in 1 .. Len(a) : (a \o b)[j] = a[j]
      /\ \A j \in 1 .. Len(b) : (a \o b)[Len(a) + j] = b[j]
  BY <1>1, Cat
<1> DEFINE c == a \o b
<1>4. /\ c \in Seq(Nat) /\ Len(c) = Len(a) + Len(b)
      /\ \A j \in 1 .. Len(a) : c[j] = a[j]
      /\ \A j \in 1 .. Len(b) : c[Len(a) + j] = b[j]
  BY <1>2, <1>3
<1> HIDE DEF c
<1> DEFINE x == Bits(a)
           y == Bits(b)
           z == Bits(c)
<1>5. /\ x \in Seq(Cells) /\ Len(x) = Len(a) /\ \A j \in 1 .. Len(a) : x[j] = Cell("byte", a[j])
      /\ y \in Seq(Cells) /\ Len(y) = Len(b) /\ \A j \in 1 .. Len(b) : y[j] = Cell("byte", b[j])
      /\ z \in Seq(Cells) /\ Len(z) = Len(c) /\ \A j \in 1 .. Len(c) : z[j] = Cell("byte", c[j])
  BY <1>1, <1>4, BitsAre
<1> HIDE DEF x, y, z
<1>6. /\ x \o y \in Seq(Cells) /\ Len(x \o y) = Len(x) + Len(y)
      /\ \A j \in 1 .. Len(x) : (x \o y)[j] = x[j]
      /\ \A j \in 1 .. Len(y) : (x \o y)[Len(x) + j] = y[j]
  <2>1. x \in Seq(Cells) /\ y \in Seq(Cells)
    BY <1>5
  <2> QED BY <2>1, Cat
<1> DEFINE u == x \o y
<1>7. /\ u \in Seq(Cells) /\ Len(u) = Len(a) + Len(b)
      /\ \A j \in 1 .. Len(a) : u[j] = x[j]
      /\ \A j \in 1 .. Len(b) : u[Len(a) + j] = y[j]
  BY <1>5, <1>6
<1> HIDE DEF u
<1>8. \A j \in 1 .. Len(a) + Len(b) : z[j] = u[j]
  <2> SUFFICES ASSUME NEW j \in 1 .. Len(a) + Len(b) PROVE z[j] = u[j]
    OBVIOUS
  <2>1. CASE j <= Len(a)
    BY <1>3, <1>4, <1>5, <1>7, <2>1
  <2>2. CASE Len(a) < j
    <3> DEFINE l == j - Len(a)
    <3>1. l \in 1 .. Len(b) /\ j = Len(a) + l
      BY <1>3, <2>2
    <3> HIDE DEF l
    <3>2. z[j] = Cell("byte", c[Len(a) + l]) /\ c[Len(a) + l] = b[l] /\ u[j] = y[l]
      BY <1>4, <1>5, <1>7, <3>1
    <3>3. y[l] = Cell("byte", b[l])
      BY <1>5, <3>1
    <3> QED BY <3>2, <3>3
  <2> QED BY <1>3, <2>1, <2>2
<1>9. z = u
  <2>1. Len(z) = Len(u) /\ Len(u) = Len(a) + Len(b)
    BY <1>4, <1>5, <1>7
  <2> QED BY <1>5, <1>7, <1>8, <2>1, SeqEqual
<1>10. Len(x) = Len(a) /\ Len(y) = Len(b) /\ x \in Seq(Cells) /\ y \in Seq(Cells)
  BY <1>5
<1> QED BY <1>2, <1>9, <1>10 DEF x, y, z, u, c

(* The kind of a message does not change once it has begun.                 *)
LEMMA KindKeeps ==
    ASSUME NEW fs, NEW i \in Nat, Started(fs, i),
           IsData(fs[i + 1]) => fs[i + 1].op = "CONT"
    PROVE  Kind(fs, i + 1) = Kind(fs, i) /\ Kind(fs, i) \in {"TEXT", "BIN"}
<1>1. PICK j \in 1 .. i : InMessage(fs, i, j) /\ fs[j].op \in {"TEXT", "BIN"}
  BY DEF Started
<1>2. Kind(fs, i) = fs[j].op
  BY <1>1, KindIs
<1>3. InMessage(fs, i + 1, j) /\ j \in 1 .. i + 1 /\ i + 1 \in Nat
  BY <1>1, NextFrame
<1>4. Kind(fs, i + 1) = fs[j].op
  BY <1>1, <1>3, KindIs
<1> QED BY <1>1, <1>2, <1>4

(* A frame that is no part of a message leaves what is unfinished as it is. *)
LEMMA MidSkips ==
    ASSUME NEW k, NEW s \in Scripts, NEW i \in 0 .. Len(s.frames) - 1, Mid(k, s, i),
           ~ IsData(s.frames[i + 1]), ~ Ends(s.frames, i + 1)
    PROVE  Mid(k, s, i + 1)
<1> DEFINE fs == s.frames
           n == Len(fs)
<1>1. /\ n \in Nat /\ i \in 0 .. n /\ i + 1 \in 0 .. n /\ i \in Nat /\ (i + 1) + 1 = i + 2
      /\ \A j \in 1 .. i + 1 : j \in 1 .. i \/ j = i + 1
  BY ScriptIs
<1>2. (\A j \in 1 .. i : ~ Ends(fs, j)) /\ Reassembles(k, fs, i)
  BY DEF Mid
<1>3. \A j \in 1 .. i + 1 : ~ Ends(fs, j)
  BY <1>1, <1>2
<1>4. Open(fs, i + 2) <=> Open(fs, i + 1)
  BY <1>1, NextFrame
<1>5. Body(fs, i + 1) = Body(fs, i)
  BY ScriptIs, BodyGrows
<1>6. Open(fs, i + 1) => Kind(fs, i + 1) = Kind(fs, i)
  <2>1. i \in 0 .. i
    BY <1>1
  <2>2. Open(fs, i + 1) => Started(fs, i)
    BY <1>1, <1>2, <2>1, Begun
  <2> QED BY <1>1, <2>2, KindKeeps
<1>7. Reassembles(k, fs, i + 1)
  BY <1>1, <1>2, <1>4, <1>5, <1>6 DEF Reassembles
<1> QED BY <1>1, <1>3, <1>7 DEF Mid

(* The message so far is no part of where it is.                            *)
LEMMA MsgIs ==
    ASSUME NEW k, k = [f \in Fields |-> k[f]], NEW m, NEW o
    PROVE  LET j == WithMsg(k, m, o) IN
           /\ j = [f \in Fields |-> j[f]] /\ j.msg = m /\ j.msg_op = o
           /\ j.in = k.in /\ j.peer = k.peer /\ j.cut = k.cut /\ j.carry = k.carry
           /\ j.out = k.out /\ j.due = k.due /\ j.buf = k.buf
BY DEF WithMsg, Fields

(* Once its message is noted, the connection has taken l frames.            *)
LEMMA MsgMid ==
    ASSUME NEW k, k = [f \in Fields |-> k[f]], NEW s \in Scripts, NEW i \in 0 .. Len(s.frames),
           Mid(k, s, i), NEW p, After(k, Wire(s), p), NEW m \in Seq(Cells), Len(m) <= MaxPayload,
           NEW o, NEW l \in 0 .. Len(s.frames), \A x \in 1 .. l : ~ Ends(s.frames, x),
           IF Open(s.frames, l + 1)
           THEN m = Bits(Body(s.frames, l)) /\ o = Kind(s.frames, l) /\ o # "none"
           ELSE o = "none"
    PROVE  LET j == WithMsg(k, m, o) IN
           Mid(j, s, l) /\ After(j, Wire(s), p) /\ j = [f \in Fields |-> j[f]] /\ j.out = k.out
<1> DEFINE j == WithMsg(k, m, o)
<1>1. /\ j = [f \in Fields |-> j[f]] /\ j.msg = m /\ j.msg_op = o
      /\ j.in = k.in /\ j.peer = k.peer /\ j.cut = k.cut /\ j.carry = k.carry
      /\ j.out = k.out /\ j.due = k.due /\ j.buf = k.buf
  BY MsgIs
<1> HIDE DEF j
<1>2. Sane(k)
  BY DEF Mid
<1>3. Sane(j)
  BY <1>1, <1>2 DEF Sane
<1>4. Reassembles(j, s.frames, l)
  BY <1>1 DEF Reassembles
<1>5. Mid(j, s, l)
  BY <1>1, <1>3, <1>4 DEF Mid
<1>6. After(j, Wire(s), p)
  <2>1. j.carry \o j.in = k.carry \o k.in /\ Lossless(j) = Lossless(k)
    BY <1>1 DEF Lossless
  <2> QED BY <2>1 DEF After
<1> QED BY <1>1, <1>5, <1>6 DEF j

(* A frame of a message                                                     *)
LEMMA DataTold ==
    ASSUME NEW k, k = [f \in Fields |-> k[f]], NEW s \in Scripts, NEW i \in 0 .. Len(s.frames) - 1,
           Mid(k, s, i), k.out = Said(s, i), Fits(s.frames[i + 1]), Knows(k, s.frames[i + 1]),
           IsData(s.frames[i + 1]), Len(s.frames[i + 1].data) = s.frames[i + 1].len,
           After(k, Wire(s), Pos(s, i + 1))
    PROVE  Told(OnDataFrame(k, Bits(s.frames[i + 1].data)))
<1> DEFINE fs == s.frames
           n == Len(fs)
           f == fs[i + 1]
           d == f.data
           body == Bits(d)
           was == Body(fs, i)
           now == Body(fs, i + 1)
           p == Pos(s, i + 1)
<1>1. /\ n \in Nat /\ i \in 0 .. n /\ i + 1 \in 0 .. n /\ i \in Nat /\ (i + 1) + 1 = i + 2
      /\ i + 1 \in 1 .. n /\ i \in 0 .. i /\ i + 1 \in Nat /\ i + 1 \in 1 .. i + 1
      /\ \A j \in 1 .. i + 1 : j \in 1 .. i \/ j = i + 1
      /\ fs \in Seq(Frames)
  BY ScriptIs
<1>2. /\ f \in Frames /\ f.fin \in BOOLEAN /\ d \in Seq({0, 1}) /\ f.op \in Words
      /\ f.len \in Nat /\ Len(d) = f.len
  <2>1. f \in Frames
    BY <1>1
  <2>2. f.fin \in BOOLEAN /\ d \in Seq({0, 1}) /\ f.op \in STRING /\ f.len \in Nat
    BY <2>1 DEF Frames
  <2> QED BY <2>1, <2>2, CellsAre
<1>3. /\ f.op \in {"CONT", "TEXT", "BIN"} /\ Legal(f) /\ ~ (f.len > MaxPayload) /\ IsData(f)
      /\ f.op # "PING" /\ f.op # "CLOSE"
  BY DEF Fits, Legal, IsData, Ops, Control
<1>4. k.hdr.op = f.op /\ k.hdr.fin = f.fin
  BY DEF Knows
<1>5. was \in Seq({0, 1}) /\ now \in Seq({0, 1}) /\ Len(was) \in Nat
  <2>1. was \in Seq({0, 1}) /\ now \in Seq({0, 1})
    BY <1>1, BodyIs
  <2> HIDE DEF was, now
  <2> QED BY <2>1
<1>6. now = IF f.op = "CONT" THEN was \o d ELSE d
  BY <1>1, <1>3, BodyGrows
<1>7. Open(fs, i + 2) <=> ~ f.fin
  BY <1>1, <1>3, NextFrame
<1>8. /\ Sane(k) /\ (\A j \in 1 .. i : ~ Ends(fs, j))
      /\ IF Open(fs, i + 1) THEN /\ k.msg = Bits(was) /\ k.msg_op = Kind(fs, i)
                                 /\ k.msg_op # "none"
         ELSE k.msg_op = "none"
  BY DEF Mid, Reassembles
<1>9. /\ Bits(was) \in Seq(Cells) /\ Len(Bits(was)) = Len(was)
      /\ body \in Seq(Cells) /\ Len(body) = f.len
      /\ Bits(was \o d) = Bits(was) \o body /\ Len(was \o d) = Len(was) + f.len
  <2>1. was \in Seq({0, 1}) /\ d \in Seq({0, 1})
    BY <1>2, <1>5
  <2> HIDE DEF was, d
  <2>2. /\ Bits(was) \in Seq(Cells) /\ Len(Bits(was)) = Len(was)
        /\ body \in Seq(Cells) /\ Len(body) = Len(d)
        /\ Bits(was \o d) = Bits(was) \o body /\ Len(was \o d) = Len(was) + Len(d)
    BY <2>1, BitsJoined
  <2> QED BY <1>2, <2>2
<1> DEFINE starts == f.op # "CONT"
           op == IF starts THEN f.op ELSE k.msg_op
           sofar == IF starts THEN <<>> ELSE k.msg
           msg == sofar \o body
           opened == k.msg_op # "none"
<1>10. OnDataFrame(k, body) =
          IF starts = opened THEN SendClose(k, CLOSE_PROTOCOL)
          ELSE IF starts /\ f.fin THEN SendFrame(k, op, body, "head")
          ELSE IF TooLong(sofar, body) THEN SendClose(k, CLOSE_TOO_BIG)
          ELSE IF f.fin THEN SendFrame(WithMsg(k, msg, "none"), op, msg, "head")
          ELSE Goto(WithMsg(k, msg, op), "head")
  <2> HIDE DEF body
  <2>1. OnDataFrame(k, body) =
           LET st == k.hdr.op # "CONT"
               o == IF st THEN k.hdr.op ELSE k.msg_op
               sf == IF st THEN <<>> ELSE k.msg
               m == sf \o body
           IN IF st = (k.msg_op # "none") THEN SendClose(k, CLOSE_PROTOCOL)
              ELSE IF st /\ k.hdr.fin THEN SendFrame(k, o, body, "head")
              ELSE IF TooLong(sf, body) THEN SendClose(k, CLOSE_TOO_BIG)
              ELSE IF k.hdr.fin THEN SendFrame(WithMsg(k, m, "none"), o, m, "head")
              ELSE Goto(WithMsg(k, m, o), "head")
    BY DEF OnDataFrame, WithMsg
  <2> QED BY <1>4, <2>1
<1>11. opened <=> Open(fs, i + 1)
  BY <1>8
<1>12. CLOSE_PROTOCOL # 0 /\ CLOSE_TOO_BIG # 0
  BY DEF CLOSE_PROTOCOL, CLOSE_TOO_BIG
<1>13. /\ Code(fs, i + 1) = IF Open(fs, i + 1) # (f.op = "CONT") THEN CLOSE_PROTOCOL
                            ELSE IF Len(now) > MaxPayload THEN CLOSE_TOO_BIG ELSE 0
  BY <1>3 DEF Code
<1>14. Open(fs, i + 1) \in BOOLEAN
  BY DEF Open
<1>15. CASE starts = opened
  <2>1. Open(fs, i + 1) # (f.op = "CONT")
    BY <1>11, <1>14, <1>15
  <2>2. Code(fs, i + 1) = CLOSE_PROTOCOL
    BY <1>13, <2>1
  <2>3. Told(SendClose(k, CLOSE_PROTOCOL))
    BY <1>12, <2>2, Refuses
  <2> QED BY <1>10, <1>15, <2>3
<1>16. CASE starts # opened
  <2>1. Open(fs, i + 1) <=> ~ starts
    BY <1>11, <1>14, <1>16
  <2>2. Code(fs, i + 1) = IF Len(now) > MaxPayload THEN CLOSE_TOO_BIG ELSE 0
    BY <1>13, <1>14, <2>1
  <2>3. ASSUME ~ (Len(now) > MaxPayload)
        PROVE  /\ Code(fs, i + 1) = 0 /\ ~ Ends(fs, i + 1) /\ \A j \in 1 .. i + 1 : ~ Ends(fs, j)
               /\ Reply(fs, i + 1) = IF f.fin THEN Answer(Kind(fs, i + 1), Bits(now)) ELSE <<>>
    <3>1. Code(fs, i + 1) = 0
      BY <2>2, <2>3
    <3>2. ~ Ends(fs, i + 1)
      BY <1>3, <3>1 DEF Ends
    <3>3. Reply(fs, i + 1) = IF f.fin THEN Answer(Kind(fs, i + 1), Bits(now)) ELSE <<>>
      BY <1>3, <3>1 DEF Reply
    <3> QED BY <1>1, <1>8, <3>1, <3>2, <3>3
  <2>4. CASE starts
    <3>1. now = d /\ ~ (Len(now) > MaxPayload) /\ InMessage(fs, i + 1, i + 1) /\ op = f.op
      BY <1>1, <1>2, <1>3, <1>6, <2>4, NextFrame
    <3>2. Kind(fs, i + 1) = f.op
      BY <1>1, <2>4, <3>1, KindIs
    <3>3. sofar = <<>> /\ sofar \o body = body
      BY <1>9, <2>4, ConcatEmptySeq
    <3>4. k.msg_op = "none" /\ ~ Open(fs, i + 1)
      BY <1>8, <2>1, <2>4
    <3>5. CASE f.fin
      <4>1. Reply(fs, i + 1) = Answer(f.op, body)
        BY <2>3, <3>1, <3>2, <3>5
      <4>2. Reassembles(k, fs, i + 1)
        BY <1>1, <1>7, <3>4, <3>5 DEF Reassembles
      <4>3. Mid(k, s, i + 1)
        BY <1>1, <2>3, <3>1, <4>2 DEF Mid
      <4>4. Told(SendFrame(k, f.op, body, "head"))
        BY <1>2, <1>9, <4>1, <4>3, SaysNext
      <4> QED BY <1>10, <1>16, <2>4, <3>5, <4>4
    <3>6. CASE ~ f.fin
      <4> DEFINE l == WithMsg(k, msg, op)
      <4>1. ~ TooLong(sofar, body)
        <5>1. Len(sofar) = 0
          BY <3>3
        <5> HIDE DEF sofar, body
        <5> QED BY <1>2, <1>3, <1>9, <5>1, Constants DEF TooLong
      <4>2. msg = body /\ Len(msg) <= MaxPayload
        <5>1. msg = body
          BY <3>3
        <5>2. f.len <= MaxPayload
          BY <1>2, <1>3, Constants
        <5> HIDE DEF msg, body
        <5> QED BY <1>9, <5>1, <5>2
      <4>3. /\ msg = Bits(now) /\ op = Kind(fs, i + 1) /\ op # "none" /\ Open(fs, (i + 1) + 1)
            /\ msg \in Seq(Cells)
        BY <1>1, <1>3, <1>7, <1>9, <2>4, <3>1, <3>2, <3>6, <4>2
      <4>4. \A x \in 1 .. i + 1 : ~ Ends(fs, x)
        BY <2>3, <3>1
      <4>5. Mid(l, s, i + 1) /\ After(l, Wire(s), p) /\ l = [x \in Fields |-> l[x]] /\ l.out = k.out
        <5>1. /\ After(k, Wire(s), p) /\ i \in 0 .. Len(s.frames) /\ i + 1 \in 0 .. Len(s.frames)
              /\ msg \in Seq(Cells) /\ Len(msg) <= MaxPayload
              /\ IF Open(s.frames, (i + 1) + 1)
                 THEN /\ msg = Bits(Body(s.frames, i + 1)) /\ op = Kind(s.frames, i + 1)
                      /\ op # "none"
                 ELSE op = "none"
          BY <1>1, <4>2, <4>3
        <5> HIDE DEF msg, op, p, fs
        <5>2. \A x \in 1 .. i + 1 : ~ Ends(s.frames, x)
          BY <4>4 DEF fs
        <5> QED BY <5>1, <5>2, MsgMid
      <4>6. OnDataFrame(k, body) = Goto(l, "head")
        BY <1>10, <1>16, <2>4, <3>6, <4>1
      <4>7. l.out = Said(s, i + 1)
        <5>1. Reply(fs, i + 1) = <<>>
          BY <2>3, <3>1, <3>6
        <5>2. Said(s, i + 1) = Said(s, i) \o <<>> /\ Said(s, i) \in Seq(Cells)
          BY <1>1, <1>8, <5>1, SaidIs
        <5>3. Said(s, i + 1) = Said(s, i)
          BY <5>2, ConcatEmptySeq
        <5> QED BY <4>5, <5>3
      <4> HIDE DEF l
      <4>8. Told(Goto(l, "head"))
        BY <1>1, <4>5, <4>7, Awaits
      <4> QED BY <4>6, <4>8
    <3> QED BY <1>2, <3>5, <3>6
  <2>5. CASE ~ starts
    <3>1. /\ now = was \o d /\ Bits(now) = Bits(was) \o body /\ Len(now) = Len(was) + f.len
          /\ Open(fs, i + 1) /\ sofar = Bits(was) /\ op = Kind(fs, i) /\ k.msg_op = Kind(fs, i)
      BY <1>6, <1>8, <1>9, <2>1, <2>5
    <3>2. Started(fs, i)
      BY <1>1, <1>8, <3>1, Begun
    <3>3. Kind(fs, i + 1) = Kind(fs, i) /\ Kind(fs, i) \in {"TEXT", "BIN"}
      BY <1>1, <2>5, <3>2, KindKeeps
    <3>4. TooLong(sofar, body) <=> Len(now) > MaxPayload
      <4>1. Len(sofar) = Len(was) /\ Len(body) = f.len /\ Len(now) = Len(was) + f.len
        BY <1>9, <3>1
      <4>2. Len(was) \in Nat /\ f.len \in Nat /\ MaxPayload \in Nat
        BY <1>2, <1>5, Constants
      <4> HIDE DEF sofar, body, now, was, f
      <4> QED BY <4>1, <4>2 DEF TooLong
    <3>5. CASE Len(now) > MaxPayload
      <4>1. Told(SendClose(k, CLOSE_TOO_BIG))
        BY <1>12, <2>2, <3>5, Refuses
      <4> QED BY <1>10, <1>16, <2>5, <3>4, <3>5, <4>1
    <3>6. CASE ~ (Len(now) > MaxPayload)
      <4>1. msg = Bits(now) /\ msg \in Seq(Cells) /\ Len(msg) <= MaxPayload
        <5>1. msg = Bits(now)
          BY <3>1
        <5>2. now \in Seq(Nat) /\ Len(now) \in Nat
          <6> HIDE DEF now
          <6> QED BY <1>5
        <5>3. Bits(now) \in Seq(Cells) /\ Len(Bits(now)) = Len(now)
          BY <5>2, BitsAre
        <5>4. MaxPayload \in Nat
          BY Constants
        <5> HIDE DEF msg, now
        <5>5. Len(msg) = Len(now) /\ Len(msg) <= MaxPayload
          BY <3>6, <5>1, <5>2, <5>3, <5>4
        <5> QED BY <5>1, <5>3, <5>5
      <4>2. \A x \in 1 .. i + 1 : ~ Ends(fs, x)
        BY <2>3, <3>6
      <4>3. CASE f.fin
        <5> DEFINE l == WithMsg(k, msg, "none")
        <5>1. ~ Open(fs, (i + 1) + 1)
          BY <1>1, <1>7, <4>3
        <5>2. /\ Mid(l, s, i + 1) /\ After(l, Wire(s), p) /\ l = [x \in Fields |-> l[x]]
              /\ l.out = k.out
          <6>1. /\ After(k, Wire(s), p) /\ i \in 0 .. Len(s.frames) /\ i + 1 \in 0 .. Len(s.frames)
                /\ msg \in Seq(Cells) /\ Len(msg) <= MaxPayload
                /\ IF Open(s.frames, (i + 1) + 1)
                   THEN /\ msg = Bits(Body(s.frames, i + 1)) /\ "none" = Kind(s.frames, i + 1)
                        /\ "none" # "none"
                   ELSE "none" = "none"
            BY <1>1, <4>1, <5>1
          <6> HIDE DEF msg, p, fs
          <6>2. \A x \in 1 .. i + 1 : ~ Ends(s.frames, x)
            BY <4>2 DEF fs
          <6> QED BY <6>1, <6>2, MsgMid
        <5>3. OnDataFrame(k, body) = SendFrame(l, op, msg, "head")
          BY <1>10, <1>16, <2>5, <3>4, <3>6, <4>3
        <5>4. Reply(fs, i + 1) = Answer(op, msg) /\ op \in Words
          <6>1. Reply(fs, i + 1) = Answer(op, msg)
            BY <2>3, <3>1, <3>3, <3>6, <4>1, <4>3
          <6>2. op \in {"TEXT", "BIN"}
            BY <3>1, <3>3
          <6>3. op \in Words
            <7>1. PICK x \in 1 .. i : InMessage(fs, i, x) /\ fs[x].op \in {"TEXT", "BIN"}
              BY <3>2 DEF Started
            <7>2. Kind(fs, i) = fs[x].op
              BY <1>1, <7>1, KindIs
            <7>3. fs[x] \in Frames
              BY <1>1, <7>1
            <7>4. fs[x].op \in STRING
              BY <7>3 DEF Frames
            <7> QED BY <3>1, <7>2, <7>4, CellsAre
          <6> QED BY <6>1, <6>3
        <5> HIDE DEF l, msg, op
        <5>5. Told(SendFrame(l, op, msg, "head"))
          BY <4>1, <5>2, <5>4, SaysNext
        <5> QED BY <5>3, <5>5
      <4>4. CASE ~ f.fin
        <5> DEFINE l == WithMsg(k, msg, op)
        <5>1. Open(fs, (i + 1) + 1) /\ op = Kind(fs, i + 1) /\ op # "none"
          BY <1>1, <1>7, <3>1, <3>3, <4>4
        <5>2. /\ Mid(l, s, i + 1) /\ After(l, Wire(s), p) /\ l = [x \in Fields |-> l[x]]
              /\ l.out = k.out
          <6>1. /\ After(k, Wire(s), p) /\ i \in 0 .. Len(s.frames) /\ i + 1 \in 0 .. Len(s.frames)
                /\ msg \in Seq(Cells) /\ Len(msg) <= MaxPayload
                /\ IF Open(s.frames, (i + 1) + 1)
                   THEN /\ msg = Bits(Body(s.frames, i + 1)) /\ op = Kind(s.frames, i + 1)
                        /\ op # "none"
                   ELSE op = "none"
            BY <1>1, <4>1, <5>1
          <6> HIDE DEF msg, op, p, fs
          <6>2. \A x \in 1 .. i + 1 : ~ Ends(s.frames, x)
            BY <4>2 DEF fs
          <6> QED BY <6>1, <6>2, MsgMid
        <5>3. OnDataFrame(k, body) = Goto(l, "head")
          BY <1>10, <1>16, <2>5, <3>4, <3>6, <4>4
        <5>4. l.out = Said(s, i + 1)
          <6>1. Reply(fs, i + 1) = <<>>
            BY <2>3, <3>6, <4>4
          <6>2. Said(s, i + 1) = Said(s, i) \o <<>> /\ Said(s, i) \in Seq(Cells)
            BY <1>1, <1>8, <6>1, SaidIs
          <6>3. Said(s, i + 1) = Said(s, i)
            BY <6>2, ConcatEmptySeq
          <6> QED BY <5>2, <6>3
        <5> HIDE DEF l
        <5>5. Told(Goto(l, "head"))
          BY <1>1, <5>2, <5>4, Awaits
        <5> QED BY <5>3, <5>5
      <4> QED BY <1>2, <4>3, <4>4
    <3> QED BY <3>5, <3>6
  <2> QED BY <2>4, <2>5
<1> QED BY <1>15, <1>16

-----------------------------------------------------------------------------
(* A field that is whole *)

(* A frame that is here whole                                               *)
LEMMA OnFrameTold ==
    ASSUME NEW k, k = [f \in Fields |-> k[f]], NEW s \in Scripts, NEW i \in 0 .. Len(s.frames) - 1,
           Mid(k, s, i), k.out = Said(s, i), Fits(s.frames[i + 1]), Knows(k, s.frames[i + 1]),
           Len(s.frames[i + 1].data) = s.frames[i + 1].len,
           After(k, Wire(s), Pos(s, i + 1))
    PROVE  Told(OnFrame(k, Bits(s.frames[i + 1].data)))
<1> DEFINE fs == s.frames
           n == Len(fs)
           f == fs[i + 1]
           body == Bits(f.data)
           p == Pos(s, i + 1)
<1>1. /\ n \in Nat /\ i \in 0 .. n /\ i + 1 \in 0 .. n /\ i + 1 \in 1 .. n
      /\ fs \in Seq(Frames)
  BY ScriptIs
<1>2. body \in Seq(Cells)
  <2>1. f \in Frames
    BY <1>1
  <2>2. f.data \in Seq(Nat)
    BY <2>1 DEF Frames
  <2> QED BY <2>2, BitsAre
<1>3. k.hdr.op = f.op
  BY DEF Knows
<1>4. f.op \in {"CONT", "TEXT", "BIN", "CLOSE", "PING", "PONG"}
  BY DEF Fits, Legal, Ops
<1>5. "CLOSE" \in Words /\ "PONG" \in Words
  BY CellsAre
<1>6. ASSUME f.op \in Control
      PROVE  ~ IsData(f) /\ Code(fs, i + 1) = 0
  <2>1. ~ IsData(f)
    BY <1>6 DEF IsData
  <2>2. Legal(f) /\ ~ (f.len > MaxPayload)
    BY DEF Fits
  <2> QED BY <2>1, <2>2 DEF Code
<1>7. CASE f.op = "CLOSE"
  <2>1. ~ IsData(f) /\ Code(fs, i + 1) = 0
    BY <1>6, <1>7 DEF Control
  <2>2. Reply(fs, i + 1) = Answer("CLOSE", body) /\ Ends(fs, i + 1)
    BY <1>7, <2>1 DEF Reply, Ends
  <2>3. Told(SendFrame(k, "CLOSE", body, "done"))
    BY <1>2, <1>5, <2>2, SaysLast
  <2>4. OnFrame(k, body) = SendFrame(k, "CLOSE", body, "done")
    BY <1>3, <1>7 DEF OnFrame
  <2> QED BY <2>3, <2>4
<1>8. CASE f.op = "PING"
  <2>1. ~ IsData(f) /\ Code(fs, i + 1) = 0
    BY <1>6, <1>8 DEF Control
  <2>2. Reply(fs, i + 1) = Answer("PONG", body) /\ ~ Ends(fs, i + 1)
    BY <1>8, <2>1 DEF Reply, Ends
  <2>3. Mid(k, s, i + 1)
    BY <2>1, <2>2, MidSkips
  <2>4. Told(SendFrame(k, "PONG", body, "head"))
    BY <1>2, <1>5, <2>2, <2>3, SaysNext
  <2>5. OnFrame(k, body) = SendFrame(k, "PONG", body, "head")
    BY <1>3, <1>8 DEF OnFrame, Pong
  <2> QED BY <2>4, <2>5
<1>9. CASE f.op = "PONG"
  <2>1. ~ IsData(f) /\ Code(fs, i + 1) = 0
    BY <1>6, <1>9 DEF Control
  <2>2. Reply(fs, i + 1) = <<>> /\ ~ Ends(fs, i + 1)
    BY <1>9, <2>1 DEF Reply, Ends
  <2>3. Mid(k, s, i + 1)
    BY <2>1, <2>2, MidSkips
  <2>4. Said(s, i + 1) = Said(s, i) \o <<>> /\ Said(s, i) \in Seq(Cells)
    <3>1. \A j \in 1 .. i : ~ Ends(fs, j)
      BY DEF Mid
    <3> QED BY <1>1, <2>2, <3>1, SaidIs
  <2>5. k.out = Said(s, i + 1)
    BY <2>4, ConcatEmptySeq
  <2>6. Told(Goto(k, "head"))
    BY <1>1, <2>3, <2>5, Awaits
  <2>7. OnFrame(k, body) = Goto(k, "head")
    BY <1>3, <1>9 DEF OnFrame
  <2> QED BY <2>6, <2>7
<1>10. CASE f.op \in {"CONT", "TEXT", "BIN"}
  <2>1. IsData(f)
    BY <1>10 DEF IsData, Control
  <2>2. Told(OnDataFrame(k, body))
    BY <2>1, DataTold
  <2>3. OnFrame(k, body) = OnDataFrame(k, body)
    BY <1>3, <1>10 DEF OnFrame
  <2> QED BY <2>2, <2>3
<1> QED BY <1>4, <1>7, <1>8, <1>9, <1>10

(* What a connection at stage pc has when its field is whole                *)
LEMMA FrameIs ==
    ASSUME NEW s \in Scripts, NEW i \in 0 .. Len(s.frames) - 1
    PROVE  LET f == s.frames[i + 1] IN
           /\ f \in Frames /\ f.fin \in BOOLEAN /\ f.rsv \in BOOLEAN /\ f.masked \in BOOLEAN
           /\ f.form \in {7, 16, 64} /\ f.len \in Nat /\ f.key \in Nat /\ f.data \in Seq({0, 1})
           /\ Len(f.data) \in Nat
           /\ f.form = 7 => f.len <= SmallMax
           /\ f.form = 16 => f.len <= MediumMax
           /\ f.len <= MaxPayload => Len(f.data) = f.len
           /\ HdrSize(f) \in {2, 3} /\ (f.form # 7 <=> HdrSize(f) = 3)
           /\ i \in 0 .. Len(s.frames) /\ Pos(s, i) \in Nat
           /\ Pos(s, i + 1) = Pos(s, i) + Len(FrameBytes(f))
           /\ Len(FrameBytes(f)) \in Nat /\ Len(FrameBytes(f)) >= 2
<1> DEFINE f == s.frames[i + 1]
<1>1. i + 1 \in 1 .. Len(s.frames) /\ i \in 0 .. Len(s.frames)
  BY ScriptIs
<1>2. /\ f \in Frames
      /\ f.form = 7 => f.len <= SmallMax
      /\ f.form = 16 => f.len <= MediumMax
      /\ f.len <= MaxPayload => Len(f.data) = f.len
  BY <1>1, ScriptIs
<1>3. /\ f.fin \in BOOLEAN /\ f.rsv \in BOOLEAN /\ f.masked \in BOOLEAN
      /\ f.form \in {7, 16, 64} /\ f.len \in Nat /\ f.key \in Nat /\ f.data \in Seq({0, 1})
  BY <1>2 DEF Frames
<1>4. Len(f.data) \in Nat
  BY <1>3
<1>5. HdrSize(f) \in {2, 3} /\ (f.form # 7 <=> HdrSize(f) = 3)
  BY DEF HdrSize
<1>6. FrameBytes(f) \in Seq(Cells) /\ Len(FrameBytes(f)) >= 2
  BY <1>2, FrameBytesAre
<1>7. Len(FrameBytes(f)) \in Nat
  BY <1>6
<1>8. Pos(s, i) \in Nat /\ Pos(s, i + 1) = Pos(s, i) + Len(FrameBytes(f))
  BY <1>1, ScriptIs
<1> QED BY <1>1, <1>2, <1>3, <1>4, <1>5, <1>6, <1>7, <1>8

(* What the second byte says of a longer form, and an extended length that  *)
(* goes with another form                                                   *)
Announced(form) == IF form = 16 THEN N16 ELSE N64
Misfits(n, len) ==
    \/ n = N16 /\ len < N16
    \/ n = N64 /\ (len <= MediumMax \/ len >= TopBit)

(* The form of a length is the shortest, or it is refused.                  *)
LEMMA FormIs ==
    ASSUME NEW form \in {7, 16, 64}, NEW len \in Nat,
           form = 7 => len <= SmallMax, form = 16 => len <= MediumMax
    PROVE  /\ form = 7 => form = Shortest(len) /\ len < TopBit /\ len # N16 /\ len # N64
           /\ form # 7 => (Misfits(Announced(form), len)
                           <=> ~ (form = Shortest(len) /\ len < TopBit))
BY Constants DEF Shortest, Announced, Misfits

(* The first two bytes                                                      *)
LEMMA HeadTold ==
    ASSUME NEW k, k = [f \in Fields |-> k[f]], NEW s \in Scripts, NEW i \in 0 .. Len(s.frames),
           Mid(k, s, i), k.out = Said(s, i), At(k, Wire(s), Pos(s, i)), Len(k.buf) = 2
    PROVE  Told(RecvHead(k))
<1> DEFINE fs == s.frames
           n == Len(fs)
           f == fs[i + 1]
           w == Wire(s)
           p == Pos(s, i)
           b == k.buf
<1>1. Sane(k)
  BY DEF Mid
<1>2. i \in 0 .. n - 1
  <2>1. /\ w \in Seq(Cells) /\ p \in Nat /\ n \in Nat /\ Len(w) \in Nat
        /\ (i = n => p = Len(w))
    BY ScriptIs
  <2>2. p + 2 <= Len(w)
    <3>1. b \in Seq(Cells) /\ k.carry \in Seq(Cells) /\ k.in \in Seq(Cells)
      BY <1>1 DEF Sane
    <3>2. k.carry \o k.in \in Seq(Cells)
      BY <3>1, Cat
    <3>3. Along(b \o (k.carry \o k.in), Lossless(k), w, p)
      BY DEF At
    <3> DEFINE t == k.carry \o k.in
    <3>4. t \in Seq(Cells) /\ Along(b \o t, Lossless(k), w, p) /\ Len(b) = 2
      BY <3>2, <3>3
    <3> HIDE DEF t, b, w, p
    <3>5. p + Len(b) <= Len(w)
      <4>1. b \in Seq(Cells) /\ w \in Seq(Cells) /\ p \in Nat
        BY <2>1, <3>1
      <4> QED BY <3>4, <4>1, AlongParts
    <3> QED BY <3>4, <3>5
  <2> HIDE DEF w, p, n
  <2>3. i # n
    BY <2>1, <2>2
  <2> QED BY <2>1, <2>3 DEF n
<1>3. /\ f \in Frames /\ f.rsv \in BOOLEAN /\ f.masked \in BOOLEAN
      /\ f.form \in {7, 16, 64} /\ f.len \in Nat
      /\ f.form = 7 => f.len <= SmallMax
      /\ HdrSize(f) \in {2, 3} /\ (f.form # 7 <=> HdrSize(f) = 3)
      /\ p \in Nat /\ Len(FrameBytes(f)) >= 2
  BY <1>2, FrameIs
<1>4. /\ b[1] = FrameBytes(f)[1] /\ b[2] = FrameBytes(f)[2]
      /\ After(k, w, p + 2)
  <2> DEFINE g == FrameBytes(f)
  <2>1. At(k, w, p + 0)
    <3>1. p + 0 = p
      BY <1>3
    <3> QED BY <3>1
  <2>2. Len(b) = 2 /\ Len(g) >= 2
    BY <1>3
  <2>3. 0 + Len(b) <= Len(g)
    <3> HIDE DEF b, g
    <3> QED BY <2>2
  <2>4. /\ \A j \in 1 .. Len(b) : b[j] = g[0 + j]
        /\ After(k, w, p + (0 + Len(b)))
    BY <1>1, <1>2, <2>1, <2>3, InHand
  <2>5. p \in Nat
    BY <1>3
  <2> HIDE DEF b, g, p
  <2>6. b[1] = g[1] /\ b[2] = g[2]
    BY <2>2, <2>4
  <2>7. p + (0 + Len(b)) = p + 2
    BY <2>2, <2>5
  <2>8. After(k, w, p + 2)
    BY <2>4, <2>7
  <2> QED BY <2>6, <2>8 DEF g
<1>5. FrameBytes(f)[1] = Cell("b0", [fin |-> f.fin, op |-> f.op, rsv |-> f.rsv])
  BY <1>3, FrameBytesAre
<1> DEFINE m == IF f.form = 7 THEN f.len ELSE IF f.form = 16 THEN N16 ELSE N64
<1>6. FrameBytes(f)[2] = Cell("b1", [masked |-> f.masked, n |-> m])
  BY <1>3, FrameBytesAre
<1>7. /\ b[1].v.fin = f.fin /\ b[1].v.op = f.op /\ b[1].v.rsv = f.rsv
      /\ b[2].v.masked = f.masked /\ b[2].v.n = m
  <2> HIDE DEF m
  <2> QED BY <1>4, <1>5, <1>6 DEF Cell
<1> DEFINE h == [fin |-> f.fin, op |-> f.op, len |-> m]
           j == [k EXCEPT !.hdr = h]
<1>8. RecvHead(k) = IF f.rsv \/ f.op \notin Ops \/ ~ f.masked THEN SendClose(j, CLOSE_PROTOCOL)
                    ELSE IF m \in {N16, N64} THEN Goto(j, "ext")
                    ELSE Sized(j)
  <2> HIDE DEF m
  <2> QED BY <1>7 DEF RecvHead
<1>9. /\ j = [x \in Fields |-> j[x]] /\ Kept(k, j) /\ j.buf = k.buf /\ j.hdr = h
  <2> HIDE DEF h
  <2> QED BY HdrIs
<1> HIDE DEF j
<1>10. Mid(j, s, i) /\ j.out = Said(s, i) /\ After(j, w, p + 2)
  BY <1>4, <1>9, FieldsMid DEF Kept
<1>11. m \in {N16, N64} <=> f.form # 7
  <2>1. f.form = 7 => f.len # N16 /\ f.len # N64
    BY <1>2, FrameIs, FormIs
  <2> QED BY <1>3, <2>1
<1>12. CASE f.rsv \/ f.op \notin Ops \/ ~ f.masked
  <2>1. ~ Legal(f)
    BY <1>12 DEF Legal
  <2>2. Code(fs, i + 1) = CLOSE_PROTOCOL
    BY <2>1 DEF Code
  <2>3. CLOSE_PROTOCOL # 0
    BY DEF CLOSE_PROTOCOL
  <2>4. Told(SendClose(j, CLOSE_PROTOCOL))
    BY <1>2, <1>9, <1>10, <2>2, <2>3, Refuses
  <2> QED BY <1>8, <1>12, <2>4
<1>13. CASE ~ (f.rsv \/ f.op \notin Ops \/ ~ f.masked)
  <2>1. Sound(f)
    BY <1>13 DEF Sound
  <2>2. CASE f.form # 7
    <3>1. RecvHead(k) = Goto(j, "ext")
      BY <1>8, <1>11, <1>13, <2>2
    <3>2. j.hdr = [fin |-> f.fin, op |-> f.op, len |-> IF f.form = 16 THEN N16 ELSE N64]
      BY <1>9, <2>2
    <3> DEFINE q == p + 2
    <3>3. After(j, w, q) /\ q = Pos(s, i) + 2
      BY <1>10
    <3> HIDE DEF q
    <3>4. Told(Goto(j, "ext"))
      BY <1>2, <1>9, <1>10, <2>1, <2>2, <3>2, <3>3, ReadsOn
    <3> QED BY <3>1, <3>4
  <2>3. CASE f.form = 7
    <3>1. RecvHead(k) = Sized(j)
      BY <1>8, <1>11, <1>13, <2>3
    <3>2. Knows(j, f)
      BY <1>9, <2>3 DEF Knows
    <3>3. HdrSize(f) = 2
      BY <2>3 DEF HdrSize
    <3>4. f.form = Shortest(f.len) /\ f.len < TopBit
      BY <1>2, <2>3, FrameIs, FormIs
    <3>5. After(j, w, p + HdrSize(f))
      BY <1>10, <3>3
    <3>6. Told(Sized(j))
      BY <1>2, <1>9, <1>10, <2>1, <3>2, <3>4, <3>5, SizedTold
    <3> QED BY <3>1, <3>6
  <2> QED BY <2>2, <2>3
<1> QED BY <1>12, <1>13

(* An extended length is refused when it goes with another form.            *)
LEMMA RecvExtIs ==
    ASSUME NEW k
    PROVE  RecvExt(k) = IF Misfits(k.hdr.len, k.buf[1].v) THEN SendClose(k, CLOSE_PROTOCOL)
                        ELSE Sized([k EXCEPT !.hdr.len = k.buf[1].v])
BY DEF RecvExt, Misfits

(* The extended length                                                      *)
LEMMA ExtTold ==
    ASSUME NEW k, k = [f \in Fields |-> k[f]], NEW s \in Scripts, NEW i \in 0 .. Len(s.frames) - 1,
           Mid(k, s, i), k.out = Said(s, i), k.pc = "ext", InFrame(k, s, i, s.frames[i + 1]),
           Len(k.buf) = 1
    PROVE  Told(RecvExt(k))
<1> DEFINE fs == s.frames
           f == fs[i + 1]
           w == Wire(s)
           p == Pos(s, i)
           b == k.buf
<1>1. Sane(k)
  BY DEF Mid
<1>2. /\ f \in Frames
      /\ f.form \in {7, 16, 64} /\ f.len \in Nat
      /\ f.form = 16 => f.len <= MediumMax
      /\ HdrSize(f) \in {2, 3} /\ (f.form # 7 <=> HdrSize(f) = 3)
      /\ p \in Nat
  BY FrameIs
<1>3. /\ Sound(f) /\ f.form # 7
      /\ k.hdr = [fin |-> f.fin, op |-> f.op, len |-> IF f.form = 16 THEN N16 ELSE N64]
      /\ At(k, w, p + 2)
  BY DEF InFrame
<1>4. FrameBytes(f)[3] = Cell("ext", f.len) /\ Len(FrameBytes(f)) >= 3
      /\ FrameBytes(f) \in Seq(Cells)
  BY <1>2, <1>3, FrameBytesAre
<1>5. b[1] = FrameBytes(f)[3] /\ After(k, w, p + 3)
  <2> DEFINE g == FrameBytes(f)
  <2>1. Len(b) = 1 /\ Len(g) >= 3
    BY <1>4
  <2>2. 2 + Len(b) = 3 /\ 2 \in Nat /\ 2 + Len(b) <= Len(g)
    <3> HIDE DEF b, g
    <3> QED BY <2>1
  <2>3. /\ \A j \in 1 .. Len(b) : b[j] = g[2 + j]
        /\ After(k, w, p + (2 + Len(b)))
    BY <1>1, <1>3, <2>2, InHand
  <2> HIDE DEF b, g
  <2>4. b[1] = g[2 + 1]
    BY <2>1, <2>3
  <2>5. After(k, w, p + 3)
    BY <2>2, <2>3
  <2> QED BY <2>4, <2>5 DEF g
<1>6. b[1].v = f.len
  BY <1>4, <1>5 DEF Cell
<1> DEFINE h == [fin |-> f.fin, op |-> f.op, len |-> f.len]
           j == [k EXCEPT !.hdr = h]
           bad == Misfits(k.hdr.len, f.len)
<1>7. RecvExt(k) = IF bad THEN SendClose(k, CLOSE_PROTOCOL) ELSE Sized(j)
  <2>1. RecvExt(k) = IF bad THEN SendClose(k, CLOSE_PROTOCOL)
                     ELSE Sized([k EXCEPT !.hdr.len = f.len])
    BY <1>6, RecvExtIs
  <2>2. [k.hdr EXCEPT !.len = f.len] = h
    <3> DEFINE m == IF f.form = 16 THEN N16 ELSE N64
               was == k.hdr
    <3>1. was = [fin |-> f.fin, op |-> f.op, len |-> m]
      BY <1>3
    <3> HIDE DEF m, f, was
    <3>2. [was EXCEPT !.len = f.len] = h
      BY <3>1
    <3> QED BY <3>2 DEF was
  <2>3. [k EXCEPT !.hdr.len = f.len] = [k EXCEPT !.hdr = [k.hdr EXCEPT !.len = f.len]]
    OBVIOUS
  <2>4. [k EXCEPT !.hdr.len = f.len] = j
    BY <2>2, <2>3
  <2> QED BY <2>1, <2>4
<1>8. /\ j = [x \in Fields |-> j[x]] /\ Kept(k, j) /\ j.buf = k.buf /\ j.hdr = h
  <2> HIDE DEF h
  <2> QED BY HdrIs
<1> HIDE DEF j
<1>9. Mid(j, s, i) /\ j.out = Said(s, i) /\ After(j, w, p + 3)
  BY <1>5, <1>8, FieldsMid DEF Kept
<1>10. k.hdr.len = IF f.form = 16 THEN N16 ELSE N64
  BY <1>3
<1>11. bad <=> ~ (f.form = Shortest(f.len) /\ f.len < TopBit)
  <2>1. Misfits(Announced(f.form), f.len) <=> ~ (f.form = Shortest(f.len) /\ f.len < TopBit)
    BY <1>3, FrameIs, FormIs
  <2>2. k.hdr.len = Announced(f.form)
    BY <1>10 DEF Announced
  <2> QED BY <2>1, <2>2
<1>12. CASE bad
  <2>1. ~ Legal(f)
    BY <1>11, <1>12 DEF Legal
  <2>2. Code(fs, i + 1) = CLOSE_PROTOCOL
    BY <2>1 DEF Code
  <2>3. CLOSE_PROTOCOL # 0
    BY DEF CLOSE_PROTOCOL
  <2>4. Told(SendClose(k, CLOSE_PROTOCOL))
    BY <2>2, <2>3, Refuses
  <2> QED BY <1>7, <1>12, <2>4
<1>13. CASE ~ bad
  <2>1. f.form = Shortest(f.len) /\ f.len < TopBit
    BY <1>11, <1>13
  <2>2. Knows(j, f)
    BY <1>8 DEF Knows
  <2>3. After(j, w, p + HdrSize(f))
    BY <1>2, <1>3, <1>9
  <2>4. Told(Sized(j))
    BY <1>3, <1>8, <1>9, <2>1, <2>2, <2>3, SizedTold
  <2> QED BY <1>7, <1>13, <2>4
<1> QED BY <1>12, <1>13

(* The mask key                                                             *)
LEMMA MaskTold ==
    ASSUME NEW k, k = [f \in Fields |-> k[f]], NEW s \in Scripts, NEW i \in 0 .. Len(s.frames) - 1,
           Mid(k, s, i), k.out = Said(s, i), k.pc = "mask", InFrame(k, s, i, s.frames[i + 1]),
           Len(k.buf) = 1
    PROVE  Told(RecvMask(k))
<1> DEFINE fs == s.frames
           f == fs[i + 1]
           w == Wire(s)
           p == Pos(s, i)
           b == k.buf
           g == FrameBytes(f)
           z == HdrSize(f)
<1>1. Sane(k)
  BY DEF Mid
<1>2. f \in Frames /\ z \in {2, 3} /\ p \in Nat /\ Len(f.data) \in Nat
  BY FrameIs
<1>3. Fits(f) /\ Knows(k, f) /\ At(k, w, p + z)
  BY DEF InFrame
<1>4. g[z + 1] = Cell("key", f.key) /\ Len(g) = z + 1 + Len(f.data)
  <2>1. f.masked
    BY <1>3 DEF Fits, Legal
  <2> QED BY <1>2, <2>1, FrameBytesAre
<1>5. b[1] = g[z + 1] /\ After(k, w, p + (z + 1))
  <2>1. Len(b) = 1
    OBVIOUS
  <2>2. z \in Nat /\ z + Len(b) = z + 1 /\ z + Len(b) <= Len(g)
    <3> DEFINE l == Len(f.data)
    <3>1. Len(g) = z + 1 + l /\ l \in Nat /\ z \in {2, 3}
      BY <1>2, <1>4
    <3> HIDE DEF l, g, b, z
    <3> QED BY <2>1, <3>1
  <2>3. /\ \A j \in 1 .. Len(b) : b[j] = g[z + j]
        /\ After(k, w, p + (z + Len(b)))
    BY <1>1, <1>3, <2>2, InHand
  <2> HIDE DEF b, g, z
  <2>4. b[1] = g[z + 1]
    BY <2>1, <2>3
  <2>5. After(k, w, p + (z + 1))
    BY <2>2, <2>3
  <2> QED BY <2>4, <2>5
<1>6. b[1].v = f.key
  BY <1>4, <1>5 DEF Cell
<1> DEFINE y == f.key
           j == [k EXCEPT !.key = y]
<1>7. RecvMask(k) = Goto(j, "payload")
  <2> DEFINE x == k.buf[1].v
  <2>1. RecvMask(k) = Goto([k EXCEPT !.key = x], "payload")
    BY DEF RecvMask
  <2>2. x = f.key
    BY <1>6
  <2> HIDE DEF x
  <2>3. [k EXCEPT !.key = x] = j
    BY <2>2
  <2> HIDE DEF j
  <2> QED BY <2>1, <2>3, Zenon
<1>8. j = [x \in Fields |-> j[x]] /\ Kept(k, j) /\ j.buf = k.buf /\ j.hdr = k.hdr /\ j.key = f.key
  <2> HIDE DEF y
  <2>1. j = [x \in Fields |-> j[x]] /\ Kept(k, j) /\ j.buf = k.buf /\ j.hdr = k.hdr /\ j.key = y
    BY KeyIs
  <2> HIDE DEF j
  <2> QED BY <2>1 DEF y
<1> HIDE DEF j
<1> DEFINE q == p + z + 1
<1>9. Mid(j, s, i) /\ j.out = Said(s, i) /\ After(j, w, p + (z + 1))
  BY <1>5, <1>8, FieldsMid DEF Kept
<1>10. q = p + (z + 1)
  BY <1>2
<1>11. After(j, w, q) /\ q = Pos(s, i) + HdrSize(f) + 1 /\ Knows(j, f)
  BY <1>3, <1>8, <1>9, <1>10 DEF Knows
<1> HIDE DEF q
<1>12. Told(Goto(j, "payload"))
  BY <1>3, <1>8, <1>9, <1>11, ReadsOn
<1> QED BY <1>7, <1>12

(* The payload                                                              *)
LEMMA PayloadTold ==
    ASSUME NEW k, k = [f \in Fields |-> k[f]], NEW s \in Scripts, NEW i \in 0 .. Len(s.frames) - 1,
           Mid(k, s, i), k.out = Said(s, i), k.pc = "payload", InFrame(k, s, i, s.frames[i + 1]),
           Len(k.buf) = k.hdr.len
    PROVE  Told(RecvPayload(k))
<1> DEFINE fs == s.frames
           f == fs[i + 1]
           w == Wire(s)
           p == Pos(s, i)
           b == k.buf
           g == FrameBytes(f)
           z == HdrSize(f)
           l == Len(f.data)
<1>1. Sane(k)
  BY DEF Mid
<1>2. /\ f \in Frames /\ z \in {2, 3} /\ p \in Nat /\ l \in Nat /\ f.len \in Nat /\ f.key \in Nat
      /\ f.data \in Seq({0, 1}) /\ Pos(s, i + 1) = p + Len(g)
      /\ f.len <= MaxPayload => l = f.len
  BY FrameIs
<1>3. Fits(f) /\ Knows(k, f) /\ k.key = f.key /\ At(k, w, p + z + 1)
  BY DEF InFrame
<1>4. /\ Len(g) = z + 1 + l
      /\ \A j \in 1 .. l : g[z + 1 + j] = Cell("byte", (f.data[j] + f.key) % 2)
  <2>1. f.masked
    BY <1>3 DEF Fits, Legal
  <2> QED BY <1>2, <2>1, FrameBytesAre
<1>5. l = f.len /\ Len(b) = l
  <2>1. f.len <= MaxPayload
    <3>1. ~ (f.len > MaxPayload) /\ f.len \in Nat /\ MaxPayload \in Nat
      BY <1>2, <1>3, Constants DEF Fits
    <3> QED BY <3>1
  <2>2. k.hdr.len = f.len
    BY <1>3 DEF Knows
  <2> QED BY <1>2, <2>1, <2>2
<1>6. /\ \A j \in 1 .. l : b[j] = g[(z + 1) + j]
      /\ After(k, w, p + Len(g))
  <2> DEFINE d == z + 1
  <2>1. d + Len(b) <= Len(g) /\ d \in Nat /\ d + Len(b) = Len(g) /\ p + z + 1 = p + d
    BY <1>2, <1>4, <1>5
  <2>2. At(k, w, p + d)
    BY <1>3, <2>1
  <2> HIDE DEF d
  <2>3. \A j \in 1 .. Len(b) : b[j] = g[d + j]
    BY <1>1, <2>1, <2>2, InHand
  <2>4. After(k, w, p + (d + Len(b)))
    BY <1>1, <2>1, <2>2, InHand
  <2> QED BY <1>5, <2>1, <2>3, <2>4 DEF d
<1>7. \A j \in 1 .. Len(b) : b[j] = Cell("byte", (f.data[j] + f.key) % 2)
  <2> SUFFICES ASSUME NEW j \in 1 .. Len(b) PROVE b[j] = Cell("byte", (f.data[j] + f.key) % 2)
    OBVIOUS
  <2>1. j \in 1 .. l /\ (z + 1) + j = z + 1 + j
    BY <1>5
  <2> HIDE DEF b, g, l
  <2> QED BY <1>4, <1>6, <2>1
<1>8. Bits(Xor([x \in DOMAIN b |-> b[x].v], f.key)) = Bits(f.data)
  <2>1. b \in Seq(Cells)
    BY <1>1 DEF Sane
  <2> QED BY <1>2, <1>5, <1>7, <2>1, Unmasked
<1>9. RecvPayload(k) = OnFrame(k, Bits(f.data))
  BY <1>3, <1>8 DEF RecvPayload
<1>10. Told(OnFrame(k, Bits(f.data)))
  BY <1>2, <1>3, <1>5, <1>6, OnFrameTold
<1> QED BY <1>9, <1>10

-----------------------------------------------------------------------------
(* The request *)

(* What a sequence begins with is a prefix of it.                           *)
LEMMA PrefixIs ==
    ASSUME NEW T, NEW x \in Seq(T), NEW y, Begins(T, x, y)
    PROVE  IsPrefix(x, y)
<1>1. PICK u \in Seq(T) : y = x \o u
  BY DEF Begins
<1>2. /\ x \o u \in Seq(T) /\ Len(x \o u) = Len(x) + Len(u) /\ Len(x) \in Nat /\ Len(u) \in Nat
      /\ \A j \in 1 .. Len(x) : (x \o u)[j] = x[j]
  BY Cat
<1>3. /\ y \in Seq(T) /\ Len(y) = Len(x) + Len(u)
      /\ \A j \in 1 .. Len(x) : y[j] = x[j]
  BY <1>1, <1>2
<1>4. Len(x) <= Len(y)
  BY <1>2, <1>3
<1> DEFINE n == Len(x)
           a == SubSeq(x, 1, n)
           b == SubSeq(y, 1, n)
<1>5. a \in Seq(T) /\ Len(a) = n /\ \A j \in 1 .. n : a[j] = x[j]
  BY <1>2
<1>6. b \in Seq(T) /\ Len(b) = n /\ \A j \in 1 .. n : b[j] = y[j]
  BY <1>2, <1>3, <1>4
<1> HIDE DEF n, a, b
<1>7. a = b
  <2>1. \A j \in 1 .. n : a[j] = b[j]
    BY <1>3, <1>5, <1>6 DEF n
  <2> QED BY <1>5, <1>6, <2>1, SeqEqual
<1> QED BY <1>4, <1>7 DEF IsPrefix, n, a, b

(* The whole of a sequence is what it begins with.                          *)
LEMMA WholeIs ==
    ASSUME NEW T, NEW x \in Seq(T)
    PROVE  SubSeq(x, 1, Len(x)) = x
<1> DEFINE n == Len(x)
           a == SubSeq(x, 1, n)
<1>1. n \in Nat
  OBVIOUS
<1>2. a \in Seq(T) /\ Len(a) = n /\ \A j \in 1 .. n : a[j] = x[j]
  OBVIOUS
<1> HIDE DEF a
<1>3. a = x
  BY <1>2, SeqEqual
<1> QED BY <1>3 DEF a

(* Where the request ends, as the reference finds it                        *)
Ending(s) == HeaderEnd(SubSeq(Wire(s), 1, Min({MaxRequest - 1, Len(Wire(s))})))

(* What a client is owed                                                    *)
LEMMA OwedIs ==
    ASSUME NEW s \in Scripts
    PROVE  /\ Owed(s) = IF Ending(s) = 0
                        THEN IF Len(Wire(s)) < MaxRequest - 1 THEN <<>> ELSE <<Cell("http", 431)>>
                        ELSE IF s.request[1].k # "upgrade" THEN <<Cell("http", 400)>>
                        ELSE Said(s, Len(s.frames))
           /\ Owed(s) \in Seq(Cells)
           /\ Cell("http", 431) \in Cells /\ Cell("http", 400) \in Cells
           /\ Cell("http", 101) \in Cells
<1> DEFINE last == Said(s, Len(s.frames))
<1>1. last = <<Cell("http", 101)>> \o FlattenSeq(Replies(s.frames)) /\ last \in Seq(Cells)
  <2>1. Len(s.frames) \in Nat
    BY ScriptIs
  <2>2. Len(s.frames) \in 0 .. Len(s.frames)
    BY <2>1
  <2> QED BY <2>2, SaidIs
<1>2. /\ Cell("http", 431) \in Cells /\ Cell("http", 400) \in Cells
      /\ Cell("http", 101) \in Cells
  BY CellsAre
<1> HIDE DEF last
<1> DEFINE h == Ending(s)
<1>3. Owed(s) = IF h = 0
                THEN IF Len(Wire(s)) < MaxRequest - 1 THEN <<>> ELSE <<Cell("http", 431)>>
                ELSE IF s.request[1].k # "upgrade" THEN <<Cell("http", 400)>>
                ELSE last
  BY <1>1, Zenon DEF Owed, Ending
<1> HIDE DEF h
<1> DEFINE x == Cell("http", 431)
           y == Cell("http", 400)
<1>4. Owed(s) \in {<<>>, <<x>>, <<y>>, last}
  BY <1>3
<1>5. x \in Cells /\ y \in Cells
  BY <1>2
<1> HIDE DEF x, y, Cells
<1>6. Owed(s) \in Seq(Cells)
  <2>1. <<x>> \in Seq(Cells) /\ <<y>> \in Seq(Cells) /\ <<>> \in Seq(Cells)
    BY <1>5
  <2>2. \A z \in {<<>>, <<x>>, <<y>>, last} : z \in Seq(Cells)
    BY <1>1, <2>1
  <2> QED BY <1>4, <2>2
<1> QED BY <1>2, <1>3, <1>6 DEF last, h

(* What has been read of it decides where the request ends, once it shows   *)
(* the end, fills the buffer or is all there is.                            *)
LEMMA EndingIs ==
    ASSUME NEW s \in Scripts, NEW x \in Seq(Cells), Len(x) <= Len(Wire(s)), Len(x) <= MaxRequest - 1,
           \A j \in 1 .. Len(x) : x[j] = Wire(s)[j]
    PROVE  /\ HeaderEnd(x) # 0 => /\ Ending(s) = HeaderEnd(x) /\ HeaderEnd(x) = Len(s.request)
                                  /\ HeaderEnd(x) \in 2 .. Len(x)
           /\ Len(x) = MaxRequest - 1 \/ Len(x) = Len(Wire(s)) => Ending(s) = HeaderEnd(x)
<1> DEFINE w == Wire(s)
           room == MaxRequest - 1
           a == Len(x)
           n == Len(w)
           b == Min({room, n})
<1>1. w \in Seq(Cells) /\ n \in Nat /\ room \in Nat /\ a \in Nat /\ HeaderEnd(w) \in {0, Len(s.request)}
  BY ScriptIs, Constants
<1>2. b = (IF room <= n THEN room ELSE n)
  BY <1>1, MinOf
<1>3. a <= n /\ a <= room
  OBVIOUS
<1> HIDE DEF b, room, n, a
<1>4. b \in 0 .. n /\ a \in 0 .. b /\ a \in 0 .. n /\ n \in 0 .. n /\ (a = room \/ a = n => a = b)
  BY <1>1, <1>2, <1>3
<1>5. SubSeq(w, 1, a) = x
  <2> DEFINE y == SubSeq(w, 1, a)
  <2>1. y \in Seq(Cells) /\ Len(y) = a /\ \A j \in 1 .. a : y[j] = w[j]
    <3>1. a \in 0 .. Len(w)
      BY <1>4 DEF n
    <3> HIDE DEF w
    <3> QED BY <1>1, <3>1, HeaderEndOfPart
  <2> HIDE DEF y, w
  <2>2. Len(x) = a /\ \A j \in 1 .. a : x[j] = w[j]
    BY DEF a, w
  <2>3. y = x
    BY <2>1, <2>2, SeqEqual
  <2> QED BY <2>3 DEF y
<1>6. SubSeq(w, 1, n) = w
  BY <1>1, WholeIs DEF n
<1>7. Ending(s) = HeaderEnd(SubSeq(w, 1, b))
  BY DEF Ending, b, room, n
<1>8. HeaderEnd(x) # 0 => HeaderEnd(SubSeq(w, 1, b)) = HeaderEnd(x) /\ HeaderEnd(w) = HeaderEnd(x)
  <2>1. b \in 0 .. Len(w) /\ n \in 0 .. Len(w) /\ a \in 0 .. b /\ a \in 0 .. n
    BY <1>4 DEF n
  <2> HIDE DEF w
  <2>2. HeaderEnd(x) # 0 => HeaderEnd(SubSeq(w, 1, b)) = HeaderEnd(x)
    BY <1>1, <1>5, <2>1, HeaderEndOfPart
  <2>3. HeaderEnd(x) # 0 => HeaderEnd(SubSeq(w, 1, n)) = HeaderEnd(x)
    BY <1>1, <1>5, <2>1, HeaderEndOfPart
  <2> QED BY <1>6, <2>2, <2>3
<1>9. HeaderEnd(x) # 0 => HeaderEnd(x) \in 2 .. Len(x)
  BY HeaderEndIs
<1>10. a = room \/ a = n => Ending(s) = HeaderEnd(x)
  BY <1>4, <1>5, <1>7
<1>11. HeaderEnd(x) # 0 => HeaderEnd(x) = Len(s.request)
  BY <1>1, <1>8
<1> QED BY <1>7, <1>8, <1>9, <1>10, <1>11 DEF a, room, n

(* A status line is written in one call.                                    *)
LEMMA StatusIs ==
    ASSUME NEW k, k = [f \in Fields |-> k[f]], NEW x \in Cells, k.out = <<>>, NEW next
    PROVE  LET j == Writing(k, <<<<x>>>>, next) IN
           /\ Kept(k, j) /\ j.pc = "tx" /\ j.buf = <<>> /\ j.next = next
           /\ Telling(j, <<x>>)
<1> DEFINE a == <<x>>
           writes == <<a>>
           j == Writing(k, writes, next)
<1>1. Kept(k, j) /\ j.pc = "tx" /\ j.buf = <<>> /\ j.next = next /\ j.tx = writes
  <2> HIDE DEF writes
  <2> QED BY WritingIs
<1> HIDE DEF j
<1>2. a \in Seq(Cells)
  <2> HIDE DEF Cells
  <2> QED OBVIOUS
<1> HIDE DEF a
<1>3. j.out = <<>>
  BY <1>1 DEF Kept
<1>4. <<>> \o a = a
  BY <1>2, ConcatEmptySeq
<1>5. j.out \o a = a /\ j.tx = <<a>>
  BY <1>1, <1>3, <1>4
<1>6. Telling(j, a)
  BY <1>2, <1>5 DEF Telling
<1> QED BY <1>1, <1>6 DEF j, a

(* Only what is carried is noted.                                           *)
LEMMA CarryIs ==
    ASSUME NEW k, k = [f \in Fields |-> k[f]], NEW x
    PROVE  LET j == [k EXCEPT !.carry = x] IN
           /\ j = [f \in Fields |-> j[f]] /\ j.carry = x
           /\ j.in = k.in /\ j.peer = k.peer /\ j.cut = k.cut
           /\ j.out = k.out /\ j.due = k.due /\ j.msg = k.msg /\ j.msg_op = k.msg_op
           /\ j.buf = k.buf
BY DEF Fields

(* A status that is the last word                                           *)
LEMMA LastStatus ==
    ASSUME NEW k, k = [f \in Fields |-> k[f]], Sane(k), NEW x \in Cells, k.out = <<>>,
           k.due = <<x>>
    PROVE  Told(Writing(k, <<<<x>>>>, "done"))
<1> DEFINE j == Writing(k, <<<<x>>>>, "done")
<1>1. /\ Kept(k, j) /\ j.pc = "tx" /\ j.buf = <<>> /\ j.next = "done"
      /\ Telling(j, <<x>>)
  BY StatusIs
<1> HIDE DEF j
<1>2. Sane(j) /\ Len(j.buf) = 0
  BY <1>1, KeptIs
<1>3. Wants(j) = 0
  BY <1>1 DEF Wants
<1>4. Leaves(j)
  BY <1>1 DEF Leaves, Kept
<1>5. Told(j)
  BY <1>2, <1>3, <1>4 DEF Told
<1> QED BY <1>5 DEF j

(* The request has ended, or has filled the buffer.                         *)
LEMMA HandshakeTold ==
    ASSUME NEW k, k = [f \in Fields |-> k[f]], NEW s \in Scripts, Sane(k), Asks(k, s),
           Len(k.buf) <= MaxRequest - 1,
           HeaderEnd(k.buf) # 0 \/ Len(k.buf) = MaxRequest - 1
    PROVE  Told(Handshake(k))
<1> DEFINE w == Wire(s)
           b == k.buf
           in == k.in
           head == HeaderEnd(b)
           x == Behind(b, head)
           j == [k EXCEPT !.carry = x]
           n == Len(s.frames)
           e == Lossless(k)
<1>1. /\ b \in Seq(Cells) /\ in \in Seq(Cells) /\ k.carry = <<>> /\ k.out = <<>>
      /\ k.due = Owed(s) /\ k.msg_op = "none" /\ Len(b) \in Nat /\ Len(b) <= MaxRequest - 1
  BY DEF Sane, Asks
<1>2. w \in Seq(Cells) /\ \A l \in 1 .. Len(s.request) : w[l] = s.request[l]
  BY ScriptIs
<1>3. Along(b \o in, e, w, 0)
  <2>1. Along(b \o (k.carry \o in), e, w, 0)
    BY DEF Asks, At
  <2> HIDE DEF in
  <2>2. <<>> \o in = in
    BY <1>1, ConcatEmptySeq
  <2> QED BY <1>1, <2>1, <2>2
<1>4. Len(b) <= Len(w) /\ \A l \in 1 .. Len(b) : b[l] = w[l]
  <2> HIDE DEF b, in, w, e
  <2>1. 0 + Len(b) <= Len(w) /\ \A l \in 1 .. Len(b) : b[l] = w[0 + l]
    <3> DEFINE p == 0
    <3>1. p \in Nat /\ Along(b \o in, e, w, p)
      BY <1>3
    <3>2. w \in Seq(Cells) /\ b \in Seq(Cells) /\ in \in Seq(Cells)
      BY <1>1, <1>2
    <3> HIDE DEF p
    <3>3. /\ Along(in, e, w, p + Len(b)) /\ p + Len(b) <= Len(w)
          /\ \A l \in 1 .. Len(b) : b[l] = w[p + l]
          /\ Along(b, FALSE, w, p)
      BY <3>1, <3>2, AlongParts
    <3> QED BY <3>3 DEF p
  <2> QED BY <1>1, <2>1
<1>5. /\ head # 0 => Ending(s) = head /\ head = Len(s.request) /\ head \in 2 .. Len(b)
      /\ Len(b) = MaxRequest - 1 => Ending(s) = head
  BY <1>1, <1>4, EndingIs
<1>6. Handshake(k) = IF head = 0 THEN Writing(k, <<<<Cell("http", 431)>>>>, "done")
                     ELSE IF b[1].k # "upgrade" THEN Writing(j, <<<<Cell("http", 400)>>>>, "done")
                     ELSE Writing(j, <<<<Cell("http", 101)>>>>, "head")
  BY DEF Handshake
<1>7. CASE head = 0
  <2>1. Len(b) = MaxRequest - 1 /\ Ending(s) = 0
    BY <1>5, <1>7
  <2>2. ~ (Len(w) < MaxRequest - 1)
    <3> DEFINE l == Len(b)
               m == Len(w)
    <3>1. l = MaxRequest - 1 /\ l <= m /\ m \in Nat /\ MaxRequest \in Nat
      BY <1>2, <1>4, <2>1, Constants
    <3> HIDE DEF l, m
    <3>2. ~ (m < MaxRequest - 1)
      BY <3>1
    <3> QED BY <3>2 DEF m
  <2>3. k.due = <<Cell("http", 431)>> /\ Cell("http", 431) \in Cells
    BY <1>1, <2>1, <2>2, OwedIs
  <2>4. Told(Writing(k, <<<<Cell("http", 431)>>>>, "done"))
    BY <1>1, <2>3, LastStatus
  <2> QED BY <1>6, <1>7, <2>4
<1>8. CASE head # 0
  <2>1. head = Len(s.request) /\ head \in 2 .. Len(b) /\ Ending(s) = head
    BY <1>5, <1>8
  <2>2. b[1] = s.request[1]
    <3> DEFINE l == Len(b)
               m == Len(s.request)
    <3>1. m \in 2 .. l /\ l \in Nat
      BY <1>1, <2>1
    <3> HIDE DEF l, m
    <3>2. 1 \in 1 .. l /\ 1 \in 1 .. m
      BY <3>1
    <3>3. b[1] = w[1] /\ w[1] = s.request[1]
      <4> HIDE DEF b, w
      <4> QED BY <1>2, <1>4, <3>2 DEF l, m
    <3> QED BY <3>3
  <2> DEFINE a == Before(b, head)
  <2>3. /\ a \in Seq(Cells) /\ Len(a) = head /\ x \in Seq(Cells) /\ Len(x) = Len(b) - head
        /\ a \o x = b
    <3>1. head \in 0 .. Len(b)
      BY <1>1, <2>1
    <3>2. b \in Seq(Cells)
      BY <1>1
    <3> HIDE DEF head, b
    <3> QED BY <3>1, <3>2, Cut
  <2>4. Len(x) < MaxRequest
    <3> DEFINE l == Len(b)
               m == Len(x)
    <3>1. /\ l \in Nat /\ l <= MaxRequest - 1 /\ head \in 2 .. l /\ m = l - head
          /\ MaxRequest \in Nat
      BY <1>1, <2>1, <2>3, Constants
    <3> HIDE DEF l, m, head
    <3>2. m < MaxRequest
      BY <3>1
    <3> QED BY <3>2 DEF m
  <2>5. /\ j = [f \in Fields |-> j[f]] /\ j.carry = x
        /\ j.in = k.in /\ j.peer = k.peer /\ j.cut = k.cut
        /\ j.out = k.out /\ j.due = k.due /\ j.msg = k.msg /\ j.msg_op = k.msg_op
        /\ j.buf = k.buf
    <3> HIDE DEF x
    <3> QED BY CarryIs
  <2> HIDE DEF j
  <2>6. Sane(j) /\ j.out = <<>>
    <3> HIDE DEF x
    <3> QED BY <1>1, <2>3, <2>4, <2>5 DEF Sane
  <2>7. CASE b[1].k # "upgrade"
    <3>1. j.due = <<Cell("http", 400)>> /\ Cell("http", 400) \in Cells
      BY <1>1, <1>8, <2>1, <2>2, <2>5, <2>7, OwedIs
    <3>2. Told(Writing(j, <<<<Cell("http", 400)>>>>, "done"))
      BY <2>5, <2>6, <3>1, LastStatus
    <3> QED BY <1>6, <1>8, <2>7, <3>2
  <2>8. CASE b[1].k = "upgrade"
    <3> DEFINE y == Cell("http", 101)
               l == Writing(j, <<<<y>>>>, "head")
    <3>1. j.due = Owed(s) /\ Owed(s) = Said(s, n) /\ y \in Cells
      BY <1>1, <1>8, <2>1, <2>2, <2>5, <2>8, OwedIs
    <3>2. Said(s, 0) = <<y>> /\ n \in Nat /\ 0 \in 0 .. n
      BY ScriptIs, SaidIs
    <3>3. Mid(j, s, 0)
      <4>1. j.msg_op = "none" /\ ~ Open(s.frames, 0 + 1)
        BY <1>1, <2>5, NoneOpen
      <4>2. Reassembles(j, s.frames, 0)
        BY <4>1 DEF Reassembles
      <4>3. \A z \in 1 .. 0 : ~ Ends(s.frames, z)
        OBVIOUS
      <4> QED BY <2>6, <3>1, <3>2, <4>2, <4>3 DEF Mid
    <3>4. After(j, w, Pos(s, 0))
      <4>1. b \o in = a \o (x \o in)
        <5>1. a \in Seq(Cells) /\ x \in Seq(Cells) /\ in \in Seq(Cells) /\ a \o x = b
          BY <1>1, <2>3
        <5> HIDE DEF a, x, in, b
        <5>2. (a \o x) \o in = a \o (x \o in)
          <6>1. a \in Seq(Cells) /\ x \in Seq(Cells) /\ in \in Seq(Cells)
            BY <5>1
          <6> QED BY <6>1, Assoc
        <5> QED BY <5>1, <5>2
      <4> DEFINE t == x \o in
      <4>2. t \in Seq(Cells) /\ Along(a \o t, e, w, 0)
        <5>1. x \in Seq(Cells) /\ in \in Seq(Cells)
          BY <1>1, <2>3
        <5> HIDE DEF x, in
        <5>2. x \o in \in Seq(Cells)
          BY <5>1, Cat
        <5> QED BY <1>3, <4>1, <5>2
      <4>3. j.carry \o j.in = t /\ Lossless(j) = e
        BY <2>5 DEF Lossless
      <4> HIDE DEF t, a, e, w
      <4>4. Along(t, e, w, 0 + Len(a))
        <5>1. a \in Seq(Cells) /\ w \in Seq(Cells) /\ t \in Seq(Cells)
          BY <1>2, <2>3, <4>2
        <5> QED BY <4>2, <5>1, AlongParts
      <4>5. 0 + Len(a) = Pos(s, 0)
        <5>1. Pos(s, 0) = Len(s.request)
          BY ScriptIs
        <5>2. Len(a) = Len(s.request) /\ Len(a) \in Nat
          BY <2>1, <2>3
        <5> QED BY <5>1, <5>2
      <4> QED BY <4>3, <4>4, <4>5 DEF After
    <3>5. /\ Kept(j, l) /\ l.pc = "tx" /\ l.buf = <<>> /\ l.next = "head"
          /\ Telling(l, <<y>>)
      BY <2>5, <2>6, <3>1, StatusIs
    <3> HIDE DEF l, y
    <3>6. Sane(l) /\ Len(l.buf) = 0 /\ Mid(l, s, 0) /\ At(l, w, Pos(s, 0))
      BY <2>6, <3>3, <3>4, <3>5, KeptIs
    <3>7. Serves(l, s, 0)
      BY <3>2, <3>5, <3>6 DEF Serves
    <3>8. Wants(l) = 0
      BY <3>5 DEF Wants
    <3>9. Told(l)
      BY <3>2, <3>6, <3>7, <3>8 DEF Told
    <3> QED BY <1>6, <1>8, <2>8, <3>9 DEF l, y
  <2> QED BY <2>7, <2>8
<1> QED BY <1>7, <1>8

-----------------------------------------------------------------------------
(* Reading *)

(* A connection at a field it reads asks, or serves.                        *)
LEMMA Reading ==
    ASSUME NEW k, Told(k), k.pc \in Reads
    PROVE  \E s \in Scripts :
              \/ k.pc = "request" /\ Asks(k, s)
              \/ \E i \in 0 .. Len(s.frames) :
                    /\ Mid(k, s, i) /\ k.out = Said(s, i)
                    /\ \/ k.pc = "head" /\ At(k, Wire(s), Pos(s, i))
                       \/ /\ k.pc \in {"ext", "mask", "payload"} /\ i < Len(s.frames)
                          /\ InFrame(k, s, i, s.frames[i + 1])
<1>1. k.pc # "none" /\ k.pc # "done" /\ k.pc # "tx" /\ k.pc # "start"
  BY DEF Reads
<1>2. PICK s \in Scripts : Asks(k, s) \/ \E i \in 0 .. Len(s.frames) : Serves(k, s, i)
  <2>1. ~ Over(k) /\ ~ Leaves(k)
    BY <1>1 DEF Over, Leaves
  <2> QED BY <2>1 DEF Told
<1>3. CASE Asks(k, s)
  <2>1. k.pc = "request"
    BY <1>1, <1>3 DEF Asks
  <2> QED BY <1>3, <2>1
<1>4. ASSUME NEW i \in 0 .. Len(s.frames), Serves(k, s, i)
      PROVE  /\ Mid(k, s, i) /\ k.out = Said(s, i)
             /\ \/ k.pc = "head" /\ At(k, Wire(s), Pos(s, i))
                \/ /\ k.pc \in {"ext", "mask", "payload"} /\ i < Len(s.frames)
                   /\ InFrame(k, s, i, s.frames[i + 1])
  <2>1. InFrame(k, s, i, s.frames[i + 1]) => k.pc \in {"ext", "mask", "payload"}
    BY DEF InFrame
  <2> QED BY <1>1, <1>4, <2>1 DEF Serves
<1> QED BY <1>2, <1>3, <1>4

(* A field that is whole, in whatever pieces it was read                    *)
LEMMA FieldTold ==
    ASSUME NEW k, k = [f \in Fields |-> k[f]], Told(k), k.pc \in Reads, ~ Starved(k)
    PROVE  /\ k.pc = "request" => Told(Handshake(k))
           /\ k.pc = "head" => Told(RecvHead(k))
           /\ k.pc = "ext" => Told(RecvExt(k))
           /\ k.pc = "mask" => Told(RecvMask(k))
           /\ k.pc = "payload" => Told(RecvPayload(k))
<1>1. Sane(k) /\ Len(k.buf) <= Wants(k)
  BY DEF Told
<1>2. PICK s \in Scripts :
         \/ k.pc = "request" /\ Asks(k, s)
         \/ \E i \in 0 .. Len(s.frames) :
               /\ Mid(k, s, i) /\ k.out = Said(s, i)
               /\ \/ k.pc = "head" /\ At(k, Wire(s), Pos(s, i))
                  \/ /\ k.pc \in {"ext", "mask", "payload"} /\ i < Len(s.frames)
                     /\ InFrame(k, s, i, s.frames[i + 1])
  BY Reading
<1>3. ~ (Len(k.buf) < Wants(k)) \/ (k.pc = "request" /\ HeaderEnd(k.buf) # 0)
  BY DEF Starved
<1> DEFINE l == Len(k.buf)
<1>4. l \in Nat
  <2>1. k.buf \in Seq(Cells)
    BY <1>1 DEF Sane
  <2> QED BY <2>1
<1>5. CASE k.pc = "request"
  <2>1. Asks(k, s)
    BY <1>2, <1>5
  <2>2. Wants(k) = MaxRequest - 1
    BY <1>5 DEF Wants
  <2>3. l <= MaxRequest - 1 /\ (HeaderEnd(k.buf) # 0 \/ ~ (l < MaxRequest - 1))
    BY <1>1, <1>3, <2>2
  <2>4. ~ (l < MaxRequest - 1) => l = MaxRequest - 1
    <3> HIDE DEF l
    <3> QED BY <1>4, <2>3, Constants
  <2>5. Told(Handshake(k))
    BY <1>1, <2>1, <2>3, <2>4, HandshakeTold
  <2> QED BY <1>5, <2>5
<1>6. CASE k.pc # "request"
  <2>1. PICK i \in 0 .. Len(s.frames) :
           /\ Mid(k, s, i) /\ k.out = Said(s, i)
           /\ \/ k.pc = "head" /\ At(k, Wire(s), Pos(s, i))
              \/ /\ k.pc \in {"ext", "mask", "payload"} /\ i < Len(s.frames)
                 /\ InFrame(k, s, i, s.frames[i + 1])
    BY <1>2, <1>6
  <2>2. l <= Wants(k) /\ ~ (l < Wants(k))
    BY <1>1, <1>3, <1>6
  <2>3. CASE k.pc = "head"
    <3>1. Wants(k) = 2
      BY <2>3 DEF Wants
    <3>2. l = 2
      <4> HIDE DEF l
      <4> QED BY <1>4, <2>2, <3>1
    <3>3. At(k, Wire(s), Pos(s, i))
      BY <2>1, <2>3
    <3>4. Told(RecvHead(k))
      BY <2>1, <3>2, <3>3, HeadTold
    <3> QED BY <2>3, <3>4
  <2>4. CASE k.pc # "head"
    <3>1. k.pc \in {"ext", "mask", "payload"} /\ i < Len(s.frames)
          /\ InFrame(k, s, i, s.frames[i + 1])
      BY <2>1, <2>4
    <3>2. i \in 0 .. Len(s.frames) - 1
      <4>1. Len(s.frames) \in Nat
        BY ScriptIs
      <4> QED BY <3>1, <4>1
    <3>3. k.pc \in {"ext", "mask"} => l = 1
      <4>1. k.pc \in {"ext", "mask"} => Wants(k) = 1
        BY DEF Wants
      <4> HIDE DEF l
      <4> QED BY <1>4, <2>2, <4>1
    <3>4. k.pc = "payload" => l = k.hdr.len
      <4>1. k.pc = "payload" => Wants(k) = k.hdr.len
        BY DEF Wants
      <4>2. k.pc = "payload" => k.hdr.len \in Nat
        <5>1. k.pc = "payload" => Knows(k, s.frames[i + 1])
          BY <3>1 DEF InFrame
        <5>2. s.frames[i + 1].len \in Nat
          BY <3>2, FrameIs
        <5> QED BY <5>1, <5>2 DEF Knows
      <4> DEFINE m == k.hdr.len
                 v == Wants(k)
      <4>3. k.pc = "payload" => v = m /\ m \in Nat /\ l <= v /\ ~ (l < v)
        BY <2>2, <4>1, <4>2
      <4> HIDE DEF l, m, v
      <4>4. k.pc = "payload" => l = m
        BY <1>4, <4>3
      <4> QED BY <4>4 DEF m
    <3>5. k.pc = "ext" => Told(RecvExt(k))
      BY <2>1, <3>1, <3>2, <3>3, ExtTold
    <3>6. k.pc = "mask" => Told(RecvMask(k))
      BY <2>1, <3>1, <3>2, <3>3, MaskTold
    <3>7. k.pc = "payload" => Told(RecvPayload(k))
      BY <2>1, <3>1, <3>2, <3>4, PayloadTold
    <3> QED BY <3>1, <3>5, <3>6, <3>7
  <2> QED BY <2>3, <2>4
<1> QED BY <1>5, <1>6

(* What moves from the stream to the buffer                                 *)
LEMMA Moves ==
    ASSUME NEW k, NEW j, Told(k), k.pc \in Reads, Sane(j), Len(j.buf) <= Wants(k),
           k.carry = <<>> => j.carry = <<>>,
           j.buf \o (j.carry \o j.in) = k.buf \o (k.carry \o k.in),
           j.pc = k.pc, j.peer = k.peer, j.cut = k.cut, j.hdr = k.hdr, j.key = k.key,
           j.msg = k.msg, j.msg_op = k.msg_op, j.out = k.out, j.due = k.due
    PROVE  Told(j)
<1>1. PICK s \in Scripts :
         \/ k.pc = "request" /\ Asks(k, s)
         \/ \E i \in 0 .. Len(s.frames) :
               /\ Mid(k, s, i) /\ k.out = Said(s, i)
               /\ \/ k.pc = "head" /\ At(k, Wire(s), Pos(s, i))
                  \/ /\ k.pc \in {"ext", "mask", "payload"} /\ i < Len(s.frames)
                     /\ InFrame(k, s, i, s.frames[i + 1])
  BY Reading
<1>2. \A w, p : At(k, w, p) => At(j, w, p)
  <2> DEFINE x == j.buf \o (j.carry \o j.in)
             y == k.buf \o (k.carry \o k.in)
  <2>1. x = y
    OBVIOUS
  <2>2. Lossless(j) = Lossless(k)
    BY DEF Lossless
  <2>3. \A w, p : At(k, w, p) <=> Along(y, Lossless(k), w, p)
    BY DEF At
  <2>4. \A w, p : At(j, w, p) <=> Along(x, Lossless(j), w, p)
    BY DEF At
  <2> HIDE DEF x, y
  <2> QED BY <2>1, <2>2, <2>3, <2>4
<1>3. Wants(j) = Wants(k)
  BY DEF Wants
<1>4. CASE k.pc = "request" /\ Asks(k, s)
  <2>1. Asks(j, s)
    BY <1>2, <1>4 DEF Asks
  <2> QED BY <1>3, <2>1 DEF Told
<1>5. ASSUME NEW i \in 0 .. Len(s.frames), Mid(k, s, i), k.out = Said(s, i),
             \/ k.pc = "head" /\ At(k, Wire(s), Pos(s, i))
             \/ /\ k.pc \in {"ext", "mask", "payload"} /\ i < Len(s.frames)
                /\ InFrame(k, s, i, s.frames[i + 1])
      PROVE  Told(j)
  <2>1. Mid(j, s, i)
    <3>1. Reassembles(j, s.frames, i)
      BY <1>5 DEF Mid, Reassembles
    <3> QED BY <1>5, <3>1 DEF Mid
  <2>2. InFrame(k, s, i, s.frames[i + 1]) => InFrame(j, s, i, s.frames[i + 1])
    BY <1>2 DEF InFrame, Knows
  <2>3. Serves(j, s, i)
    BY <1>2, <1>5, <2>1, <2>2 DEF Serves
  <2> QED BY <1>3, <2>3 DEF Told
<1> QED BY <1>1, <1>4, <1>5

(* What the client takes with it                                            *)
LEMMA Loses ==
    ASSUME NEW k, NEW j, Told(k), Sane(j), j.in = k.in \/ j.in = <<>>,
           Lossless(j) => Lossless(k) /\ j.in = k.in,
           j.pc = k.pc, j.hdr = k.hdr, j.key = k.key, j.buf = k.buf, j.carry = k.carry,
           j.msg = k.msg, j.msg_op = k.msg_op, j.out = k.out, j.due = k.due,
           j.tx = k.tx, j.next = k.next, j.heap = k.heap
    PROVE  Told(j)
<1>1. Sane(k) /\ Len(j.buf) <= Wants(k)
  BY DEF Told
<1>2. ASSUME NEW s \in Scripts, NEW p, At(k, Wire(s), p)
      PROVE  At(j, Wire(s), p)
  <2> DEFINE b == k.buf
             c == k.carry
             in == k.in
             w == Wire(s)
             e == Lossless(k)
  <2>1. b \in Seq(Cells) /\ c \in Seq(Cells) /\ in \in Seq(Cells)
    BY <1>1 DEF Sane
  <2>2. w \in Seq(Cells)
    BY ScriptIs
  <2>3. Along(b \o (c \o in), e, w, p)
    BY <1>2 DEF At
  <2>4. p \in Nat
    BY <2>3 DEF Along
  <2>5. CASE j.in = k.in
    <3>1. j.buf \o (j.carry \o j.in) = b \o (c \o in)
      BY <2>5
    <3> DEFINE x == b \o (c \o in)
    <3>2. Along(x, e, w, p) /\ j.buf \o (j.carry \o j.in) = x
      BY <2>3, <3>1
    <3> HIDE DEF x
    <3>3. Along(x, Lossless(j), w, p)
      BY <3>2 DEF Along
    <3> QED BY <3>2, <3>3 DEF At
  <2>6. CASE j.in # k.in
    <3>1. j.in = <<>> /\ ~ Lossless(j) /\ j.carry = c /\ j.buf = b
      BY <2>6
    <3> HIDE DEF b, c, in, w, e
    <3>2. b \o (c \o in) = (b \o c) \o in
      BY <2>1, Assoc
    <3>3. Along((b \o c) \o in, e, w, p)
      BY <2>3, <3>2
    <3> DEFINE x == b \o c
    <3>4. x \in Seq(Cells)
      BY <2>1, Cat
    <3>5. Along(x \o in, e, w, p)
      BY <3>3
    <3>6. c \o <<>> = c
      BY <2>1, ConcatEmptySeq
    <3>7. j.buf \o (j.carry \o j.in) = x
      BY <3>1, <3>6
    <3> HIDE DEF x
    <3>8. /\ Along(in, e, w, p + Len(x)) /\ p + Len(x) <= Len(w)
          /\ \A l \in 1 .. Len(x) : x[l] = w[p + l]
          /\ Along(x, FALSE, w, p)
      <4>1. w \in Seq(Cells) /\ x \in Seq(Cells) /\ in \in Seq(Cells)
        BY <2>1, <2>2, <3>4
      <4>2. p \in Nat /\ Along(x \o in, e, w, p)
        BY <2>4, <3>5
      <4> QED BY <4>1, <4>2, AlongParts
    <3>9. Along(x, Lossless(j), w, p)
      BY <3>1, <3>8 DEF Along
    <3>10. At(j, w, p)
      BY <3>7, <3>9 DEF At
    <3> QED BY <3>10 DEF w
  <2> QED BY <2>5, <2>6
<1>3. Wants(j) = Wants(k)
  BY DEF Wants
<1>4. CASE Over(k)
  <2>1. Over(j)
    BY <1>4 DEF Over
  <2> QED BY <1>1, <1>3, <2>1 DEF Told
<1>5. CASE Leaves(k)
  <2>1. Leaves(j)
    BY <1>5 DEF Leaves, Telling
  <2> QED BY <1>1, <1>3, <2>1 DEF Told
<1>6. ASSUME NEW s \in Scripts, Asks(k, s)
      PROVE  Told(j)
  <2>1. Asks(j, s)
    BY <1>2, <1>6 DEF Asks
  <2> QED BY <1>1, <1>3, <2>1 DEF Told
<1>7. ASSUME NEW s \in Scripts, NEW i \in 0 .. Len(s.frames), Serves(k, s, i)
      PROVE  Told(j)
  <2>1. Mid(j, s, i)
    <3>1. Mid(k, s, i)
      BY <1>7 DEF Serves
    <3>2. Reassembles(j, s.frames, i)
      BY <3>1 DEF Mid, Reassembles
    <3> QED BY <3>1, <3>2 DEF Mid
  <2>2. InFrame(k, s, i, s.frames[i + 1]) => InFrame(j, s, i, s.frames[i + 1])
    BY <1>2 DEF InFrame, Knows
  <2>3. Telling(k, Said(s, i)) => Telling(j, Said(s, i))
    BY DEF Telling
  <2>4. At(k, Wire(s), Pos(s, i)) => At(j, Wire(s), Pos(s, i))
    BY <1>2
  <2>5. Serves(j, s, i)
    BY <1>7, <2>1, <2>2, <2>3, <2>4 DEF Serves
  <2> QED BY <1>1, <1>3, <2>5 DEF Told
<1> QED BY <1>4, <1>5, <1>6, <1>7 DEF Told

(* How much is read at once is known, and there is room for it.             *)
LEMMA WantsIs ==
    ASSUME NEW k, Told(k)
    PROVE  /\ Wants(k) \in Nat
           /\ Wants(k) <= IF k.pc = "request" THEN MaxRequest - 1 ELSE MaxPayload
<1>1. CASE k.pc = "payload"
  <2>1. k.pc \in Reads
    BY <1>1 DEF Reads
  <2>2. PICK s \in Scripts : \E i \in 0 .. Len(s.frames) :
               i < Len(s.frames) /\ InFrame(k, s, i, s.frames[i + 1])
    BY <1>1, <2>1, Reading
  <2>3. PICK i \in 0 .. Len(s.frames) :
               i < Len(s.frames) /\ InFrame(k, s, i, s.frames[i + 1])
    BY <2>2
  <2>4. i \in 0 .. Len(s.frames) - 1
    <3>1. Len(s.frames) \in Nat
      BY ScriptIs
    <3> QED BY <2>3, <3>1
  <2>5. s.frames[i + 1].len \in Nat
    BY <2>4, FrameIs
  <2>6. Fits(s.frames[i + 1]) /\ Knows(k, s.frames[i + 1])
    BY <1>1, <2>3 DEF InFrame
  <2>7. k.hdr.len = s.frames[i + 1].len /\ ~ (s.frames[i + 1].len > MaxPayload)
    BY <2>6 DEF Fits, Knows
  <2>8. Wants(k) = s.frames[i + 1].len
    BY <1>1, <2>7 DEF Wants
  <2> DEFINE n == s.frames[i + 1].len
  <2>9. n \in Nat /\ ~ (n > MaxPayload) /\ Wants(k) = n
    BY <2>5, <2>7, <2>8
  <2> HIDE DEF n
  <2>10. n <= MaxPayload
    BY <2>9, Constants
  <2> QED BY <1>1, <2>9, <2>10
<1>2. CASE k.pc = "request"
  <2>1. Wants(k) = MaxRequest - 1
    BY <1>2 DEF Wants
  <2> QED BY <1>2, <2>1, Constants
<1>3. CASE k.pc # "payload" /\ k.pc # "request"
  <2>1. Wants(k) \in {0, 1, 2}
    BY <1>3 DEF Wants
  <2> QED BY <1>3, <2>1, Constants
<1> QED BY <1>1, <1>2, <1>3

(* The fields that a read leaves                                            *)
LEMMA TakesIs ==
    ASSUME NEW k, k = [f \in Fields |-> k[f]], NEW x, NEW y
    PROVE  /\ LET j == [k EXCEPT !.buf = x, !.carry = y] IN
              /\ j.buf = x /\ j.carry = y /\ j.in = k.in
              /\ j.pc = k.pc /\ j.peer = k.peer /\ j.cut = k.cut /\ j.hdr = k.hdr /\ j.key = k.key
              /\ j.msg = k.msg /\ j.msg_op = k.msg_op /\ j.out = k.out /\ j.due = k.due
           /\ LET j == [k EXCEPT !.buf = x, !.in = y] IN
              /\ j.buf = x /\ j.carry = k.carry /\ j.in = y
              /\ j.pc = k.pc /\ j.peer = k.peer /\ j.cut = k.cut /\ j.hdr = k.hdr /\ j.key = k.key
              /\ j.msg = k.msg /\ j.msg_op = k.msg_op /\ j.out = k.out /\ j.due = k.due
BY DEF Fields

(* What was carried is taken first ...                                      *)
LEMMA CarriedTold ==
    ASSUME NEW k, k = [f \in Fields |-> k[f]], Told(k), k.pc \in Reads, k.carry # <<>>,
           Len(k.buf) < Wants(k), NEW n, n = Min({Len(k.carry), Wants(k) - Len(k.buf)})
    PROVE  Told([k EXCEPT !.buf = k.buf \o Before(k.carry, n), !.carry = Behind(k.carry, n)])
<1> DEFINE b == k.buf
           c == k.carry
           in == k.in
           x == b \o Before(c, n)
           y == Behind(c, n)
           j == [k EXCEPT !.buf = x, !.carry = y]
           v == Wants(k)
           lb == Len(b)
           lc == Len(c)
<1>1. Sane(k) /\ v \in Nat /\ lb < v
  BY WantsIs DEF Told
<1>2. b \in Seq(Cells) /\ c \in Seq(Cells) /\ in \in Seq(Cells) /\ lc < MaxRequest
  BY <1>1 DEF Sane
<1>3. lb \in Nat /\ lc \in Nat
  BY <1>2
<1>4. n \in 0 .. lc /\ lb + n <= v
  <2> DEFINE r == v - lb
  <2>1. r \in Nat /\ n = Min({lc, r}) /\ lb + r = v
    <3> HIDE DEF lb, lc, v
    <3>1. r \in Nat /\ lb + r = v
      BY <1>1, <1>3
    <3> QED BY <3>1 DEF lb, lc, v
  <2> HIDE DEF lb, lc, v, r
  <2>2. n = IF lc <= r THEN lc ELSE r
    BY <1>3, <2>1, MinOf
  <2>3. n \in 0 .. lc /\ lb + n <= v
    BY <1>1, <1>3, <2>1, <2>2
  <2> QED BY <2>3
<1>5. x \in Seq(Cells) /\ Len(x) = lb + n /\ x \o y = b \o c
  <2>1. b \in Seq(Cells) /\ c \in Seq(Cells) /\ n \in 0 .. Len(c)
    BY <1>2, <1>4
  <2> HIDE DEF b, c
  <2> QED BY <2>1, Recut
<1>6. y \in Seq(Cells) /\ Len(y) = lc - n
  BY <1>2, <1>4, Cut
<1>7. x \o (y \o in) = b \o (c \o in)
  <2> HIDE DEF x, y, b, c, in
  <2>1. (x \o y) \o in = x \o (y \o in)
    <3>1. x \in Seq(Cells) /\ y \in Seq(Cells) /\ in \in Seq(Cells)
      BY <1>2, <1>5, <1>6
    <3> QED BY <3>1, Assoc
  <2>2. (b \o c) \o in = b \o (c \o in)
    BY <1>2, Assoc
  <2> DEFINE l == x \o (y \o in)
             r == b \o (c \o in)
             u == x \o y
             z == b \o c
  <2>3. u = z /\ u \o in = l /\ z \o in = r
    <3>1. u \o in = l
      BY <2>1
    <3>2. z \o in = r
      BY <2>2
    <3>3. u = z
      BY <1>5
    <3> HIDE DEF u, z, l, r
    <3> QED BY <3>1, <3>2, <3>3
  <2> HIDE DEF l, r, u, z
  <2>4. l = r
    BY <2>3
  <2> QED BY <2>4 DEF l, r
<1>8. Len(y) < MaxRequest
  <2> DEFINE ly == Len(y)
  <2>1. ly = lc - n
    BY <1>6
  <2> HIDE DEF lc, ly
  <2>2. ly < MaxRequest
    BY <1>2, <1>3, <1>4, <2>1, Constants
  <2> QED BY <2>2 DEF ly
<1>9. Len(x) <= v
  BY <1>4, <1>5
<1> HIDE DEF x, y
<1>10. /\ j.buf = x /\ j.carry = y /\ j.in = k.in
       /\ j.pc = k.pc /\ j.peer = k.peer /\ j.cut = k.cut /\ j.hdr = k.hdr /\ j.key = k.key
       /\ j.msg = k.msg /\ j.msg_op = k.msg_op /\ j.out = k.out /\ j.due = k.due
  BY TakesIs
<1> HIDE DEF j
<1>11. Sane(j)
  BY <1>1, <1>5, <1>6, <1>8, <1>10 DEF Sane
<1>12. Len(j.buf) <= Wants(k)
  BY <1>9, <1>10
<1>13. j.buf \o (j.carry \o j.in) = k.buf \o (k.carry \o k.in)
  BY <1>7, <1>10
<1>14. Told(j)
  BY <1>10, <1>11, <1>12, <1>13, Moves
<1> QED BY <1>14 DEF j, x, y

(* ... then what has come is read, as much of it as is given.               *)
LEMMA ReadTold ==
    ASSUME NEW k, k = [f \in Fields |-> k[f]], Told(k), k.pc \in Reads, k.carry = <<>>,
           Len(k.buf) < Wants(k), NEW n \in 1 .. Min({Len(k.in), Wants(k) - Len(k.buf)})
    PROVE  Told([k EXCEPT !.buf = k.buf \o Before(k.in, n), !.in = Behind(k.in, n)])
<1> DEFINE b == k.buf
           in == k.in
           x == b \o Before(in, n)
           y == Behind(in, n)
           j == [k EXCEPT !.buf = x, !.in = y]
           v == Wants(k)
           lb == Len(b)
           li == Len(in)
<1>1. Sane(k) /\ v \in Nat /\ lb < v
  BY WantsIs DEF Told
<1>2. b \in Seq(Cells) /\ in \in Seq(Cells)
  BY <1>1 DEF Sane
<1>3. lb \in Nat /\ li \in Nat
  BY <1>2
<1>4. n \in 0 .. li /\ lb + n <= v
  <2> DEFINE r == v - lb
             m == Min({li, r})
  <2>1. r \in Nat /\ n \in 1 .. m
    <3>1. n \in 1 .. m
      OBVIOUS
    <3> HIDE DEF lb, li, v, m
    <3>2. r \in Nat
      BY <1>1, <1>3
    <3> QED BY <3>1, <3>2
  <2> HIDE DEF lb, li, v, r
  <2>2. m = IF li <= r THEN li ELSE r
    BY <1>3, <2>1, MinOf
  <2> HIDE DEF m
  <2>3. n \in 0 .. li /\ n <= r
    BY <1>3, <2>1, <2>2
  <2> QED BY <1>1, <1>3, <2>1, <2>3 DEF r
<1>5. x \in Seq(Cells) /\ Len(x) = lb + n /\ x \o y = b \o in
  BY <1>2, <1>4, Recut
<1>6. y \in Seq(Cells)
  BY <1>2, <1>4, Cut
<1>9. Len(x) <= v
  BY <1>4, <1>5
<1> HIDE DEF x, y
<1>10. /\ j.buf = x /\ j.carry = k.carry /\ j.in = y
       /\ j.pc = k.pc /\ j.peer = k.peer /\ j.cut = k.cut /\ j.hdr = k.hdr /\ j.key = k.key
       /\ j.msg = k.msg /\ j.msg_op = k.msg_op /\ j.out = k.out /\ j.due = k.due
  BY TakesIs
<1> HIDE DEF j
<1>11. Sane(j)
  BY <1>1, <1>5, <1>6, <1>10 DEF Sane
<1>12. Len(j.buf) <= Wants(k)
  BY <1>9, <1>10
<1>13. j.buf \o (j.carry \o j.in) = k.buf \o (k.carry \o k.in)
  <2> HIDE DEF b, in
  <2>1. <<>> \o y = y /\ <<>> \o in = in
    BY <1>2, <1>6, ConcatEmptySeq
  <2>2. j.carry = <<>> /\ k.carry = <<>> /\ j.buf = x /\ j.in = y /\ k.buf = b /\ k.in = in
    BY <1>10 DEF b, in
  <2> QED BY <1>5, <2>1, <2>2
<1>14. j.carry = <<>>
  BY <1>10
<1>15. Told(j)
  BY <1>10, <1>11, <1>12, <1>13, <1>14, Moves
<1> QED BY <1>15 DEF j, x, y

(* When nothing is lost and nothing is left to read, what is in hand is     *)
(* what the client sent last.                                               *)
LEMMA NothingLeft ==
    ASSUME NEW k, Sane(k), Lossless(k), k.carry = <<>>, k.in = <<>>, NEW w \in Seq(Cells), NEW p,
           At(k, w, p)
    PROVE  /\ p \in Nat /\ p + Len(k.buf) = Len(w)
           /\ \A j \in 1 .. Len(k.buf) : k.buf[j] = w[p + j]
<1> DEFINE b == k.buf
           e == Lossless(k)
<1>1. b \in Seq(Cells)
  BY DEF Sane
<1>2. b \o <<>> = b /\ <<>> \o <<>> = <<>>
  BY <1>1, ConcatEmptySeq, EmptySeq
<1>3. Along(b \o (<<>> \o <<>>), e, w, p)
  BY DEF At
<1>4. Along(b, e, w, p) /\ e
  BY <1>2, <1>3
<1> HIDE DEF b, e
<1>5. p \in Nat /\ p + Len(b) = Len(w) /\ \A j \in 1 .. Len(b) : b[j] = w[p + j]
  BY <1>4 DEF Along
<1> QED BY <1>5 DEF b

(* What has been said is the beginning of what is owed.                     *)
LEMMA SaidSoFar ==
    ASSUME NEW k, NEW s \in Scripts, NEW i \in 0 .. Len(s.frames), Mid(k, s, i)
    PROVE  Said(s, i) \in Seq(Cells) /\ Begins(Cells, Said(s, i), k.due)
<1>1. Said(s, i) \in Seq(Cells) /\ Begins(Cells, Said(s, i), Said(s, Len(s.frames)))
  BY SaidIs
<1>2. k.due = Said(s, Len(s.frames))
  BY DEF Mid
<1> QED BY <1>1, <1>2

(* A sequence begins with nothing, with itself and with what it begins with. *)
LEMMA BeginsWith ==
    ASSUME NEW T, NEW x \in Seq(T)
    PROVE  /\ Begins(T, <<>>, x) /\ Begins(T, x, x)
           /\ \A n \in 0 .. Len(x) : \A y \in Seq(T) :
                 Begins(T, y \o Before(x, n), y \o x)
           /\ \A y \in Seq(T) : \A z : Begins(T, y, x) /\ Begins(T, x, z) => Begins(T, y, z)
<1>1. Begins(T, <<>>, x) /\ Begins(T, x, x)
  <2>1. <<>> \o x = x /\ x \o <<>> = x /\ <<>> \in Seq(T)
    BY ConcatEmptySeq, EmptySeq
  <2> QED BY <2>1 DEF Begins
<1>2. ASSUME NEW n \in 0 .. Len(x), NEW y \in Seq(T)
      PROVE  Begins(T, y \o Before(x, n), y \o x)
  <2> DEFINE a == y \o Before(x, n)
             u == Behind(x, n)
             z == y \o x
  <2>1. a \o u = z
    BY Recut
  <2>2. u \in Seq(T)
    BY Cut
  <2> HIDE DEF a, u, z
  <2>3. Begins(T, a, z)
    BY <2>1, <2>2 DEF Begins
  <2> QED BY <2>3 DEF a, z
<1>3. ASSUME NEW y \in Seq(T), NEW z, Begins(T, y, x), Begins(T, x, z)
      PROVE  Begins(T, y, z)
  <2>1. PICK u \in Seq(T) : x = y \o u
    BY <1>3 DEF Begins
  <2>2. PICK v \in Seq(T) : z = x \o v
    BY <1>3 DEF Begins
  <2>3. (y \o u) \o v = y \o (u \o v) /\ u \o v \in Seq(T)
    <3>1. (y \o u) \o v = y \o (u \o v)
      BY Assoc
    <3>2. u \o v \in Seq(T)
      BY Cat
    <3> QED BY <3>1, <3>2
  <2> DEFINE r == u \o v
  <2>4. z = y \o r /\ r \in Seq(T)
    BY <2>1, <2>2, <2>3
  <2> HIDE DEF r
  <2> QED BY <2>4 DEF Begins
<1> QED BY <1>1, <1>2, <1>3

(* The peer has closed and all it sent has been read, or it is lost.        *)
LEMMA EndsTold ==
    ASSUME NEW k, k = [f \in Fields |-> k[f]], Told(k), Starved(k), k.carry = <<>>, ReadOver(k)
    PROVE  Told(Goto(k, "done"))
<1> DEFINE j == Goto(k, "done")
           b == k.buf
           l == Len(b)
           v == Wants(k)
<1>1. /\ Sane(k) /\ k.pc \in Reads /\ l < v
      /\ k.pc = "request" => HeaderEnd(b) = 0
  BY DEF Told, Starved
<1>2. b \in Seq(Cells) /\ l \in Nat /\ v \in Nat /\ k.due \in Seq(Cells)
  <2>1. b \in Seq(Cells) /\ k.due \in Seq(Cells)
    BY <1>1 DEF Sane
  <2>2. l \in Nat
    BY <2>1
  <2> QED BY <2>1, <2>2, WantsIs
<1>3. Kept(k, j) /\ j.pc = "done" /\ j.buf = <<>>
  BY GotoIs
<1> HIDE DEF j
<1>4. Sane(j) /\ Len(j.buf) = 0
  BY <1>1, <1>3, KeptIs
<1>5. Wants(j) = 0
  BY <1>3 DEF Wants
<1>6. Lossless(k) => k.in = <<>>
  BY DEF ReadOver, Lossless
<1>7. PICK s \in Scripts :
         \/ k.pc = "request" /\ Asks(k, s)
         \/ \E i \in 0 .. Len(s.frames) :
               /\ Mid(k, s, i) /\ k.out = Said(s, i)
               /\ \/ k.pc = "head" /\ At(k, Wire(s), Pos(s, i))
                  \/ /\ k.pc \in {"ext", "mask", "payload"} /\ i < Len(s.frames)
                     /\ InFrame(k, s, i, s.frames[i + 1])
  BY <1>1, Reading
<1> DEFINE w == Wire(s)
           n == Len(s.frames)
           m == Len(w)
<1>8. w \in Seq(Cells) /\ m \in Nat /\ n \in Nat
  BY ScriptIs
<1>9. IsPrefix(k.out, k.due) /\ (Lossless(k) => k.out = k.due)
  <2>1. CASE k.pc = "request" /\ Asks(k, s)
    <3>1. k.out = <<>> /\ k.due = Owed(s) /\ At(k, w, 0)
      BY <2>1 DEF Asks
    <3>2. IsPrefix(k.out, k.due)
      <4>1. Begins(Cells, <<>>, k.due) /\ <<>> \in Seq(Cells)
        BY <1>2, BeginsWith, EmptySeq
      <4> QED BY <3>1, <4>1, PrefixIs
    <3>3. ASSUME Lossless(k)
          PROVE  k.out = k.due
      <4>1. /\ 0 + l = m /\ \A x \in 1 .. l : b[x] = w[0 + x]
        BY <1>1, <1>6, <1>8, <3>1, <3>3, NothingLeft
      <4>2. l = m
        <5> HIDE DEF l, m
        <5> QED BY <1>2, <4>1
      <4>3. v = MaxRequest - 1
        BY <2>1 DEF Wants
      <4>4. \A x \in 1 .. l : b[x] = w[x]
        <5> HIDE DEF l, b, w
        <5> QED BY <1>2, <4>1
      <4>5. l <= m /\ l <= MaxRequest - 1
        <5> HIDE DEF l, m, v
        <5> QED BY <1>1, <1>2, <4>2, <4>3, Constants
      <4>6. Ending(s) = HeaderEnd(b)
        BY <1>2, <4>2, <4>4, <4>5, EndingIs
      <4>7. Ending(s) = 0
        BY <1>1, <2>1, <4>6
      <4>8. m < MaxRequest - 1
        BY <1>1, <4>2, <4>3
      <4>9. Owed(s) = <<>>
        BY <4>7, <4>8, OwedIs
      <4> QED BY <3>1, <4>9
    <3> QED BY <3>2, <3>3
  <2>2. ASSUME NEW i \in 0 .. n, Mid(k, s, i), k.out = Said(s, i),
               \/ k.pc = "head" /\ At(k, w, Pos(s, i))
               \/ /\ k.pc \in {"ext", "mask", "payload"} /\ i < n
                  /\ InFrame(k, s, i, s.frames[i + 1])
        PROVE  IsPrefix(k.out, k.due) /\ (Lossless(k) => k.out = k.due)
    <3>1. IsPrefix(k.out, k.due)
      BY <2>2, SaidSoFar, PrefixIs
    <3>2. ASSUME Lossless(k), i < n
          PROVE  FALSE
      <4> DEFINE p == Pos(s, i)
                 f == s.frames[i + 1]
                 g == Len(FrameBytes(f))
                 z == HdrSize(f)
                 d == Len(f.data)
      <4>1. i \in 0 .. n - 1
        BY <1>8, <3>2
      <4>2. p \in Nat /\ g \in Nat /\ g >= 2 /\ p + g <= m /\ f \in Frames
            /\ z \in {2, 3} /\ (f.form # 7 <=> z = 3) /\ d \in Nat
            /\ (f.len <= MaxPayload => d = f.len) /\ f.len \in Nat
        <5>1. Pos(s, i + 1) <= m /\ Pos(s, i + 1) = p + g
          BY <4>1, ScriptIs
        <5> QED BY <4>1, <5>1, FrameIs
      <4>3. \A q : At(k, w, q) => q + l = m
        BY <1>1, <1>6, <1>8, <3>2, NothingLeft
      <4>4. CASE k.pc = "head"
        <5>1. v = 2
          BY <4>4 DEF Wants
        <5>2. p + l = m
          <6>1. At(k, w, p)
            BY <2>2, <4>4
          <6> QED BY <4>3, <6>1
        <5> HIDE DEF p, f, g, z, d, l, v, m, n
        <5> QED BY <1>1, <1>2, <1>8, <4>2, <5>1, <5>2
      <4>5. CASE k.pc = "ext"
        <5>1. v = 1
          BY <4>5 DEF Wants
        <5>2. (p + 2) + l = m /\ g >= 3
          <6>1. f.form # 7 /\ At(k, w, p + 2)
            BY <2>2, <4>5 DEF InFrame
          <6>2. g >= 3
            BY <4>2, <6>1, FrameBytesAre
          <6> QED BY <4>3, <6>1, <6>2
        <5> HIDE DEF p, f, g, z, d, l, v, m, n
        <5> QED BY <1>1, <1>2, <1>8, <4>2, <5>1, <5>2
      <4>6. CASE k.pc \in {"mask", "payload"}
        <5>1. Fits(f) /\ Knows(k, f)
          BY <2>2, <4>6 DEF InFrame
        <5>2. g = z + 1 + d
          <6>1. f.masked
            BY <5>1 DEF Fits, Legal
          <6> QED BY <4>2, <6>1, FrameBytesAre
        <5>3. d = f.len
          <6> DEFINE y == f.len
          <6>1. ~ (y > MaxPayload) /\ y \in Nat /\ (y <= MaxPayload => d = y)
            BY <4>2, <5>1 DEF Fits
          <6> HIDE DEF y, d
          <6>2. d = y
            BY <6>1, Constants
          <6> QED BY <6>2 DEF y
        <5>4. CASE k.pc = "mask"
          <6>1. v = 1
            BY <5>4 DEF Wants
          <6>2. (p + z) + l = m
            <7>1. At(k, w, p + z)
              BY <2>2, <5>4 DEF InFrame
            <7> QED BY <4>3, <7>1
          <6> HIDE DEF p, f, g, z, d, l, v, m, n
          <6> QED BY <1>1, <1>2, <1>8, <4>2, <5>2, <6>1, <6>2
        <5>5. CASE k.pc = "payload"
          <6>1. v = d
            <7>1. v = k.hdr.len
              BY <5>5 DEF Wants
            <7>2. k.hdr.len = f.len
              BY <5>1 DEF Knows
            <7> HIDE DEF v, d, f
            <7> QED BY <5>3, <7>1, <7>2
          <6>2. (p + z + 1) + l = m
            <7>1. At(k, w, p + z + 1)
              BY <2>2, <5>5 DEF InFrame
            <7> QED BY <4>3, <7>1
          <6>3. l < d /\ l \in Nat /\ d \in Nat /\ p \in Nat /\ z \in Nat /\ m \in Nat
            <7> HIDE DEF p, f, g, z, d, l, v, m, n
            <7> QED BY <1>1, <1>2, <1>8, <4>2, <6>1
          <6>4. p + (z + 1 + d) <= m
            <7> HIDE DEF p, f, g, z, d, l, v, m, n
            <7> QED BY <4>2, <5>2
          <6> HIDE DEF p, f, g, z, d, l, v, m, n, b, w
          <6> QED BY <6>2, <6>3, <6>4
        <5> QED BY <4>6, <5>4, <5>5
      <4> QED BY <2>2, <4>4, <4>5, <4>6
    <3>3. ASSUME ~ (i < n)
          PROVE  k.out = k.due
      <4>1. i = n
        BY <1>8, <3>3
      <4> QED BY <2>2, <4>1 DEF Mid
    <3> QED BY <3>1, <3>2, <3>3
  <2> QED BY <1>7, <2>1, <2>2
<1>10. Over(j)
  <2>1. Lossless(j) = Lossless(k)
    BY <1>3 DEF Kept, Lossless
  <2> QED BY <1>3, <1>9, <2>1 DEF Over, Kept
<1>11. Told(j)
  BY <1>4, <1>5, <1>10 DEF Told
<1> QED BY <1>11 DEF j

-----------------------------------------------------------------------------
(* Writing and starting *)

(* A write adds the first call's bytes to what was said; the others follow. *)
LEMMA SaysMore ==
    ASSUME NEW k, NEW said, k.out \in Seq(Cells), Telling(k, said)
    PROVE  /\ Head(k.tx) \in Seq(Cells) /\ k.out \o Head(k.tx) \in Seq(Cells)
           /\ Begins(Cells, k.out \o Head(k.tx), said)
           /\ \/ Len(k.tx) = 1 /\ k.out \o Head(k.tx) = said
              \/ /\ Len(k.tx) # 1
                 /\ \E b \in Seq(Cells) : /\ Tail(k.tx) = <<b>>
                                          /\ (k.out \o Head(k.tx)) \o b = said
<1> DEFINE o == k.out
           tx == k.tx
<1>1. PICK a \in Seq(Cells), b \in Seq(Cells) : \/ tx = <<a>> /\ o \o a = said
                                                \/ tx = <<a, b>> /\ (o \o a) \o b = said
  BY DEF Telling
<1> HIDE DEF o, tx
<1>2. tx = <<a>> \/ tx = <<a, b>>
  BY <1>1
<1>3. Head(tx) = a
  <2> HIDE DEF Cells
  <2>1. CASE tx = <<a>>
    BY <2>1
  <2>2. CASE tx = <<a, b>>
    BY <2>2
  <2> QED BY <1>2, <2>1, <2>2
<1>4. tx = <<a>> => Len(tx) = 1
  OBVIOUS
<1>5. tx = <<a, b>> => Len(tx) # 1 /\ Tail(tx) = <<b>>
  OBVIOUS
<1>6. o \in Seq(Cells)
  BY DEF o
<1> DEFINE x == o \o a
           y == x \o b
<1>7. x \in Seq(Cells)
  BY <1>6, Cat
<1>8. (tx = <<a>> /\ x = said) \/ (tx = <<a, b>> /\ y = said)
  BY <1>1
<1>9. Begins(Cells, x, x) /\ Begins(Cells, x, y)
  <2> HIDE DEF x
  <2>1. Begins(Cells, x, x)
    BY <1>7, BeginsWith
  <2>2. Begins(Cells, x, x \o b)
    BY DEF Begins
  <2> QED BY <2>1, <2>2
<1>10. o \o Head(tx) = x
  BY <1>3
<1> HIDE DEF x
<1>11. Begins(Cells, x, said)
  <2> HIDE DEF y
  <2> QED BY <1>8, <1>9
<1>12. \/ Len(tx) = 1 /\ x = said
       \/ Len(tx) # 1 /\ \E c \in Seq(Cells) : Tail(tx) = <<c>> /\ x \o c = said
  <2>1. CASE tx = <<a>> /\ x = said
    BY <1>4, <2>1
  <2>2. CASE tx = <<a, b>> /\ y = said
    <3>1. Tail(tx) = <<b>> /\ Len(tx) # 1
      BY <1>5, <2>2
    <3>2. x \o b = said
      BY <2>2
    <3> QED BY <3>1, <3>2
  <2> QED BY <1>8, <2>1, <2>2
<1>13. Head(tx) \in Seq(Cells)
  BY <1>3
<1> DEFINE h == o \o Head(tx)
<1>14. h = x
  BY <1>10
<1> HIDE DEF h
<1>15. /\ Head(tx) \in Seq(Cells) /\ h \in Seq(Cells) /\ Begins(Cells, h, said)
       /\ \/ Len(tx) = 1 /\ h = said
          \/ Len(tx) # 1 /\ \E c \in Seq(Cells) : Tail(tx) = <<c>> /\ h \o c = said
  BY <1>7, <1>11, <1>12, <1>13, <1>14
<1> QED BY <1>15 DEF h, o, tx

(* A connection that writes is leaving, or serves on.                       *)
LEMMA WritesIs ==
    ASSUME NEW k, Told(k), k.pc = "tx"
    PROVE  /\ Len(k.buf) = 0 /\ Sane(k)
           /\ \/ Leaves(k)
              \/ \E s \in Scripts : \E i \in 0 .. Len(s.frames) :
                    /\ Mid(k, s, i) /\ k.next = "head" /\ Telling(k, Said(s, i))
                    /\ At(k, Wire(s), Pos(s, i))
<1>1. ~ Over(k) /\ \A s : ~ Asks(k, s)
  BY DEF Over, Asks
<1>2. Leaves(k) \/ \E s \in Scripts : \E i \in 0 .. Len(s.frames) : Serves(k, s, i)
  BY <1>1 DEF Told
<1>3. ASSUME NEW s, NEW i, Serves(k, s, i)
      PROVE  /\ Mid(k, s, i) /\ k.next = "head" /\ Telling(k, Said(s, i))
             /\ At(k, Wire(s), Pos(s, i))
  <2>1. ~ InFrame(k, s, i, s.frames[i + 1])
    BY DEF InFrame
  <2> QED BY <1>3, <2>1 DEF Serves
<1>4. Len(k.buf) <= 0 /\ Sane(k)
  <2>1. Wants(k) = 0
    BY DEF Wants
  <2> QED BY <2>1 DEF Told
<1>5. Len(k.buf) = 0
  <2>1. k.buf \in Seq(Cells)
    BY <1>4 DEF Sane
  <2> DEFINE l == Len(k.buf)
  <2>2. l \in Nat /\ l <= 0
    BY <1>4, <2>1
  <2> HIDE DEF l
  <2>3. l = 0
    BY <2>2
  <2> QED BY <2>3 DEF l
<1> QED BY <1>2, <1>3, <1>4, <1>5

(* The fields that a write leaves                                           *)
LEMMA SpeaksIs ==
    ASSUME NEW k, k = [f \in Fields |-> k[f]], NEW x, NEW y, NEW stage
    PROVE  LET j == [k EXCEPT !.out = x, !.tx = y, !.pc = stage] IN
           /\ j.out = x /\ j.tx = y /\ j.pc = stage
           /\ j.buf = k.buf /\ j.carry = k.carry /\ j.in = k.in
           /\ j.peer = k.peer /\ j.cut = k.cut /\ j.due = k.due
           /\ j.msg = k.msg /\ j.msg_op = k.msg_op /\ j.next = k.next
BY DEF Fields

(* One call writes.                                                         *)
LEMMA WriteTold ==
    ASSUME NEW k, k = [f \in Fields |-> k[f]], Told(k), k.pc = "tx"
    PROVE  Told([k EXCEPT !.out = k.out \o Head(k.tx), !.tx = Tail(k.tx),
                          !.pc = IF Len(k.tx) = 1 THEN k.next ELSE "tx"])
<1> DEFINE x == k.out \o Head(k.tx)
           y == Tail(k.tx)
           stage == IF Len(k.tx) = 1 THEN k.next ELSE "tx"
           j == [k EXCEPT !.out = x, !.tx = y, !.pc = stage]
           one == Len(k.tx) = 1
<1>1. /\ Len(k.buf) = 0 /\ Sane(k)
      /\ \/ Leaves(k)
         \/ \E s \in Scripts : \E i \in 0 .. Len(s.frames) :
               /\ Mid(k, s, i) /\ k.next = "head" /\ Telling(k, Said(s, i))
               /\ At(k, Wire(s), Pos(s, i))
  BY WritesIs
<1>2. k.out \in Seq(Cells) /\ k.due \in Seq(Cells)
  BY <1>1 DEF Sane
<1>3. ASSUME NEW said, Telling(k, said)
      PROVE  /\ x \in Seq(Cells)
             /\ (one /\ x = said)
                \/ (~ one /\ \E b \in Seq(Cells) : y = <<b>> /\ x \o b = said)
  BY <1>2, <1>3, SaysMore
<1>4. stage = IF one THEN k.next ELSE "tx"
  OBVIOUS
<1> HIDE DEF x, y, stage, one
<1>5. /\ j.out = x /\ j.tx = y /\ j.pc = stage
      /\ j.buf = k.buf /\ j.carry = k.carry /\ j.in = k.in
      /\ j.peer = k.peer /\ j.cut = k.cut /\ j.due = k.due
      /\ j.msg = k.msg /\ j.msg_op = k.msg_op /\ j.next = k.next
  BY SpeaksIs
<1> HIDE DEF j
<1>6. x \in Seq(Cells) => Sane(j)
  BY <1>1, <1>5 DEF Sane
<1>7. \A w, p : At(k, w, p) => At(j, w, p)
  <2>1. j.buf = k.buf /\ j.carry = k.carry /\ j.in = k.in /\ Lossless(j) = Lossless(k)
    BY <1>5 DEF Lossless
  <2> QED BY <2>1 DEF At
<1>8. ASSUME NEW said, x \in Seq(Cells), ~ one,
             \E b \in Seq(Cells) : y = <<b>> /\ x \o b = said
      PROVE  Telling(j, said)
  <2>1. PICK b \in Seq(Cells) : y = <<b>> /\ x \o b = said
    BY <1>8
  <2>2. j.tx = <<b>> /\ j.out \o b = said
    BY <1>5, <2>1
  <2> QED BY <2>2 DEF Telling
<1>9. Len(j.buf) = 0
  BY <1>1, <1>5
<1>10. Len(j.buf) <= Wants(j) \/ j.pc \in {"payload", "request"}
  <2>1. j.pc \notin {"payload", "request"} => Wants(j) \in {0, 1, 2}
    BY DEF Wants
  <2> QED BY <1>9, <2>1
<1>11. CASE Leaves(k)
  <2>1. k.next = "done" /\ Telling(k, k.due)
    BY <1>11 DEF Leaves
  <2>2. x \in Seq(Cells) /\ Sane(j)
    BY <1>3, <1>6, <2>1
  <2>3. CASE one
    <3>1. x = k.due /\ j.pc = "done" /\ j.out = j.due
      BY <1>3, <1>4, <1>5, <2>1, <2>3
    <3>2. IsPrefix(j.out, j.due)
      <4>1. Begins(Cells, k.due, k.due)
        BY <1>2, BeginsWith
      <4>2. IsPrefix(k.due, k.due)
        BY <1>2, <4>1, PrefixIs
      <4> QED BY <1>5, <3>1, <4>2
    <3>3. Over(j)
      BY <3>1, <3>2 DEF Over
    <3>4. Len(j.buf) <= Wants(j)
      BY <1>10, <3>1
    <3> QED BY <2>2, <3>3, <3>4 DEF Told, j, x, y, stage
  <2>4. CASE ~ one
    <3>1. j.pc = "tx" /\ j.next = "done" /\ Telling(j, j.due)
      BY <1>3, <1>4, <1>5, <1>8, <2>1, <2>2, <2>4
    <3>2. Leaves(j)
      BY <3>1 DEF Leaves
    <3>3. Len(j.buf) <= Wants(j)
      BY <1>10, <3>1
    <3> QED BY <2>2, <3>2, <3>3 DEF Told, j, x, y, stage
  <2> QED BY <2>3, <2>4
<1>12. ASSUME NEW s \in Scripts, NEW i \in 0 .. Len(s.frames), Mid(k, s, i), k.next = "head",
              Telling(k, Said(s, i)), At(k, Wire(s), Pos(s, i))
       PROVE  Told(j)
  <2>2. x \in Seq(Cells) /\ Sane(j)
    BY <1>3, <1>6, <1>12
  <2>3. Mid(j, s, i)
    <3>1. Reassembles(j, s.frames, i)
      BY <1>5, <1>12 DEF Mid, Reassembles
    <3> QED BY <1>5, <1>12, <2>2, <3>1 DEF Mid
  <2>4. At(j, Wire(s), Pos(s, i))
    BY <1>7, <1>12
  <2>5. CASE one
    <3>1. j.pc = "head" /\ j.out = Said(s, i)
      BY <1>3, <1>4, <1>5, <1>12, <2>5
    <3>2. Serves(j, s, i)
      BY <2>3, <2>4, <3>1 DEF Serves
    <3>3. Len(j.buf) <= Wants(j)
      BY <1>10, <3>1
    <3> QED BY <2>2, <3>2, <3>3 DEF Told
  <2>6. CASE ~ one
    <3>1. j.pc = "tx" /\ j.next = "head" /\ Telling(j, Said(s, i))
      BY <1>3, <1>4, <1>5, <1>8, <1>12, <2>2, <2>6
    <3>2. Serves(j, s, i)
      BY <2>3, <2>4, <3>1 DEF Serves
    <3>3. Len(j.buf) <= Wants(j)
      BY <1>10, <3>1
    <3> QED BY <2>2, <3>2, <3>3 DEF Told
  <2> QED BY <2>5, <2>6
<1>13. Told(j)
  BY <1>1, <1>11, <1>12 DEF j, x, y, stage
<1> QED BY <1>13 DEF j, x, y, stage

(* The call fails after some bytes.                                         *)
LEMMA WriteFailsTold ==
    ASSUME NEW k, k = [f \in Fields |-> k[f]], Told(k), k.pc = "tx", k.peer = "reset",
           NEW n \in 0 .. Len(Head(k.tx)) - 1
    PROVE  Told([k EXCEPT !.out = k.out \o Before(Head(k.tx), n), !.tx = <<>>, !.pc = "done"])
<1> DEFINE a == Head(k.tx)
           o == k.out
           x == o \o Before(a, n)
           y == o \o a
           j == [k EXCEPT !.out = x, !.tx = <<>>, !.pc = "done"]
<1>1. /\ Len(k.buf) = 0 /\ Sane(k)
      /\ \/ Leaves(k)
         \/ \E s \in Scripts : \E i \in 0 .. Len(s.frames) :
               /\ Mid(k, s, i) /\ k.next = "head" /\ Telling(k, Said(s, i))
               /\ At(k, Wire(s), Pos(s, i))
  BY WritesIs
<1>2. o \in Seq(Cells) /\ k.due \in Seq(Cells)
  BY <1>1 DEF Sane
<1>3. \E said \in Seq(Cells) : Telling(k, said) /\ Begins(Cells, said, k.due)
  <2>1. CASE Leaves(k)
    <3>1. Telling(k, k.due) /\ Begins(Cells, k.due, k.due)
      BY <1>2, <2>1, BeginsWith DEF Leaves
    <3> QED BY <1>2, <3>1
  <2>2. CASE \E s \in Scripts : \E i \in 0 .. Len(s.frames) :
                Mid(k, s, i) /\ Telling(k, Said(s, i))
    BY <2>2, SaidSoFar
  <2> QED BY <1>1, <2>1, <2>2
<1>4. PICK said \in Seq(Cells) : Telling(k, said) /\ Begins(Cells, said, k.due)
  BY <1>3
<1>5. a \in Seq(Cells) /\ y \in Seq(Cells) /\ Begins(Cells, y, said)
  BY <1>2, <1>4, SaysMore
<1>6. n \in 0 .. Len(a)
  <2> DEFINE l == Len(a)
  <2>1. l \in Nat /\ n \in 0 .. l - 1
    BY <1>5
  <2> HIDE DEF l
  <2>2. n \in 0 .. l
    BY <2>1
  <2> QED BY <2>2 DEF l
<1>7. x \in Seq(Cells) /\ Begins(Cells, x, y)
  <2> HIDE DEF a, o
  <2>1. x \in Seq(Cells)
    BY <1>2, <1>5, <1>6, Recut
  <2>2. Begins(Cells, x, y)
    BY <1>2, <1>5, <1>6, BeginsWith
  <2> QED BY <2>1, <2>2
<1> HIDE DEF x, y
<1>8. Begins(Cells, x, k.due)
  <2>1. Begins(Cells, x, said)
    BY <1>4, <1>5, <1>7, BeginsWith
  <2> QED BY <1>4, <1>7, <2>1, BeginsWith
<1>9. IsPrefix(x, k.due)
  BY <1>7, <1>8, PrefixIs
<1> DEFINE e == <<>>
           d == "done"
           g == [k EXCEPT !.out = x, !.tx = e, !.pc = d]
<1>10. j = g
  OBVIOUS
<1>11. /\ g.out = x /\ g.pc = "done"
       /\ g.buf = k.buf /\ g.carry = k.carry /\ g.in = k.in
       /\ g.peer = k.peer /\ g.cut = k.cut /\ g.due = k.due
       /\ g.msg = k.msg /\ g.msg_op = k.msg_op
  BY SpeaksIs
<1> HIDE DEF g
<1>12. Sane(g)
  BY <1>1, <1>7, <1>11 DEF Sane
<1>13. Over(g)
  BY <1>9, <1>11 DEF Over, Lossless
<1>14. Len(g.buf) = 0 /\ Wants(g) = 0
  BY <1>1, <1>11 DEF Wants
<1>15. Told(g)
  BY <1>12, <1>13, <1>14 DEF Told
<1> QED BY <1>10, <1>15 DEF j, x

(* The fields that the start leaves                                         *)
LEMMA StartIs ==
    ASSUME NEW k, k = [f \in Fields |-> k[f]], NEW x, NEW y
    PROVE  LET j == [k EXCEPT !.heap = x, !.pc = y] IN
           /\ j.heap = x /\ j.pc = y /\ j.out = k.out
           /\ j.buf = k.buf /\ j.carry = k.carry /\ j.in = k.in
           /\ j.peer = k.peer /\ j.cut = k.cut /\ j.due = k.due
           /\ j.msg = k.msg /\ j.msg_op = k.msg_op
BY DEF Fields

(* It begins, with or without its buffers.                                  *)
LEMMA StartTold ==
    ASSUME NEW k, k = [f \in Fields |-> k[f]], Told(k), k.pc = "start", NEW got
    PROVE  Told([k EXCEPT !.heap = got, !.pc = IF got = Blocks THEN "request" ELSE "done"])
<1> DEFINE stage == IF got = Blocks THEN "request" ELSE "done"
           j == [k EXCEPT !.heap = got, !.pc = stage]
<1>1. Sane(k) /\ Len(k.buf) <= 0
  <2>1. Wants(k) = 0
    BY DEF Wants
  <2> QED BY <2>1 DEF Told
<1>2. PICK s \in Scripts : Asks(k, s)
  <2>1. ~ Over(k) /\ ~ Leaves(k)
    BY DEF Over, Leaves
  <2>2. \A s, i : ~ Serves(k, s, i)
    BY DEF Serves, InFrame
  <2> QED BY <2>1, <2>2 DEF Told
<1>3. (stage = "request" /\ got = Blocks) \/ (stage = "done" /\ got # Blocks)
  OBVIOUS
<1> HIDE DEF stage
<1>4. /\ j.heap = got /\ j.pc = stage /\ j.out = k.out
      /\ j.buf = k.buf /\ j.carry = k.carry /\ j.in = k.in
      /\ j.peer = k.peer /\ j.cut = k.cut /\ j.due = k.due
      /\ j.msg = k.msg /\ j.msg_op = k.msg_op
  BY StartIs
<1> HIDE DEF j
<1>5. Sane(j) /\ Len(j.buf) <= 0
  BY <1>1, <1>4 DEF Sane
<1>6. CASE stage = "request"
  <2>1. \A w, p : At(k, w, p) => At(j, w, p)
    <3>1. j.buf = k.buf /\ j.carry = k.carry /\ j.in = k.in /\ Lossless(j) = Lossless(k)
      BY <1>4 DEF Lossless
    <3> QED BY <3>1 DEF At
  <2>2. Asks(j, s)
    BY <1>2, <1>4, <1>6, <2>1 DEF Asks
  <2>3. Wants(j) = MaxRequest - 1
    BY <1>4, <1>6 DEF Wants
  <2>4. Len(j.buf) <= Wants(j)
    <3> DEFINE l == Len(j.buf)
    <3>1. l \in Nat /\ l <= 0
      <4>1. j.buf \in Seq(Cells)
        BY <1>5 DEF Sane
      <4> QED BY <1>5, <4>1
    <3> HIDE DEF l
    <3>2. l <= Wants(j)
      BY <2>3, <3>1, Constants
    <3> QED BY <3>2 DEF l
  <2>5. Told(j)
    BY <1>5, <2>2, <2>4 DEF Told
  <2> QED BY <2>5 DEF j, stage
<1>7. CASE stage = "done"
  <2>1. k.out = <<>> /\ k.due \in Seq(Cells)
    BY <1>1, <1>2 DEF Asks, Sane
  <2>2. IsPrefix(j.out, j.due)
    <3>1. Begins(Cells, <<>>, k.due) /\ <<>> \in Seq(Cells)
      BY <2>1, BeginsWith, EmptySeq
    <3>2. IsPrefix(<<>>, k.due)
      BY <3>1, PrefixIs
    <3> QED BY <1>4, <2>1, <3>2
  <2>3. Over(j)
    BY <1>3, <1>4, <1>7, <2>2 DEF Over
  <2>4. Wants(j) = 0
    BY <1>4, <1>7 DEF Wants
  <2>5. Told(j)
    BY <1>5, <2>3, <2>4 DEF Told
  <2> QED BY <2>5 DEF j, stage
<1> QED BY <1>3, <1>6, <1>7

-----------------------------------------------------------------------------
(* Every step *)

(* Every connection tells what it owes, at every point.                     *)
AllTold == \A c \in Conns : Told(conn[c])

(* Nobody has been told anything before a connection is there.              *)
LEMMA IdleTold ==
    /\ Told(Idle)
    /\ \A s \in Scripts :
          Told([Idle EXCEPT !.pc = "start", !.in = Wire(s), !.due = Owed(s)])
<1>1. <<>> \in Seq(Cells) /\ Len(<<>>) = 0
  BY EmptySeq
<1>2. Told(Idle)
  <2>1. /\ Idle.pc = "none" /\ Idle.buf = <<>> /\ Idle.carry = <<>> /\ Idle.in = <<>>
        /\ Idle.out = <<>> /\ Idle.due = <<>> /\ Idle.msg = <<>> /\ Idle.cut = FALSE
    BY DEF Idle
  <2>2. Sane(Idle)
    <3>1. Len(Idle.carry) < MaxRequest /\ Len(Idle.msg) <= MaxPayload
      <4>1. Len(Idle.carry) = 0 /\ Len(Idle.msg) = 0
        BY <1>1, <2>1
      <4>2. 0 < MaxRequest /\ 0 <= MaxPayload
        BY Constants
      <4> QED BY <4>1, <4>2
    <3>2. Idle.cut \in BOOLEAN /\ ~ Idle.cut
      BY <2>1
    <3>3. /\ Idle.buf \in Seq(Cells) /\ Idle.carry \in Seq(Cells) /\ Idle.in \in Seq(Cells)
          /\ Idle.out \in Seq(Cells) /\ Idle.due \in Seq(Cells) /\ Idle.msg \in Seq(Cells)
      BY <1>1, <2>1
    <3> QED BY <3>1, <3>2, <3>3 DEF Sane
  <2>3. Wants(Idle) = 0
    BY <2>1 DEF Wants
  <2>4. IsPrefix(<<>>, <<>>)
    <3>1. Begins(Cells, <<>>, <<>>)
      BY <1>1, BeginsWith
    <3> QED BY <1>1, <3>1, PrefixIs
  <2>5. Over(Idle)
    BY <2>1, <2>4 DEF Over
  <2> QED BY <1>1, <2>1, <2>2, <2>3, <2>5 DEF Told
<1>3. ASSUME NEW s \in Scripts
      PROVE  Told([Idle EXCEPT !.pc = "start", !.in = Wire(s), !.due = Owed(s)])
  <2> DEFINE w == Wire(s)
             o == Owed(s)
             j == [Idle EXCEPT !.pc = "start", !.in = w, !.due = o]
  <2>1. w \in Seq(Cells) /\ o \in Seq(Cells)
    BY ScriptIs, OwedIs
  <2> HIDE DEF w, o
  <2>2. /\ j.pc = "start" /\ j.buf = <<>> /\ j.carry = <<>> /\ j.in = w /\ j.peer = "up"
        /\ j.out = <<>> /\ j.due = o /\ j.msg = <<>> /\ j.msg_op = "none" /\ j.cut = FALSE
    BY DEF Idle
  <2> HIDE DEF j
  <2>3. Sane(j)
    <3>1. Len(j.carry) < MaxRequest /\ Len(j.msg) <= MaxPayload
      <4>1. Len(j.carry) = 0 /\ Len(j.msg) = 0
        BY <1>1, <2>2
      <4>2. 0 < MaxRequest /\ 0 <= MaxPayload
        BY Constants
      <4> QED BY <4>1, <4>2
    <3>2. j.cut \in BOOLEAN /\ ~ j.cut
      BY <2>2
    <3>3. /\ j.buf \in Seq(Cells) /\ j.carry \in Seq(Cells) /\ j.in \in Seq(Cells)
          /\ j.out \in Seq(Cells) /\ j.due \in Seq(Cells) /\ j.msg \in Seq(Cells)
      BY <1>1, <2>1, <2>2
    <3> QED BY <3>1, <3>2, <3>3 DEF Sane
  <2>4. Wants(j) = 0
    BY <2>2 DEF Wants
  <2>5. At(j, w, 0)
    <3>1. <<>> \o w = w
      BY <2>1, ConcatEmptySeq
    <3>2. j.buf \o (j.carry \o j.in) = w
      BY <2>2, <3>1
    <3>3. Along(w, Lossless(j), w, 0)
      <4> DEFINE n == Len(w)
      <4>1. n \in Nat /\ n = Len(w)
        BY <2>1
      <4> HIDE DEF n
      <4>2. 0 + n <= n /\ 0 + n = n /\ \A x \in 1 .. n : 0 + x = x
        BY <4>1
      <4>3. \A x \in 1 .. n : w[x] = w[0 + x]
        BY <4>2
      <4> QED BY <4>1, <4>2, <4>3 DEF Along
    <3> QED BY <3>2, <3>3 DEF At
  <2>6. Asks(j, s)
    BY <2>1, <2>2, <2>5 DEF Asks, w, o
  <2>7. Told(j)
    BY <1>1, <2>2, <2>3, <2>4, <2>6 DEF Told
  <2> QED BY <2>7 DEF j, w, o
<1> QED BY <1>2, <1>3

(* One connection changes, the others stay as they are.                     *)
LEMMA OneTold ==
    ASSUME IInv, AllTold, NEW c \in Conns, NEW k, Told(k), conn' = [conn EXCEPT ![c] = k]
    PROVE  AllTold'
<1>1. conn = [d \in Conns |-> conn[d]]
  BY DEF IInv
<1>2. \A d \in Conns : conn'[d] = IF d = c THEN k ELSE conn[d]
  BY <1>1
<1>3. \A d \in Conns : Told(conn'[d])
  BY <1>2 DEF AllTold
<1> QED BY <1>3 DEF AllTold

(* The fiber of a connection, from its start to its end                     *)
LEMMA ConnFiberTells ==
    ASSUME IInv, AllTold, NEW c \in Conns, ConnFiber(c)
    PROVE  AllTold'
<1> DEFINE k == conn[c]
<1>1. Shaped(k) /\ k = [f \in Fields |-> k[f]] /\ Told(k)
  BY DEF IInv, Shaped, AllTold
<1> HIDE DEF k
<1>2. ASSUME NEW j, Told(j), Become(c, j)
      PROVE  AllTold'
  BY <1>2, OneTold DEF Become
<1>3. CASE Start(c)
  <2>1. k.pc = "start"
    BY <1>3 DEF Start, k
  <2>2. PICK got :
          \/ conn' = [conn EXCEPT ![c] = Idle]
          \/ conn' = [conn EXCEPT ![c].heap = got,
                                  ![c].pc = IF got = Blocks THEN "request" ELSE "done"]
    BY <1>3 DEF Start
  <2>3. CASE conn' = [conn EXCEPT ![c] = Idle]
    BY <2>3, IdleTold, OneTold
  <2>4. CASE conn' = [conn EXCEPT ![c].heap = got,
                                  ![c].pc = IF got = Blocks THEN "request" ELSE "done"]
    <3> DEFINE stage == IF got = Blocks THEN "request" ELSE "done"
               j == [k EXCEPT !.heap = got, !.pc = stage]
    <3>1. Told(j)
      BY <1>1, <2>1, StartTold
    <3>2. conn' = [conn EXCEPT ![c] = j]
      <4>1. conn' = [conn EXCEPT ![c].heap = got, ![c].pc = stage]
        BY <2>4
      <4> HIDE DEF stage
      <4> QED BY <4>1 DEF IInv, k
    <3> QED BY <3>1, <3>2, OneTold
  <2> QED BY <2>2, <2>3, <2>4
<1>4. CASE Done(c)
  <2>1. conn' = [conn EXCEPT ![c] = [Idle EXCEPT !.heap = k.heap \ Blocks]]
    BY <1>4 DEF Done, Freed, k
  <2>2. k.heap \ Blocks = {}
    BY <1>1 DEF Shaped
  <2>3. [Idle EXCEPT !.heap = k.heap \ Blocks] = Idle
    <3>1. Idle.heap = {} /\ Idle = [f \in Fields |-> Idle[f]]
      BY DEF Idle, Fields
    <3>2. [Idle EXCEPT !.heap = {}] = [f \in Fields |-> IF f = "heap" THEN {} ELSE Idle[f]]
      BY <3>1 DEF Fields
    <3> QED BY <2>2, <3>1, <3>2
  <2>4. conn' = [conn EXCEPT ![c] = Idle]
    BY <2>1, <2>3
  <2> QED BY <2>4, IdleTold, OneTold
<1>5. ASSUME Starved(k)
      PROVE  k.pc \in Reads /\ Len(k.buf) < Wants(k)
  BY <1>5 DEF Starved
<1>6. CASE ReadCarried(c)
  <2> DEFINE n == Min({Len(k.carry), Wants(k) - Len(k.buf)})
             j == [k EXCEPT !.buf = k.buf \o Before(k.carry, n), !.carry = Behind(k.carry, n)]
  <2>1. Starved(k) /\ k.carry # <<>> /\ Become(c, j)
    BY <1>6 DEF ReadCarried, Before, Behind, k
  <2>2. Told(j)
    BY <1>1, <1>5, <2>1, CarriedTold
  <2> QED BY <1>2, <2>1, <2>2
<1>7. CASE Read(c)
  <2>1. Starved(k) /\ k.carry = <<>>
    BY <1>7 DEF Read, k
  <2>2. PICK n \in 1 .. Min({Len(k.in), Wants(k) - Len(k.buf)}) :
           Become(c, [k EXCEPT !.buf = k.buf \o Before(k.in, n), !.in = Behind(k.in, n)])
    BY <1>7 DEF Read, Before, Behind, k
  <2>3. Told([k EXCEPT !.buf = k.buf \o Before(k.in, n), !.in = Behind(k.in, n)])
    BY <1>1, <1>5, <2>1, ReadTold
  <2> QED BY <1>2, <2>2, <2>3
<1>8. CASE ReadEnds(c)
  <2>1. Starved(k) /\ k.carry = <<>> /\ ReadOver(k) /\ Become(c, Goto(k, "done"))
    BY <1>8 DEF ReadEnds, k
  <2>2. Told(Goto(k, "done"))
    BY <1>1, <2>1, EndsTold
  <2> QED BY <1>2, <2>1, <2>2
<1>9. CASE Write(c)
  <2> DEFINE j == [k EXCEPT !.out = k.out \o Head(k.tx), !.tx = Tail(k.tx),
                            !.pc = IF Len(k.tx) = 1 THEN k.next ELSE "tx"]
  <2>1. k.pc = "tx" /\ Become(c, j)
    BY <1>9 DEF Write, k
  <2>2. Told(j)
    BY <1>1, <2>1, WriteTold
  <2> QED BY <1>2, <2>1, <2>2
<1>10. CASE WriteFails(c)
  <2>1. k.pc = "tx" /\ k.peer = "reset"
    BY <1>10 DEF WriteFails, k
  <2>2. PICK n \in 0 .. Len(Head(k.tx)) - 1 :
           Become(c, [k EXCEPT !.out = k.out \o Before(Head(k.tx), n), !.tx = <<>>, !.pc = "done"])
    BY <1>10 DEF WriteFails, Before, k
  <2>3. Told([k EXCEPT !.out = k.out \o Before(Head(k.tx), n), !.tx = <<>>, !.pc = "done"])
    BY <1>1, <2>1, WriteFailsTold
  <2> QED BY <1>2, <2>2, <2>3
<1>11. ASSUME NEW stage \in Reads, Field(c, stage)
       PROVE  k.pc = stage /\ k.pc \in Reads /\ ~ Starved(k)
  BY <1>11 DEF Field, k
<1>12. "request" \in Reads /\ "head" \in Reads /\ "ext" \in Reads /\ "mask" \in Reads
       /\ "payload" \in Reads
  BY DEF Reads
<1>13. CASE HandleRequest(c)
  <2>1. Field(c, "request") /\ Become(c, Handshake(k))
    BY <1>13 DEF HandleRequest, k
  <2>2. Told(Handshake(k))
    BY <1>1, <1>11, <1>12, <2>1, FieldTold
  <2> QED BY <1>2, <2>1, <2>2
<1>14. CASE HandleHead(c)
  <2>1. Field(c, "head") /\ Become(c, RecvHead(k))
    BY <1>14 DEF HandleHead, k
  <2>2. Told(RecvHead(k))
    BY <1>1, <1>11, <1>12, <2>1, FieldTold
  <2> QED BY <1>2, <2>1, <2>2
<1>15. CASE HandleExt(c)
  <2>1. Field(c, "ext") /\ Become(c, RecvExt(k))
    BY <1>15 DEF HandleExt, k
  <2>2. Told(RecvExt(k))
    BY <1>1, <1>11, <1>12, <2>1, FieldTold
  <2> QED BY <1>2, <2>1, <2>2
<1>16. CASE HandleMask(c)
  <2>1. Field(c, "mask") /\ Become(c, RecvMask(k))
    BY <1>16 DEF HandleMask, k
  <2>2. Told(RecvMask(k))
    BY <1>1, <1>11, <1>12, <2>1, FieldTold
  <2> QED BY <1>2, <2>1, <2>2
<1>17. CASE HandlePayload(c)
  <2>1. Field(c, "payload") /\ Become(c, RecvPayload(k))
    BY <1>17 DEF HandlePayload, k
  <2>2. Told(RecvPayload(k))
    BY <1>1, <1>11, <1>12, <2>1, FieldTold
  <2> QED BY <1>2, <2>1, <2>2
<1> QED
  BY <1>3, <1>4, <1>6, <1>7, <1>8, <1>9, <1>10, <1>13, <1>14, <1>15, <1>16, <1>17
  DEF ConnFiber, Proceeds

(* The listener gives a connection its client, and touches it no more.      *)
LEMMA ListenerTells ==
    ASSUME IInv, AllTold, Serve \/ ServeFails \/ ListenFiber
    PROVE  AllTold'
<1>1. CASE UNCHANGED conn
  <2>1. \A c \in Conns : Told(conn'[c])
    BY <1>1 DEF AllTold
  <2> QED BY <2>1 DEF AllTold
<1>2. ASSUME NEW s \in Scripts, Spawn(s)
      PROVE  AllTold'
  <2> DEFINE j == [Idle EXCEPT !.pc = "start", !.in = Wire(s), !.due = Owed(s)]
  <2>1. lpc = "spawn" /\ conn' = [conn EXCEPT ![accepted] = j]
    BY <1>2 DEF Spawn
  <2>2. accepted \in Conns
    BY <2>1 DEF IInv, Handing
  <2>3. Told(j)
    BY IdleTold
  <2> HIDE DEF j
  <2> QED BY <2>1, <2>2, <2>3, OneTold
<1>3. CASE Serve \/ ServeFails \/ ListenStart \/ AcceptFails \/ SpawnFails \/ ListenClose
  BY <1>1, <1>3 DEF Serve, ServeFails, ListenStart, AcceptFails, SpawnFails, ListenClose
<1>4. CASE \E c \in Conns : Accept(c)
  BY <1>1, <1>4 DEF Accept
<1> QED BY <1>2, <1>3, <1>4 DEF ListenFiber

(* The fields that the client changes                                       *)
LEMMA LosesIs ==
    ASSUME NEW k, k = [f \in Fields |-> k[f]], NEW x, NEW y, NEW z
    PROVE  /\ LET j == [k EXCEPT !.peer = x, !.in = y, !.cut = z] IN
              /\ j.peer = x /\ j.in = y /\ j.cut = z
              /\ j.pc = k.pc /\ j.hdr = k.hdr /\ j.key = k.key /\ j.buf = k.buf
              /\ j.carry = k.carry /\ j.msg = k.msg /\ j.msg_op = k.msg_op /\ j.out = k.out
              /\ j.due = k.due /\ j.tx = k.tx /\ j.next = k.next /\ j.heap = k.heap
           /\ LET j == [k EXCEPT !.peer = x, !.in = y] IN
              /\ j.peer = x /\ j.in = y /\ j.cut = k.cut
              /\ j.pc = k.pc /\ j.hdr = k.hdr /\ j.key = k.key /\ j.buf = k.buf
              /\ j.carry = k.carry /\ j.msg = k.msg /\ j.msg_op = k.msg_op /\ j.out = k.out
              /\ j.due = k.due /\ j.tx = k.tx /\ j.next = k.next /\ j.heap = k.heap
BY DEF Fields

(* What the client did not send is not owed an answer.                      *)
LEMMA PeerTells ==
    ASSUME IInv, AllTold, NEW c \in Conns, PeerCloses(c) \/ PeerResets(c)
    PROVE  AllTold'
<1> DEFINE k == conn[c]
<1>1. k = [f \in Fields |-> k[f]] /\ Told(k)
  BY DEF IInv, Shaped, AllTold
<1> HIDE DEF k
<1>2. Sane(k) /\ <<>> \in Seq(Cells)
  BY <1>1, EmptySeq DEF Told
<1>3. ASSUME NEW j, Told(j), Become(c, j)
      PROVE  AllTold'
  BY <1>3, OneTold DEF Become
<1>4. CASE PeerCloses(c)
  <2>1. PICK rest \in {<<>>, k.in} :
           Become(c, [k EXCEPT !.peer = "eof", !.in = rest, !.cut = rest # k.in])
    BY <1>4 DEF PeerCloses, k
  <2> DEFINE less == rest # k.in
             eof == "eof"
             j == [k EXCEPT !.peer = eof, !.in = rest, !.cut = less]
  <2>2. k.peer = "up" /\ less \in BOOLEAN
    BY <1>4 DEF PeerCloses, k
  <2>3. ~ less => rest = k.in
    OBVIOUS
  <2>4. Become(c, j)
    BY <2>1
  <2> HIDE DEF less
  <2>5. /\ j.peer = eof /\ j.in = rest /\ j.cut = less
        /\ j.pc = k.pc /\ j.hdr = k.hdr /\ j.key = k.key /\ j.buf = k.buf
        /\ j.carry = k.carry /\ j.msg = k.msg /\ j.msg_op = k.msg_op /\ j.out = k.out
        /\ j.due = k.due /\ j.tx = k.tx /\ j.next = k.next /\ j.heap = k.heap
    <3> HIDE DEF eof
    <3> QED BY <1>1, LosesIs
  <2> HIDE DEF j
  <2>6. Sane(j)
    BY <1>2, <2>2, <2>5 DEF Sane
  <2>7. Lossless(j) => Lossless(k) /\ j.in = k.in
    BY <1>2, <2>2, <2>3, <2>5 DEF Lossless, Sane
  <2>8. Told(j)
    BY <1>1, <2>5, <2>6, <2>7, Loses
  <2> QED BY <1>3, <2>4, <2>8
<1>5. CASE PeerResets(c)
  <2> DEFINE reset == "reset"
             e == <<>>
             j == [k EXCEPT !.peer = reset, !.in = e]
  <2>1. Become(c, j)
    BY <1>5 DEF PeerResets, k
  <2>5. /\ j.peer = reset /\ j.in = e /\ j.cut = k.cut
        /\ j.pc = k.pc /\ j.hdr = k.hdr /\ j.key = k.key /\ j.buf = k.buf
        /\ j.carry = k.carry /\ j.msg = k.msg /\ j.msg_op = k.msg_op /\ j.out = k.out
        /\ j.due = k.due /\ j.tx = k.tx /\ j.next = k.next /\ j.heap = k.heap
    <3> HIDE DEF reset, e
    <3> QED BY <1>1, LosesIs
  <2> HIDE DEF j
  <2>6. Sane(j)
    BY <1>2, <2>5 DEF Sane
  <2>7. ~ Lossless(j)
    BY <2>5 DEF Lossless
  <2>8. Told(j)
    BY <1>1, <2>5, <2>6, <2>7, Loses
  <2> QED BY <1>3, <2>1, <2>8
<1> QED BY <1>4, <1>5

(* Where no connection is left, none is owed anything.                      *)
LEMMA KillTells ==
    ASSUME NEW c \in Conns, WriteKills(c)
    PROVE  AllTold'
<1>1. \A d \in Conns : conn'[d] = Idle
  BY DEF WriteKills
<1>2. \A d \in Conns : Told(conn'[d])
  BY <1>1, IdleTold
<1> QED BY <1>2 DEF AllTold

-----------------------------------------------------------------------------
(* What it comes to *)

(* A connection that tells what it owes answers all it has read whole ...   *)
LEMMA ToldEchoes == AllTold => EchoesTheStream
<1> SUFFICES ASSUME AllTold, NEW c \in Conns
             PROVE  LET k == conn[c]
                        settled == \/ k.pc = "done"
                                   \/ k.pc = "head" /\ k.buf = <<>> /\ k.carry = <<>> /\ k.in = <<>>
                    IN /\ IsPrefix(k.out, k.due)
                       /\ (settled /\ k.peer # "reset" /\ ~ k.cut /\ k.heap = Blocks) => k.out = k.due
  BY DEF EchoesTheStream
<1> DEFINE k == conn[c]
<1>1. Told(k)
  BY DEF AllTold
<1> HIDE DEF k
<1>2. Sane(k)
  BY <1>1 DEF Told
<1>3. k.out \in Seq(Cells) /\ k.due \in Seq(Cells)
  BY <1>2 DEF Sane
<1>4. IsPrefix(k.out, k.due)
  <2>1. CASE Over(k)
    BY <2>1 DEF Over
  <2>2. ASSUME NEW said \in Seq(Cells), Telling(k, said), Begins(Cells, said, k.due)
        PROVE  IsPrefix(k.out, k.due)
    <3> DEFINE a == Head(k.tx)
               o == k.out
               y == o \o a
    <3>1. a \in Seq(Cells) /\ y \in Seq(Cells) /\ Begins(Cells, y, said)
      BY <1>3, <2>2, SaysMore
    <3>2. Begins(Cells, o, y)
      <4>1. o \in Seq(Cells)
        BY <1>3
      <4> HIDE DEF o, a
      <4> QED BY <3>1 DEF Begins
    <3> HIDE DEF y
    <3>3. Begins(Cells, y, k.due)
      BY <2>2, <3>1, BeginsWith
    <3>4. Begins(Cells, o, k.due)
      BY <1>3, <3>1, <3>2, <3>3, BeginsWith
    <3> QED BY <1>3, <3>4, PrefixIs
  <2>3. CASE Leaves(k)
    <3>1. Telling(k, k.due) /\ Begins(Cells, k.due, k.due)
      BY <1>3, <2>3, BeginsWith DEF Leaves
    <3> QED BY <1>3, <2>2, <3>1
  <2>4. ASSUME NEW s \in Scripts, Asks(k, s)
        PROVE  IsPrefix(k.out, k.due)
    <3>1. k.out = <<>> /\ Begins(Cells, <<>>, k.due)
      BY <1>3, <2>4, BeginsWith DEF Asks
    <3> QED BY <1>3, <3>1, PrefixIs
  <2>5. ASSUME NEW s \in Scripts, NEW i \in 0 .. Len(s.frames), Serves(k, s, i)
        PROVE  IsPrefix(k.out, k.due)
    <3>1. Said(s, i) \in Seq(Cells) /\ Begins(Cells, Said(s, i), k.due)
      BY <2>5, SaidSoFar DEF Serves
    <3>2. k.out = Said(s, i) \/ Telling(k, Said(s, i))
      BY <2>5 DEF Serves
    <3>3. CASE k.out = Said(s, i)
      BY <3>1, <3>3, PrefixIs
    <3>4. CASE Telling(k, Said(s, i))
      BY <2>2, <3>1, <3>4
    <3> QED BY <3>2, <3>3, <3>4
  <2> QED BY <1>1, <2>1, <2>3, <2>4, <2>5 DEF Told
<1>5. ASSUME k.pc = "done", k.peer # "reset", ~ k.cut, k.heap = Blocks
      PROVE  k.out = k.due
  <2>1. ~ Leaves(k) /\ (\A s : ~ Asks(k, s)) /\ \A s, i : ~ Serves(k, s, i)
    BY <1>5 DEF Leaves, Asks, Serves, InFrame
  <2>2. Over(k)
    BY <1>1, <2>1 DEF Told
  <2> QED BY <1>5, <2>2 DEF Over, Lossless
<1>6. ASSUME k.pc = "head", k.buf = <<>>, k.carry = <<>>, k.in = <<>>, k.peer # "reset", ~ k.cut
      PROVE  k.out = k.due
  <2>1. k.pc \in Reads
    BY <1>6 DEF Reads
  <2>2. PICK s \in Scripts : \E i \in 0 .. Len(s.frames) :
               /\ Mid(k, s, i) /\ k.out = Said(s, i) /\ At(k, Wire(s), Pos(s, i))
    BY <1>1, <1>6, <2>1, Reading
  <2>3. PICK i \in 0 .. Len(s.frames) :
               /\ Mid(k, s, i) /\ k.out = Said(s, i) /\ At(k, Wire(s), Pos(s, i))
    BY <2>2
  <2> DEFINE p == Pos(s, i)
             m == Len(Wire(s))
             n == Len(s.frames)
             g == Len(FrameBytes(s.frames[i + 1]))
             l == Len(k.buf)
  <2>4. p + l = m
    <3>1. Lossless(k) /\ Wire(s) \in Seq(Cells)
      BY <1>6, ScriptIs DEF Lossless
    <3> QED BY <1>2, <1>6, <2>3, <3>1, NothingLeft
  <2>5. l = 0
    BY <1>6, EmptySeq
  <2>6. n \in Nat /\ m \in Nat /\ p \in Nat
    BY ScriptIs
  <2>7. ASSUME i < n
        PROVE  FALSE
    <3>1. i \in 0 .. n - 1
      BY <2>6, <2>7
    <3>2. g \in Nat /\ g >= 2 /\ Pos(s, i + 1) = p + g
      BY <3>1, FrameIs
    <3>3. Pos(s, i + 1) <= m
      BY <3>1, ScriptIs
    <3>4. p + g <= m
      BY <3>2, <3>3
    <3> HIDE DEF p, m, n, g, l
    <3> QED BY <2>4, <2>5, <2>6, <3>2, <3>4
  <2>8. i = n
    BY <2>6, <2>7
  <2> QED BY <2>3, <2>8 DEF Mid
<1> QED BY <1>4, <1>5, <1>6 DEF k

(* ... and has room for what it reads.                                      *)
LEMMA ToldHolds == AllTold => BuffersHold
<1> SUFFICES ASSUME AllTold, NEW c \in Conns
             PROVE  LET k == conn[c] IN
                    /\ Len(k.buf) <= IF k.pc = "request" THEN MaxRequest - 1 ELSE MaxPayload
                    /\ Len(k.carry) < MaxRequest
                    /\ Len(k.msg) <= MaxPayload
  BY DEF BuffersHold
<1> DEFINE k == conn[c]
<1>1. Told(k)
  BY DEF AllTold
<1> HIDE DEF k
<1>2. Sane(k) /\ Len(k.buf) <= Wants(k)
  BY <1>1 DEF Told
<1> DEFINE room == IF k.pc = "request" THEN MaxRequest - 1 ELSE MaxPayload
           v == Wants(k)
           l == Len(k.buf)
<1>3. v \in Nat /\ v <= room
  BY <1>1, WantsIs
<1>4. l \in Nat /\ l <= v
  <2>1. k.buf \in Seq(Cells)
    BY <1>2 DEF Sane
  <2> QED BY <1>2, <2>1
<1>5. room \in Int
  BY Constants
<1>6. l <= room
  <2> HIDE DEF l, v, room
  <2> QED BY <1>3, <1>4, <1>5
<1>7. Len(k.carry) < MaxRequest /\ Len(k.msg) <= MaxPayload
  BY <1>2 DEF Sane
<1> QED BY <1>6, <1>7 DEF k

(* This is the invariant of the echo.                                       *)
LEMMA AllAreTold == Spec => []AllTold
<1>1. Init => AllTold
  <2> SUFFICES ASSUME Init PROVE \A c \in Conns : Told(conn[c])
    BY DEF AllTold
  <2>1. \A c \in Conns : conn[c] = Idle
    BY DEF Init
  <2> QED BY <2>1, IdleTold
<1>2. IInv /\ AllTold /\ [Next]_vars => AllTold'
  <2> SUFFICES ASSUME IInv, AllTold, [Next]_vars PROVE AllTold'
    OBVIOUS
  <2>1. CASE UNCHANGED vars
    <3>1. \A c \in Conns : Told(conn'[c])
      BY <2>1 DEF vars, AllTold
    <3> QED BY <3>1 DEF AllTold
  <2>2. CASE Next
    BY <2>2, ListenerTells, ConnFiberTells, PeerTells, KillTells DEF Next
  <2> QED BY <2>1, <2>2
<1> QED BY <1>1, <1>2, IInvHolds, PTL DEF Spec

(* However the stream is cut into segments and wherever frames begin, the   *)
(* server writes what the client is owed, in order and nothing else, and    *)
(* leaves nothing that it has read whole unanswered (recv_frame,            *)
(* on_data_frame, do_handshake, conn_fiber).                                *)
THEOREM EchoIsOwed == Spec => []EchoesTheStream
BY AllAreTold, ToldEchoes, PTL

(* No buffer of a connection is written past its end, whatever the client   *)
(* sends and however it is read (conn_read_exact, on_data_frame).           *)
THEOREM BuffersAreKept == Spec => []BuffersHold
BY AllAreTold, ToldHolds, PTL
=============================================================================
