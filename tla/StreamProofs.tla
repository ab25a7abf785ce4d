--------------------------- MODULE StreamProofs ---------------------------
(***************************************************************************)
(* Proofs about AgentStream, for any replicas, tasks, scripts, connections, *)
(* floors, channel capacity and bounds on the faults.                       *)
(***************************************************************************)
EXTENDS AgentStream, EmitterProofs, FiniteSetTheorems

(* How many elements of S have a smaller key than e. *)
RankBy(S, key, e) == Cardinality({f \in S : key[f] < key[e]})

(***************************************************************************)
(* The ranks of the elements of a finite set by a key that tells them apart *)
(* are 0, 1, ... up to its size.                                            *)
(***************************************************************************)
LEMMA RankIsHit ==
    ASSUME NEW S, IsFiniteSet(S), NEW key \in [S -> Nat],
           \A e, f \in S : key[e] = key[f] => e = f,
           NEW k \in 0..(Cardinality(S) - 1)
    PROVE  \E e \in S : RankBy(S, key, e) = k
<1>. DEFINE Before(e) == {f \in S : key[f] < key[e]}
            rank == [e \in S |-> Cardinality(Before(e))]
            n == Cardinality(S)
            T == 0..(n - 1)
<1>1. n \in Nat
  BY FS_CardinalityType
<1>2. \A e \in S : IsFiniteSet(Before(e)) /\ Cardinality(Before(e)) \in Nat
  BY FS_Subset, FS_CardinalityType
<1>3. ASSUME NEW e \in S PROVE rank[e] \in T
  <2>1. e \notin Before(e) /\ Before(e) \in SUBSET S
    OBVIOUS
  <2>2. Cardinality(Before(e)) <= n /\ Cardinality(Before(e)) # n
    BY <2>1, FS_Subset
  <2>. QED BY <1>1, <1>2, <2>2
<1>4. ASSUME NEW e \in S, NEW f \in S, key[e] < key[f] PROVE rank[e] < rank[f]
  <2>1. Before(e) \in SUBSET Before(f)
    <3>1. key[e] \in Nat /\ key[f] \in Nat /\ \A x \in S : key[x] \in Nat
      OBVIOUS
    <3>. QED BY <1>4, <3>1
  <2>2. e \in Before(f) /\ e \notin Before(e)
    BY <1>4
  <2>3. Cardinality(Before(e)) <= Cardinality(Before(f)) /\ Cardinality(Before(e)) # Cardinality(Before(f))
    BY <1>2, <2>1, <2>2, FS_Subset
  <2>4. rank[e] = Cardinality(Before(e)) /\ rank[f] = Cardinality(Before(f))
    OBVIOUS
  <2>. HIDE DEF Before, rank
  <2>. QED BY <1>2, <2>3, <2>4
<1>5. rank \in [S -> T]
  BY <1>3
<1>6. \A e, f \in S : e # f => rank[e] # rank[f]
  <2>. SUFFICES ASSUME NEW e \in S, NEW f \in S, e # f PROVE rank[e] # rank[f]
    OBVIOUS
  <2>1. key[e] < key[f] \/ key[f] < key[e]
    OBVIOUS
  <2>2. rank[e] \in Nat /\ rank[f] \in Nat
    BY <1>2
  <2>. QED BY <1>4, <2>1, <2>2
<1>7. rank \in Injection(S, T)
  BY <1>5, <1>6 DEF Injection, IsInjective
<1>8. IsFiniteSet(T) /\ Cardinality(T) = n
  <2>1. 0 \in Int /\ n - 1 \in Int BY <1>1
  <2>. HIDE DEF n
  <2>2. IsFiniteSet(0..(n-1)) /\ Cardinality(0..(n-1)) = IF 0 > n - 1 THEN 0 ELSE n - 1 - 0 + 1
    BY <2>1, FS_Interval
  <2>. QED BY <1>1, <2>2
<1>9. rank \in Surjection(S, T)
  BY <1>7, <1>8, FS_Injection
<1>10. \E e \in S : rank[e] = k
  BY <1>9 DEF Surjection
<1>. QED BY <1>10 DEF RankBy

(* A sequence of events in the order of their seqs. *)
Ascends(evs) == \A i, j \in 1..Len(evs) : i < j => evs[i].seq < evs[j].seq

(***************************************************************************)
(* Store::replay returns the events from the floor up, each once, in order  *)
(* of seq, provided that seqs are unique.                                   *)
(***************************************************************************)
LEMMA ReplayIsOrdered ==
    ASSUME NEW events, events \subseteq Event, IsFiniteSet(events), NEW from \in Nat,
           \A e, f \in events : e.seq = f.seq => e = f
    PROVE  LET R == Replay(events, from) IN
           /\ R \in Seq(Event)
           /\ Ascends(R)
           /\ \A i \in 1..Len(R) : R[i] \in events /\ R[i].seq >= from
           /\ \A e \in events : e.seq >= from => \E i \in 1..Len(R) : R[i] = e
<1>. DEFINE S == {e \in events : e.seq >= from}
            n == Cardinality(S)
            Before(e) == {f \in S : f.seq < e.seq}
            Rank(e) == Cardinality(Before(e))
            R == [i \in 1..n |-> CHOOSE e \in S : Rank(e) = i - 1]
            key == [e \in S |-> e.seq]
<1>1. R = Replay(events, from)
  BY DEF Replay
<1>2. S \subseteq Event /\ S \subseteq events /\ IsFiniteSet(S)
  BY FS_Subset
<1>3. n \in Nat
  BY <1>2, FS_CardinalityType
<1>4. key \in [S -> Nat]
  BY <1>2 DEF Event
<1>5. \A e, f \in S : key[e] = key[f] => e = f
  OBVIOUS
<1>6. ASSUME NEW k \in 0..(n - 1) PROVE \E e \in S : Rank(e) = k
  <2>1. PICK e \in S : RankBy(S, key, e) = k
    <3>1. IsFiniteSet(S) BY <1>2
    <3>2. k \in 0..(Cardinality(S) - 1) OBVIOUS
    <3>. HIDE DEF S, key
    <3>. QED BY <3>1, <3>2, <1>4, <1>5, RankIsHit
  <2>2. {f \in S : key[f] < key[e]} = Before(e)
    OBVIOUS
  <2>. QED BY <2>1, <2>2 DEF RankBy
<1>7. ASSUME NEW i \in 1..n PROVE R[i] \in S /\ Rank(R[i]) = i - 1
  <2>1. i - 1 \in 0..(n - 1)
    BY <1>3
  <2>2. \E e \in S : Rank(e) = i - 1
    BY <1>6, <2>1
  <2>3. R[i] = CHOOSE e \in S : Rank(e) = i - 1
    OBVIOUS
  <2>. HIDE DEF S, Rank, R
  <2>. QED BY <2>2, <2>3
<1>8. ASSUME NEW e \in S, NEW f \in S, e.seq <= f.seq PROVE Rank(e) <= Rank(f)
  <2>1. \A x \in S : x.seq \in Nat
    BY <1>2 DEF Event
  <2>2. Before(e) \in SUBSET Before(f)
    BY <1>8, <2>1
  <2>3. IsFiniteSet(Before(f))
    BY <1>2, FS_Subset
  <2>. QED BY <2>2, <2>3, FS_Subset
<1>9. \A e \in S : Rank(e) \in 0..(n - 1)
  <2>. SUFFICES ASSUME NEW e \in S PROVE Rank(e) \in 0..(n - 1)
    OBVIOUS
  <2>1. Before(e) \in SUBSET S /\ e \notin Before(e)
    BY <1>2 DEF Event
  <2>2. IsFiniteSet(Before(e)) /\ Cardinality(Before(e)) <= n /\ Cardinality(Before(e)) # n
    BY <1>2, <2>1, FS_Subset
  <2>3. Cardinality(Before(e)) \in Nat
    BY <2>2, FS_CardinalityType
  <2>. HIDE DEF Before, n
  <2>. QED BY <1>3, <2>2, <2>3
<1>10. DOMAIN R = 1..n /\ Len(R) = n /\ R \in Seq(Event)
  <2>1. DOMAIN R = 1..n OBVIOUS
  <2>2. \A i \in 1..n : R[i] \in Event BY <1>2, <1>7
  <2>. HIDE DEF n, S, Rank
  <2>4. R \in [1..n -> Event] BY <2>2
  <2>. QED BY <1>3, <2>1, <2>4
<1>11. \A e \in S : e.seq \in Nat
  BY <1>2 DEF Event
<1>12. ASSUME NEW i \in 1..n, NEW j \in 1..n, i < j PROVE R[i].seq < R[j].seq
  <2>1. R[i].seq \in Nat /\ R[j].seq \in Nat /\ R[i] \in S /\ R[j] \in S
    BY <1>7, <1>11
  <2>2. Rank(R[i]) = i - 1 /\ Rank(R[j]) = j - 1
    BY <1>7
  <2>3. ~ (R[j].seq <= R[i].seq)
    <3>1. i \in Nat /\ j \in Nat BY <1>3
    <3>. HIDE DEF R, Rank, S
    <3>2. R[j].seq <= R[i].seq => Rank(R[j]) <= Rank(R[i])
      BY <1>8, <2>1
    <3>. QED BY <1>12, <2>2, <3>1, <3>2
  <2>. QED BY <2>1, <2>3
<1>13. ASSUME NEW e \in S PROVE \E i \in 1..n : R[i] = e
  <2>1. Rank(e) + 1 \in 1..n
    <3>1. Rank(e) \in 0..(n - 1) BY <1>9
    <3>. HIDE DEF Rank, n
    <3>. QED BY <1>3, <3>1
  <2>. DEFINE f == R[Rank(e) + 1]
  <2>2. f \in S /\ Rank(f) = Rank(e)
    <3>1. Rank(e) \in 0..(n - 1) BY <1>9
    <3>2. f \in S /\ Rank(f) = (Rank(e) + 1) - 1 BY <1>7, <2>1
    <3>. HIDE DEF Rank, n, f
    <3>. QED BY <1>3, <3>1, <3>2
  <2>3. ASSUME NEW x \in S, NEW y \in S, x.seq < y.seq PROVE Rank(x) # Rank(y)
    <3>1. x \in Before(y) /\ x \notin Before(x) /\ Before(x) \in SUBSET Before(y)
      BY <1>11, <2>3
    <3>2. IsFiniteSet(Before(y))
      BY <1>2, FS_Subset
    <3>3. Before(x) # Before(y)
      BY <3>1
    <3>. HIDE DEF Before
    <3>. QED BY <3>1, <3>2, <3>3, FS_Subset
  <2>4. e.seq \in Nat /\ f.seq \in Nat
    BY <1>11, <2>2
  <2>. HIDE DEF f, Rank
  <2>5. e.seq = f.seq
    BY <2>2, <2>3, <2>4
  <2>6. e = f
    BY <2>2, <2>5
  <2>. QED BY <2>1, <2>6 DEF f
<1>14. \A e \in events : e.seq >= from => e \in S
  OBVIOUS
<1>15. \A e \in S : e \in events /\ e.seq >= from
  OBVIOUS
<1>. HIDE DEF S, R, n, Rank
<1>. QED BY <1>1, <1>7, <1>10, <1>12, <1>13, <1>14, <1>15 DEF Ascends

(***************************************************************************)
(* A non-empty finite set of numbers has a least element, which Min is.     *)
(***************************************************************************)
LEMMA MinIsMin ==
    ASSUME NEW S \in SUBSET Nat, IsFiniteSet(S), S # {}
    PROVE  Min(S) \in S /\ \A x \in S : Min(S) <= x
<1>. DEFINE key == [x \in S |-> x]
<1>1. key \in [S -> Nat] /\ \A x, y \in S : key[x] = key[y] => x = y
  OBVIOUS
<1>2. 0 \in 0..(Cardinality(S) - 1)
  <2>1. Cardinality(S) \in Nat /\ Cardinality(S) # 0
    BY FS_CardinalityType, FS_EmptySet
  <2>. QED BY <2>1
<1>3. PICK m \in S : RankBy(S, key, m) = 0
  <2>. HIDE DEF key
  <2>. QED BY <1>1, <1>2, RankIsHit
<1>4. {x \in S : x < m} = {}
  <2>1. {x \in S : key[x] < key[m]} = {x \in S : x < m}
    OBVIOUS
  <2>2. IsFiniteSet({x \in S : x < m})
    BY FS_Subset
  <2>. QED BY <1>3, <2>1, <2>2, FS_EmptySet DEF RankBy
<1>5. \A x \in S : m <= x
  <2>. SUFFICES ASSUME NEW x \in S PROVE m <= x
    OBVIOUS
  <2>1. ~ (x < m)
    BY <1>4
  <2>2. m \in Nat /\ x \in Nat
    OBVIOUS
  <2>. QED BY <2>1, <2>2
<1>6. Min(S) = CHOOSE x \in S : \A y \in S : x <= y
  BY DEF Min
<1>. QED BY <1>5, <1>6

(* No event of the sequence is terminal. *)
Clean(evs) == \A i \in 1..Len(evs) : ~ IsTerminal(evs[i])

(***************************************************************************)
(* What is forwarded of a history is a prefix of it that ends with the      *)
(* terminal event, or all of it if there is none.                           *)
(***************************************************************************)
LEMMA CutAtTerminal ==
    ASSUME NEW evs \in Seq(Event)
    PROVE  LET U == UpToTerminal(evs) IN
           /\ U \in Seq(Event) /\ Len(U) <= Len(evs)
           /\ \A i \in 1..Len(U) : U[i] = evs[i]
           /\ \A i \in 1..Len(U) : IsTerminal(U[i]) => i = Len(U)
           /\ Clean(U) => U = evs
<1>. DEFINE ends == {i \in 1..Len(evs) : IsTerminal(evs[i])}
            U == UpToTerminal(evs)
<1>1. Len(evs) \in Nat
  OBVIOUS
<1>2. CASE ends = {}
  <2>1. U = evs
    BY <1>2 DEF UpToTerminal
  <2>. QED BY <1>1, <1>2, <2>1
<1>3. CASE ends # {}
  <2>1. ends \in SUBSET Nat
    OBVIOUS
  <2>2. IsFiniteSet(ends)
    <3>1. IsFiniteSet(1..Len(evs))
      BY <1>1, FS_Interval
    <3>. QED BY <3>1, FS_Subset
  <2>3. Min(ends) \in ends /\ \A x \in ends : Min(ends) <= x
    BY <1>3, <2>1, <2>2, MinIsMin
  <2>4. U = SubSeq(evs, 1, Min(ends))
    BY <1>3 DEF UpToTerminal
  <2>. DEFINE m == Min(ends)
  <2>5. m \in 1..Len(evs) /\ IsTerminal(evs[m])
    BY <2>3
  <2>6. \A i \in 1..Len(evs) : IsTerminal(evs[i]) => m <= i
    BY <2>3
  <2>. HIDE DEF ends, m, U
  <2>7. U \in Seq(Event) /\ Len(U) = m /\ \A i \in 1..m : U[i] = evs[i]
    BY <1>1, <2>4, <2>5 DEF m
  <2>8. ~ Clean(U)
    BY <1>1, <2>5, <2>7 DEF Clean
  <2>9. \A i \in 1..m : IsTerminal(U[i]) => i = m
    BY <1>1, <2>5, <2>6, <2>7
  <2>. QED BY <1>1, <2>5, <2>7, <2>8, <2>9 DEF U
<1>. QED BY <1>2, <1>3

----------------------------------------------------------------------------
(***************************************************************************)
(* What a connection's Tailer holds: what it was sent ascends, from the     *)
(* floor up to the dedup mark, and once it sent the terminal event the       *)
(* connection is closed.                                                    *)
(***************************************************************************)
TailType == [last : Nat, out : Seq(Event), gap : BOOLEAN, open : BOOLEAN]

Between(evs, lo, hi) == \A i \in 1..Len(evs) : lo <= evs[i].seq /\ evs[i].seq <= hi

TerminalLast(evs) == \A i \in 1..Len(evs) : IsTerminal(evs[i]) => i = Len(evs)

ConnOK(tl, ph, from) ==
    /\ tl \in TailType
    /\ Ascends(tl.out)
    /\ Between(tl.out, from, tl.last)
    /\ TerminalLast(tl.out)
    /\ ph # "closed" => Clean(tl.out)
    /\ ph \in {"tailing", "lagged"} => from <= tl.last + 1

(***************************************************************************)
(* Forwarding an ascending sequence of events above the mark, none of them  *)
(* after the terminal one, keeps the Tailer's promises and moves the mark   *)
(* to the last of them.                                                     *)
(***************************************************************************)
LEMMA ForwardSound ==
    ASSUME NEW tl, NEW from \in Nat, NEW evs \in Seq(Event),
           ConnOK(tl, "tailing", from), Ascends(evs), TerminalLast(evs),
           \A i \in 1..Len(evs) : evs[i].seq > tl.last
    PROVE  LET f == Forward(tl, evs) IN
           /\ ConnOK(f, IF f.open THEN "tailing" ELSE "closed", from)
           /\ f.out = tl.out \o evs
           /\ f.open = Clean(evs)
           /\ f.last >= tl.last
           /\ \A i \in 1..Len(evs) : evs[i].seq <= f.last
           /\ evs = <<>> => f.last = tl.last
           /\ evs # <<>> => f.last = evs[Len(evs)].seq
<1>. DEFINE f == Forward(tl, evs)
            n == Len(tl.out)
            m == Len(evs)
            mark == IF evs = <<>> THEN tl.last ELSE evs[m].seq
<1>1. /\ tl.out \in Seq(Event) /\ tl.last \in Nat /\ tl.gap \in BOOLEAN
      /\ n \in Nat /\ m \in Nat
  BY DEF ConnOK, TailType
<1>2. \A i \in 1..m : evs[i] \in Event /\ evs[i].seq \in Nat
  <2>1. \A i \in 1..m : evs[i] \in Event OBVIOUS
  <2>. QED BY <2>1, EventRecords
<1>3. \A i \in 1..n : tl.out[i] \in Event /\ tl.out[i].seq \in Nat
  <2>1. \A i \in 1..n : tl.out[i] \in Event BY <1>1
  <2>. QED BY <2>1, EventRecords
<1>4. /\ f.out = tl.out \o evs
      /\ f.last = mark
      /\ f.open = Clean(evs)
      /\ f.gap = tl.gap
      /\ f = [last |-> f.last, out |-> f.out, gap |-> f.gap, open |-> f.open]
  <2>1. f = [last |-> mark, out |-> tl.out \o evs, gap |-> tl.gap, open |-> Clean(evs)]
    BY DEF Forward, Clean, Last
  <2>. HIDE DEF f
  <2>. QED BY <2>1
<1>5. mark \in Nat /\ mark >= tl.last /\ (evs # <<>> => m \in 1..m)
  BY <1>1, <1>2
<1>6. \A i \in 1..m : evs[i].seq <= mark
  <2>. SUFFICES ASSUME NEW i \in 1..m PROVE evs[i].seq <= mark
    OBVIOUS
  <2>1. evs # <<>> /\ m \in 1..m
    BY <1>1
  <2>2. i = m \/ i < m
    BY <1>1
  <2>3. i < m => evs[i].seq < evs[m].seq
    BY <2>1 DEF Ascends
  <2>. QED BY <1>2, <2>1, <2>2, <2>3
<1>7. /\ f.out \in Seq(Event) /\ Len(f.out) = n + m
      /\ \A i \in 1..n : f.out[i] = tl.out[i]
      /\ \A i \in (n+1)..(n+m) : f.out[i] = evs[i - n] /\ i - n \in 1..m
  BY <1>1, <1>4
<1>. HIDE DEF f, mark
<1>8. f \in TailType
  BY <1>1, <1>4, <1>5, <1>7 DEF TailType, Clean
<1>9. Ascends(f.out)
  <2>. SUFFICES ASSUME NEW i \in 1..(n+m), NEW j \in 1..(n+m), i < j
                PROVE  f.out[i].seq < f.out[j].seq
    BY <1>7 DEF Ascends
  <2>1. CASE j \in 1..n
    <3>1. i \in 1..n BY <1>1, <2>1
    <3>. QED BY <1>7, <2>1, <3>1 DEF ConnOK, Ascends
  <2>2. CASE i \in 1..n /\ j \in (n+1)..(n+m)
    <3>1. f.out[i].seq <= tl.last /\ f.out[i].seq \in Nat
      BY <1>3, <1>7, <2>2 DEF ConnOK, Between
    <3>2. f.out[j].seq > tl.last /\ f.out[j].seq \in Nat
      BY <1>2, <1>7, <2>2
    <3>. QED BY <1>1, <3>1, <3>2
  <2>3. CASE i \in (n+1)..(n+m) /\ j \in (n+1)..(n+m)
    <3>1. i - n < j - n BY <1>1
    <3>. QED BY <1>7, <2>3, <3>1 DEF Ascends
  <2>4. i \in 1..n \/ i \in (n+1)..(n+m)
    BY <1>1
  <2>5. j \in 1..n \/ j \in (n+1)..(n+m)
    BY <1>1
  <2>. QED BY <1>1, <2>1, <2>2, <2>3, <2>4, <2>5
<1>10. Between(f.out, from, f.last)
  <2>. SUFFICES ASSUME NEW i \in 1..(n+m)
                PROVE  from <= f.out[i].seq /\ f.out[i].seq <= mark
    BY <1>4, <1>7 DEF Between
  <2>1. CASE i \in 1..n
    <3>1. from <= f.out[i].seq /\ f.out[i].seq <= tl.last /\ f.out[i].seq \in Nat
      BY <1>3, <1>7, <2>1 DEF ConnOK, Between
    <3>. QED BY <1>1, <1>5, <3>1
  <2>2. CASE i \in (n+1)..(n+m)
    <3>1. f.out[i].seq > tl.last /\ f.out[i].seq <= mark /\ f.out[i].seq \in Nat
      BY <1>2, <1>6, <1>7, <2>2
    <3>2. from <= tl.last + 1
      BY DEF ConnOK
    <3>. QED BY <1>1, <1>5, <3>1, <3>2
  <2>. QED BY <1>1, <2>1, <2>2
<1>11. ASSUME NEW i \in 1..(n+m), IsTerminal(f.out[i])
       PROVE  i = n + m /\ ~ Clean(evs)
  <2>1. CASE i \in 1..n
    BY <1>7, <1>11, <2>1 DEF ConnOK, Clean
  <2>2. CASE i \in (n+1)..(n+m)
    <3>1. IsTerminal(evs[i - n]) /\ i - n \in 1..m
      BY <1>7, <1>11, <2>2
    <3>2. i - n = m
      BY <3>1 DEF TerminalLast
    <3>. QED BY <1>1, <3>1, <3>2 DEF Clean
  <2>. QED BY <1>1, <2>1, <2>2
<1>12. TerminalLast(f.out)
  BY <1>7, <1>11 DEF TerminalLast
<1>13. f.open => Clean(f.out)
  BY <1>4, <1>7, <1>11 DEF Clean
<1>14. from <= f.last + 1
  <2>1. from <= tl.last + 1
    BY DEF ConnOK
  <2>. QED BY <1>1, <1>4, <1>5, <2>1
<1>15. ConnOK(f, IF f.open THEN "tailing" ELSE "closed", from)
  BY <1>8, <1>9, <1>10, <1>12, <1>13, <1>14 DEF ConnOK
<1>16. evs # <<>> => mark = evs[Len(evs)].seq
  BY DEF mark
<1>17. evs = <<>> => mark = tl.last
  BY DEF mark
<1>. QED BY <1>4, <1>5, <1>6, <1>15, <1>16, <1>17 DEF f

(***************************************************************************)
(* What was sent is what was sent before and what is forwarded now.         *)
(***************************************************************************)
LEMMA ConcatRange ==
    ASSUME NEW p \in Seq(Event), NEW q \in Seq(Event)
    PROVE  Range(p \o q) = Range(p) \cup Range(q)
<1>. DEFINE r == p \o q
<1>1. /\ Len(p) \in Nat /\ Len(q) \in Nat /\ DOMAIN p = 1..Len(p) /\ DOMAIN q = 1..Len(q)
      /\ DOMAIN r = 1..(Len(p) + Len(q))
      /\ \A i \in 1..Len(p) : r[i] = p[i]
      /\ \A i \in 1..Len(q) : r[Len(p) + i] = q[i]
  OBVIOUS
<1>. HIDE DEF r
<1>2. \A i \in 1..Len(p) : i \in DOMAIN r
  BY <1>1
<1>3. \A i \in 1..Len(q) : Len(p) + i \in DOMAIN r
  BY <1>1
<1>4. \A k \in DOMAIN r : k \in 1..Len(p) \/ (k - Len(p) \in 1..Len(q) /\ k = Len(p) + (k - Len(p)))
  BY <1>1
<1>5. Range(p) \cup Range(q) \subseteq Range(r)
  BY <1>1, <1>2, <1>3 DEF Range
<1>6. Range(r) \subseteq Range(p) \cup Range(q)
  BY <1>1, <1>4 DEF Range
<1>. QED BY <1>5, <1>6 DEF r

(***************************************************************************)
(* agent_stream's first phase, from an ascending history above the floor:   *)
(* unless the terminal event closes the connection all of it is sent, and    *)
(* the mark is below the floor or at an event of it.                        *)
(***************************************************************************)
LEMMA OpenedSound ==
    ASSUME NEW from \in Nat, NEW history \in Seq(Event), Ascends(history),
           \A i \in 1..Len(history) : history[i].seq >= from /\ history[i].seq > 0
    PROVE  LET f == Opened(history, from) IN
           /\ ConnOK(f, IF f.open THEN "tailing" ELSE "closed", from)
           /\ f.open => \A i \in 1..Len(history) :
                            history[i].seq <= f.last /\ history[i] \in Range(f.out)
           /\ \/ \A k \in Nat : k > 0 /\ k >= from => k > f.last
              \/ \E i \in 1..Len(history) : f.last = history[i].seq
<1>. DEFINE tl == [last |-> IF from = 0 THEN 0 ELSE from - 1,
                   out |-> <<>>, gap |-> FALSE, open |-> TRUE]
            U == UpToTerminal(history)
            f == Forward(tl, U)
<1>1. f = Opened(history, from)
  BY DEF Opened
<1>2. /\ U \in Seq(Event) /\ Len(U) <= Len(history) /\ Len(U) \in Nat /\ Len(history) \in Nat
      /\ \A i \in 1..Len(U) : U[i] = history[i]
      /\ TerminalLast(U)
      /\ Clean(U) => U = history
  BY CutAtTerminal DEF TerminalLast
<1>3. \A i \in 1..Len(history) : history[i] \in Event /\ history[i].seq \in Nat
  <2>1. \A i \in 1..Len(history) : history[i] \in Event OBVIOUS
  <2>. QED BY <2>1, EventRecords
<1>4. /\ tl.last \in Nat /\ from <= tl.last + 1 /\ tl.out = <<>>
      /\ (from = 0 => tl.last = 0) /\ (from # 0 => tl.last = from - 1)
  OBVIOUS
<1>5. tl \in TailType
  BY <1>4 DEF TailType
<1>. HIDE DEF U, tl
<1>6. ConnOK(tl, "tailing", from)
  BY <1>4, <1>5 DEF ConnOK, Ascends, Between, TerminalLast, Clean
<1>7. \A i \in 1..Len(U) : i \in 1..Len(history) /\ U[i] = history[i]
  BY <1>2
<1>8. Ascends(U)
  BY <1>7 DEF Ascends
<1>9. \A i \in 1..Len(U) : U[i].seq > tl.last
  BY <1>3, <1>4, <1>7
<1>10. /\ ConnOK(f, IF f.open THEN "tailing" ELSE "closed", from)
       /\ f.out = tl.out \o U
       /\ f.open = Clean(U)
       /\ \A i \in 1..Len(U) : U[i].seq <= f.last
       /\ U = <<>> => f.last = tl.last
       /\ U # <<>> => f.last = U[Len(U)].seq
  BY <1>2, <1>6, <1>8, <1>9, ForwardSound
<1>. HIDE DEF f
<1>11. f.out = U
  BY <1>2, <1>4, <1>10
<1>12. f.open => \A i \in 1..Len(history) :
                     history[i].seq <= f.last /\ history[i] \in Range(f.out)
  BY <1>2, <1>10, <1>11 DEF Range
<1>13. \/ \A k \in Nat : k > 0 /\ k >= from => k > f.last
       \/ \E i \in 1..Len(history) : f.last = history[i].seq
  <2>1. CASE U = <<>>
    BY <1>4, <1>10, <2>1
  <2>2. CASE U # <<>>
    <3>1. Len(U) \in 1..Len(U)
      BY <1>2, <2>2
    <3>. QED BY <1>7, <1>10, <2>2, <3>1
  <2>. QED BY <2>1, <2>2
<1>. QED BY <1>1, <1>10, <1>12, <1>13

(***************************************************************************)
(* on_recv(Event): an event above the mark is sent, and only such an event. *)
(***************************************************************************)
LEMMA OnEventSound ==
    ASSUME NEW from \in Nat, NEW tl, ConnOK(tl, "tailing", from), NEW e \in Event
    PROVE  LET f == OnEvent(tl, e) IN
           /\ ConnOK(f, IF f.open THEN "tailing" ELSE "closed", from)
           /\ Range(tl.out) \subseteq Range(f.out)
           /\ e.seq > tl.last => e \in Range(f.out) /\ f.last = e.seq
           /\ e.seq <= tl.last => f.last = tl.last
           /\ f.last >= tl.last
<1>. DEFINE evs == <<e>>
            f == Forward(tl, evs)
<1>1. tl.last \in Nat /\ e.seq \in Nat /\ tl.out \in Seq(Event) /\ tl.open \in BOOLEAN
  BY EventRecords DEF ConnOK, TailType
<1>2. CASE e.seq > tl.last
  <2>1. evs \in Seq(Event) /\ Len(evs) = 1 /\ evs[1] = e
    OBVIOUS
  <2>2. Ascends(evs) /\ TerminalLast(evs) /\ \A i \in 1..Len(evs) : evs[i].seq > tl.last
    BY <1>2, <2>1 DEF Ascends, TerminalLast
  <2>3. evs # <<>>
    BY <2>1
  <2>4. OnEvent(tl, e) = f
    BY <1>2 DEF OnEvent
  <2>. HIDE DEF evs
  <2>5. /\ ConnOK(f, IF f.open THEN "tailing" ELSE "closed", from)
        /\ f.out = tl.out \o evs
        /\ f.last = e.seq
    BY <2>1, <2>2, <2>3, ForwardSound
  <2>. HIDE DEF f
  <2>6. Range(f.out) = Range(tl.out) \cup Range(evs)
    BY <1>1, <2>1, <2>5, ConcatRange
  <2>7. e \in Range(evs)
    BY <2>1 DEF Range
  <2>. QED BY <1>1, <1>2, <2>4, <2>5, <2>6, <2>7
<1>3. CASE e.seq <= tl.last
  <2>1. OnEvent(tl, e) = tl
    BY <1>1, <1>3 DEF OnEvent
  <2>2. ConnOK(tl, IF tl.open THEN "tailing" ELSE "closed", from)
    BY <1>1 DEF ConnOK
  <2>. QED BY <1>1, <1>3, <2>1, <2>2
<1>. QED BY <1>1, <1>2, <1>3

(***************************************************************************)
(* on_recv(Lagged): unless the terminal event closes the connection, the     *)
(* whole of the history above the mark is sent.                             *)
(***************************************************************************)
LEMMA OnLaggedSound ==
    ASSUME NEW from \in Nat, NEW tl, ConnOK(tl, "lagged", from),
           NEW history \in Seq(Event), Ascends(history),
           \A i \in 1..Len(history) : history[i].seq > tl.last
    PROVE  LET f == OnLagged(tl, history) IN
           /\ ConnOK(f, IF f.open THEN "tailing" ELSE "closed", from)
           /\ Range(tl.out) \subseteq Range(f.out)
           /\ f.open => \A i \in 1..Len(history) :
                            history[i].seq <= f.last /\ history[i] \in Range(f.out)
           /\ f.last >= tl.last
           /\ f.last = tl.last \/ \E i \in 1..Len(history) : f.last = history[i].seq
<1>. DEFINE g == [tl EXCEPT !.gap = TRUE]
            U == UpToTerminal(history)
            f == Forward(g, U)
<1>1. f = OnLagged(tl, history)
  BY DEF OnLagged
<1>2. /\ U \in Seq(Event) /\ Len(U) <= Len(history) /\ Len(U) \in Nat /\ Len(history) \in Nat
      /\ \A i \in 1..Len(U) : U[i] = history[i]
      /\ TerminalLast(U)
      /\ Clean(U) => U = history
  BY CutAtTerminal DEF TerminalLast
<1>3. \A i \in 1..Len(history) : history[i] \in Event /\ history[i].seq \in Nat
  <2>1. \A i \in 1..Len(history) : history[i] \in Event OBVIOUS
  <2>. QED BY <2>1, EventRecords
<1>4. /\ g \in TailType /\ g.last = tl.last /\ g.out = tl.out
      /\ tl.last \in Nat /\ tl.out \in Seq(Event)
  BY DEF ConnOK, TailType
<1>. HIDE DEF U, g
<1>5. ConnOK(g, "tailing", from)
  BY <1>4 DEF ConnOK
<1>6. \A i \in 1..Len(U) : i \in 1..Len(history) /\ U[i] = history[i]
  BY <1>2
<1>7. Ascends(U) /\ \A i \in 1..Len(U) : U[i].seq > g.last
  BY <1>4, <1>6 DEF Ascends
<1>8. /\ ConnOK(f, IF f.open THEN "tailing" ELSE "closed", from)
      /\ f.out = g.out \o U
      /\ f.open = Clean(U)
      /\ f.last >= g.last
      /\ \A i \in 1..Len(U) : U[i].seq <= f.last
      /\ U = <<>> => f.last = g.last
      /\ U # <<>> => f.last = U[Len(U)].seq
  BY <1>2, <1>5, <1>7, ForwardSound
<1>. HIDE DEF f
<1>9. Range(f.out) = Range(tl.out) \cup Range(U)
  BY <1>2, <1>4, <1>8, ConcatRange
<1>11. Range(tl.out) \subseteq Range(f.out)
  BY <1>9
<1>12. \A i \in 1..Len(U) : U[i] \in Range(f.out)
  <2>1. \A i \in 1..Len(U) : U[i] \in Range(U)
    BY <1>2 DEF Range
  <2>. QED BY <1>9, <2>1
<1>13. f.open => \A i \in 1..Len(history) :
                     history[i].seq <= f.last /\ history[i] \in Range(f.out)
  BY <1>2, <1>8, <1>12
<1>14. f.last = tl.last \/ \E i \in 1..Len(history) : f.last = history[i].seq
  <2>1. CASE U = <<>>
    BY <1>4, <1>8, <2>1
  <2>2. CASE U # <<>>
    <3>1. Len(U) \in 1..Len(U)
      BY <1>2, <2>2
    <3>. QED BY <1>6, <1>8, <2>2, <3>1
  <2>. QED BY <2>1, <2>2
<1>. QED BY <1>1, <1>4, <1>8, <1>11, <1>13, <1>14

(* A replay leaves the connection where it was or at one of its events.     *)
MovesTo(mark, last, history) ==
    last = mark \/ \E i \in 1..Len(history) : last = history[i].seq

LEMMA OnLaggedMoves ==
    ASSUME NEW from \in Nat, NEW tl, ConnOK(tl, "lagged", from),
           NEW history \in Seq(Event), Ascends(history),
           \A i \in 1..Len(history) : history[i].seq > tl.last
    PROVE  MovesTo(tl.last, OnLagged(tl, history).last, history)
  BY OnLaggedSound DEF MovesTo

----------------------------------------------------------------------------
USE HomeAssumption, ScriptAssumption, IndexAssumption, BoundsAssumption,
    SubHomeAssumption, FromAssumption, CapacityAssumption, ReplayFaultsAssumption

(***************************************************************************)
(* The log is finite, and seqs count from 1.                                *)
(***************************************************************************)
LogGood ==
    /\ IsFiniteSet(log)
    /\ \A e \in log : e.seq > 0
    /\ \A t \in Tasks : pc[t] = "append" => ev[t].seq > 0

LEMMA LogGoodStep == TypeInv /\ LogGood /\ [Next]_vars => LogGood'
<1>. SUFFICES ASSUME TypeInv, LogGood, [Next]_vars PROVE LogGood'
  OBVIOUS
<1>. USE DEF TypeInv, faultVars
<1>1. ASSUME NEW t \in Tasks, NEW k \in Nat \ {0}, Allocate(t, k), log' = log PROVE LogGood'
  <2>1. ev'[t].seq = k /\ \A u \in Tasks \ {t} : ev'[u] = ev[u] /\ pc'[u] = pc[u]
    BY <1>1 DEF Allocate, TypeOK, Event
  <2>2. k > 0
    OBVIOUS
  <2>3. ASSUME NEW u \in Tasks, pc'[u] = "append" PROVE ev'[u].seq > 0
    <3>1. CASE u = t
      BY <2>1, <2>2, <3>1
    <3>2. CASE u # t
      BY <2>1, <2>3, <3>2 DEF LogGood
    <3>. QED BY <3>1, <3>2
  <2>. QED BY <1>1, <2>3 DEF LogGood
<1>2. ASSUME log' = log,
             \A u \in Tasks : pc'[u] = "append" => pc[u] = "append" /\ ev'[u] = ev[u]
      PROVE  LogGood'
  BY <1>2 DEF LogGood
<1>3. ASSUME NEW t \in Tasks, pc[t] = "append", log' = log \cup {ev[t]},
             \A u \in Tasks : pc'[u] = "append" => pc[u] = "append" /\ ev'[u] = ev[u]
      PROVE  LogGood'
  <2>1. IsFiniteSet(log')
    BY <1>3, FS_AddElement DEF LogGood
  <2>2. \A e \in log' : e.seq > 0
    BY <1>3 DEF LogGood
  <2>. QED BY <1>3, <2>1, <2>2 DEF LogGood
<1>4. ASSUME NEW t \in Tasks, Emit(t) PROVE LogGood'
  BY <1>2, <1>4 DEF Emit, TypeOK
<1>5. ASSUME NEW t \in Tasks, NextSeqCached(t) PROVE LogGood'
  <2>0. seqs[Home[t]] \in Nat
    BY DEF TypeOK
  <2>1. seqs[Home[t]] + 1 \in Nat \ {0}
    BY <2>0
  <2>. QED BY <1>1, <1>5, <2>1 DEF NextSeqCached
<1>6. ASSUME NEW t \in Tasks, NextSeqSeeded(t) PROVE LogGood'
  <2>. DEFINE k == IF seqs[Home[t]] # 0 THEN seqs[Home[t]] + 1 ELSE seeded[t] + 1
  <2>0. seqs[Home[t]] \in Nat /\ seeded[t] \in Nat
    BY DEF TypeOK
  <2>1. k \in Nat \ {0}
    BY <2>0
  <2>2. Allocate(t, k) /\ log' = log
    BY <1>6 DEF NextSeqSeeded
  <2>. HIDE DEF k
  <2>. QED BY <1>1, <2>1, <2>2
<1>7. ASSUME NEW t \in Tasks,
             NextSeqMiss(t) \/ ReadHighWater(t) \/ ReadHighWaterFails(t) \/ AppendConflict(t)
               \/ AppendConflictExhausted(t) \/ Publish(t) \/ PublishLost(t)
      PROVE  LogGood'
  BY <1>2, <1>7 DEF NextSeqMiss, ReadHighWater, ReadHighWaterFails, AppendConflict,
        AppendConflictExhausted, AppendError, Publish, PublishLost, TypeOK
<1>8. ASSUME NEW t \in Tasks, AppendOk(t) PROVE LogGood'
  BY <1>3, <1>8 DEF AppendOk, TypeOK
<1>9. ASSUME NEW t \in Tasks, AppendFails(t) PROVE LogGood'
  <2>1. /\ pc[t] = "append" /\ ev' = ev
        /\ \A u \in Tasks : pc'[u] = "append" => pc[u] = "append" /\ ev'[u] = ev[u]
    BY <1>9 DEF AppendFails, AppendError, TypeOK
  <2>2. log' = log \/ log' = log \cup {ev[t]}
    BY <1>9 DEF AppendFails
  <2>. QED BY <1>2, <1>3, <2>1, <2>2
<1>10. ASSUME NEW r \in Replicas, Crash(r) PROVE LogGood'
  BY <1>2, <1>10 DEF Crash, TypeOK
<1>11. ASSUME Prune PROVE LogGood'
  <2>1. log' \in SUBSET log /\ pc' = pc /\ ev' = ev
    BY <1>11 DEF Prune
  <2>2. IsFiniteSet(log')
    BY <2>1, FS_Subset DEF LogGood
  <2>. QED BY <2>1, <2>2 DEF LogGood
<1>12. CASE UNCHANGED vars
  BY <1>2, <1>12 DEF vars
<1>. QED
  BY <1>4, <1>5, <1>6, <1>7, <1>8, <1>9, <1>10, <1>11, <1>12 DEF Next, Step

(***************************************************************************)
(* The emitters of a streaming daemon take the steps of Emitter.            *)
(***************************************************************************)
LEMMA StreamStepIsEmitterStep == [StreamNext]_streamVars => [Next]_vars
<1>. SUFFICES ASSUME [StreamNext]_streamVars PROVE [Next]_vars
  OBVIOUS
<1>1. CASE \E t \in Tasks : Emit(t) \/ Step(t)
  BY <1>1 DEF Next
<1>2. CASE \E s \in Subs : Subscribe(s) \/ SubStep(s)
  BY <1>2 DEF Subscribe, SubStep, ReadHistory, ReadHistoryFails, Recv, RecvLagged, Heal, HealFails
<1>3. CASE \E r \in Replicas : CrashCuts(r)
  BY <1>3 DEF CrashCuts, Next
<1>4. CASE Prune
  BY <1>4 DEF Next
<1>5. CASE UNCHANGED streamVars
  BY <1>5 DEF streamVars
<1>. QED BY <1>1, <1>2, <1>3, <1>4, <1>5 DEF StreamNext

(***************************************************************************)
(* What a replay of the log returns.                                        *)
(***************************************************************************)
LEMMA ReplayedLog ==
    ASSUME TypeInv, DurableSeqUnique, LogGood, NEW from \in Nat
    PROVE  LET R == Replay(log, from) IN
           /\ R \in Seq(Event)
           /\ Ascends(R)
           /\ \A i \in 1..Len(R) : R[i] \in log /\ R[i].seq >= from /\ R[i].seq > 0
           /\ \A e \in log : e.seq >= from => \E i \in 1..Len(R) : R[i] = e
<1>1. log \subseteq Event /\ IsFiniteSet(log) /\ \A e, f \in log : e.seq = f.seq => e = f
  BY DEF TypeInv, TypeOK, LogGood, DurableSeqUnique
<1>. DEFINE R == Replay(log, from)
<1>2. /\ R \in Seq(Event)
      /\ Ascends(R)
      /\ \A i \in 1..Len(R) : R[i] \in log /\ R[i].seq >= from
      /\ \A e \in log : e.seq >= from => \E i \in 1..Len(R) : R[i] = e
  BY <1>1, ReplayIsOrdered
<1>. HIDE DEF R
<1>3. \A i \in 1..Len(R) : R[i].seq > 0
  BY <1>2 DEF LogGood
<1>. QED BY <1>2, <1>3 DEF R

(***************************************************************************)
(* A bus only grows, one event at a time, until its replica dies.           *)
(***************************************************************************)
LEMMA BusGrows ==
    ASSUME TypeInv, NEW t \in Tasks, Emit(t) \/ Step(t), NEW r \in Replicas
    PROVE  \/ bus'[r] = bus[r]
           \/ /\ pc[t] \in {"publish", "publish_lost"} /\ r = Home[t]
              /\ bus'[r] = Append(bus[r], ev[t])
<1>1. CASE Publish(t) \/ PublishLost(t)
  <2>1. bus \in [Replicas -> Seq(Event)]
    BY DEF TypeInv, TypeOK
  <2>2. pc[t] \in {"publish", "publish_lost"} /\ bus' = [bus EXCEPT ![Home[t]] = Append(@, ev[t])]
    BY <1>1 DEF Publish, PublishLost
  <2>. QED BY <2>1, <2>2
<1>2. CASE ~ (Publish(t) \/ PublishLost(t))
  BY <1>2 DEF Step, Emit, NextSeqCached, NextSeqMiss, ReadHighWater, ReadHighWaterFails,
      NextSeqSeeded, AppendOk, AppendConflict, AppendConflictExhausted, AppendFails
<1>. QED BY <1>1, <1>2

(***************************************************************************)
(* What every connection keeps, whatever the emitters do.                   *)
(***************************************************************************)
SubTypes ==
    /\ phase \in [Subs -> Phases]
    /\ pos \in [Subs -> Nat]
    /\ \A s \in Subs : pos[s] <= Len(Channel(s))
    /\ tail \in [Subs -> TailType]
    /\ blind \subseteq Subs
    /\ replayFaults \in 0..MaxReplayFaults

Conns == \A s \in Subs : ConnOK(tail[s], phase[s], From[s])

ConnInv == SubTypes /\ Conns

LEMMA NoTailOK ==
    ASSUME NEW from \in Nat, NEW ph, ph \in {"off", "subscribed"}
    PROVE  NoTail \in TailType /\ ConnOK(NoTail, ph, from)
<1>. DEFINE tl == NoTail
<1>1. tl.last = 0 /\ tl.out = <<>> /\ tl \in TailType
  BY DEF NoTail, TailType
<1>. HIDE DEF tl
<1>2. ConnOK(tl, ph, from)
  BY <1>1 DEF ConnOK, Ascends, Between, TerminalLast, Clean
<1>. QED BY <1>1, <1>2 DEF tl

(***************************************************************************)
(* A step of the emitters leaves the connections alone.                     *)
(***************************************************************************)
LEMMA QuietConn ==
    ASSUME ConnInv, UNCHANGED subVars,
           \A s \in Subs : Len(Channel(s)') >= Len(Channel(s)) /\ Len(Channel(s)) \in Nat /\ Len(Channel(s)') \in Nat
    PROVE  ConnInv'
<1>1. Conns'
  BY DEF ConnInv, Conns, subVars
<1>2. \A s \in Subs : pos'[s] <= Len(Channel(s)')
  BY DEF ConnInv, SubTypes, subVars
<1>. QED BY <1>1, <1>2 DEF ConnInv, SubTypes, subVars

(***************************************************************************)
(* A step of one connection that goes on with a sound tail.                 *)
(***************************************************************************)
LEMMA ContinueConn ==
    ASSUME ConnInv, NEW s \in Subs, NEW tl, Continue(s, tl), bus' = bus,
           ConnOK(tl, IF tl.open THEN "tailing" ELSE "closed", From[s]),
           pos' \in [Subs -> Nat], \A x \in Subs : pos'[x] <= Len(Channel(x)),
           blind' \subseteq Subs, replayFaults' \in 0..MaxReplayFaults
    PROVE  ConnInv'
<1>. DEFINE ph == IF tl.open THEN "tailing" ELSE "closed"
<1>1. tl \in TailType
  BY DEF ConnOK
<1>2. /\ tail' = [tail EXCEPT ![s] = tl]
      /\ phase' = [phase EXCEPT ![s] = ph]
      /\ ph \in Phases
  BY DEF Continue, Phases
<1>3. ConnOK(tl, ph, From[s])
  OBVIOUS
<1>. HIDE DEF ph
<1>4. /\ tail'[s] = tl /\ phase'[s] = ph
      /\ \A x \in Subs \ {s} : tail'[x] = tail[x] /\ phase'[x] = phase[x]
      /\ tail' \in [Subs -> TailType] /\ phase' \in [Subs -> Phases]
  BY <1>1, <1>2 DEF ConnInv, SubTypes
<1>5. Conns'
  <2>. SUFFICES ASSUME NEW x \in Subs PROVE ConnOK(tail'[x], phase'[x], From[x])
    BY DEF Conns
  <2>1. CASE x = s
    BY <1>3, <1>4, <2>1
  <2>2. CASE x # s
    BY <1>4, <2>2 DEF ConnInv, Conns
  <2>. QED BY <2>1, <2>2
<1>. QED BY <1>4, <1>5 DEF ConnInv, SubTypes, Channel

(***************************************************************************)
(* The sound tails the three kinds of step go on with.                      *)
(***************************************************************************)
LEMMA ConnStep ==
    ASSUME TypeInv, DurableSeqUnique, LogGood, ConnInv, [StreamNext]_streamVars
    PROVE  ConnInv'
<1>. USE DEF faultVars
<1>0. \A r \in Replicas : bus[r] \in Seq(Event) /\ Len(bus[r]) \in Nat
  BY DEF TypeInv, TypeOK
<1>1. ASSUME NEW t \in Tasks, Emit(t) \/ Step(t), UNCHANGED subVars PROVE ConnInv'
  <2>1. ASSUME NEW s \in Subs PROVE Len(Channel(s)') >= Len(Channel(s)) /\ Len(Channel(s)) \in Nat /\ Len(Channel(s)') \in Nat
    <3>1. SubHome[s] \in Replicas
      OBVIOUS
    <3>2. \/ bus'[SubHome[s]] = bus[SubHome[s]]
          \/ bus'[SubHome[s]] = Append(bus[SubHome[s]], ev[t])
      BY <1>1, <3>1, BusGrows
    <3>. QED BY <1>0, <3>1, <3>2 DEF Channel
  <2>. QED BY <1>1, <2>1, QuietConn
<1>2. ASSUME Prune, UNCHANGED subVars PROVE ConnInv'
  <2>1. \A s \in Subs : Channel(s)' = Channel(s) /\ Len(Channel(s)) \in Nat
    BY <1>0, <1>2 DEF Prune, Channel
  <2>. QED BY <1>2, <2>1, QuietConn
<1>3. ASSUME NEW s \in Subs, Subscribe(s) PROVE ConnInv'
  <2>1. /\ phase' = [phase EXCEPT ![s] = "subscribed"] /\ phase[s] = "off"
        /\ pos' = [pos EXCEPT ![s] = Len(Channel(s))]
        /\ UNCHANGED <<bus, tail, blind, replayFaults>>
    BY <1>3 DEF Subscribe, vars
  <2>2. Len(Channel(s)) \in Nat
    BY <1>0 DEF Channel
  <2>3. SubTypes'
    BY <2>1, <2>2 DEF ConnInv, SubTypes, Channel, Phases
  <2>4. Conns'
    BY <2>1 DEF ConnInv, SubTypes, Conns, ConnOK
  <2>. QED BY <2>3, <2>4 DEF ConnInv
<1>4. ASSUME NEW s \in Subs, ReadHistory(s) PROVE ConnInv'
  <2>. DEFINE R == Replay(log, From[s])
              tl == Opened(R, From[s])
  <2>1. /\ R \in Seq(Event) /\ Ascends(R)
        /\ \A i \in 1..Len(R) : R[i].seq >= From[s] /\ R[i].seq > 0
    BY ReplayedLog
  <2>2. Continue(s, tl) /\ UNCHANGED <<bus, pos, blind, replayFaults>>
    BY <1>4 DEF ReadHistory, vars
  <2>. HIDE DEF R
  <2>3. ConnOK(tl, IF tl.open THEN "tailing" ELSE "closed", From[s])
    BY <2>1, OpenedSound
  <2>. HIDE DEF tl
  <2>. QED BY <2>2, <2>3, ContinueConn DEF ConnInv, SubTypes
<1>5. ASSUME NEW s \in Subs, ReadHistoryFails(s) PROVE ConnInv'
  <2>. DEFINE R == <<>>
              tl == Opened(R, From[s])
  <2>1. /\ R \in Seq(Event) /\ Ascends(R)
        /\ \A i \in 1..Len(R) : R[i].seq >= From[s] /\ R[i].seq > 0
    BY DEF Ascends
  <2>2. /\ Continue(s, tl) /\ UNCHANGED <<bus, pos>> /\ blind' = blind \cup {s}
        /\ replayFaults' = replayFaults + 1 /\ replayFaults < MaxReplayFaults
    BY <1>5 DEF ReadHistoryFails, vars
  <2>. HIDE DEF R
  <2>3. ConnOK(tl, IF tl.open THEN "tailing" ELSE "closed", From[s])
    BY <2>1, OpenedSound
  <2>. HIDE DEF tl
  <2>4. replayFaults' \in 0..MaxReplayFaults /\ blind' \subseteq Subs
    BY <2>2 DEF ConnInv, SubTypes
  <2>5. pos' \in [Subs -> Nat] /\ \A x \in Subs : pos'[x] <= Len(Channel(x))
    BY <2>2 DEF ConnInv, SubTypes
  <2>. QED BY <2>2, <2>3, <2>4, <2>5, ContinueConn
<1>6. ASSUME NEW s \in Subs, Recv(s) PROVE ConnInv'
  <2>. DEFINE e == Channel(s)[pos[s] + 1]
              tl == OnEvent(tail[s], e)
  <2>1. /\ phase[s] = "tailing" /\ pos[s] < Len(Channel(s))
        /\ pos' = [pos EXCEPT ![s] = @ + 1]
        /\ Continue(s, tl) /\ UNCHANGED <<bus, blind, replayFaults>>
    BY <1>6 DEF Recv, vars
  <2>2. pos[s] \in Nat /\ Len(Channel(s)) \in Nat /\ Channel(s) \in Seq(Event)
    BY <1>0 DEF ConnInv, SubTypes, Channel
  <2>3. e \in Event
    BY <2>1, <2>2
  <2>4. ConnOK(tail[s], "tailing", From[s])
    BY <2>1 DEF ConnInv, Conns
  <2>. HIDE DEF e
  <2>5. ConnOK(tl, IF tl.open THEN "tailing" ELSE "closed", From[s])
    BY <2>3, <2>4, OnEventSound
  <2>6. pos' \in [Subs -> Nat] /\ \A x \in Subs : pos'[x] <= Len(Channel(x))
    BY <2>1, <2>2 DEF ConnInv, SubTypes
  <2>. HIDE DEF tl
  <2>. QED BY <2>1, <2>5, <2>6, ContinueConn DEF ConnInv, SubTypes
<1>7. ASSUME NEW s \in Subs, RecvLagged(s) PROVE ConnInv'
  <2>1. /\ phase[s] = "tailing" /\ Len(Channel(s)) - pos[s] > Capacity
        /\ pos' = [pos EXCEPT ![s] = Len(Channel(s)) - Capacity]
        /\ phase' = [phase EXCEPT ![s] = "lagged"]
        /\ UNCHANGED <<bus, tail, blind, replayFaults>>
    BY <1>7 DEF RecvLagged, Lagging, vars
  <2>2. Len(Channel(s)) \in Nat /\ pos[s] \in Nat
    BY <1>0 DEF Channel, ConnInv, SubTypes
  <2>3. Len(Channel(s)) - Capacity \in Nat /\ Len(Channel(s)) - Capacity <= Len(Channel(s))
    BY <2>1, <2>2
  <2>4. SubTypes'
    BY <2>1, <2>2, <2>3 DEF ConnInv, SubTypes, Channel, Phases
  <2>5. Conns'
    BY <2>1 DEF ConnInv, SubTypes, Conns, ConnOK
  <2>. QED BY <2>4, <2>5 DEF ConnInv
<1>8. ASSUME NEW s \in Subs, Heal(s) PROVE ConnInv'
  <2>. DEFINE floor == tail[s].last + 1
              R == Replay(log, floor)
              tl == OnLagged(tail[s], R)
  <2>1. tail[s].last \in Nat /\ floor \in Nat
    BY DEF ConnInv, SubTypes, TailType
  <2>2. /\ R \in Seq(Event) /\ Ascends(R)
        /\ \A i \in 1..Len(R) : R[i] \in log /\ R[i].seq >= floor
    <3>. HIDE DEF floor
    <3>. QED BY <2>1, ReplayedLog
  <2>3. \A i \in 1..Len(R) : R[i].seq > tail[s].last
    <3>1. \A i \in 1..Len(R) : R[i].seq \in Nat
      BY <2>2, EventRecords DEF TypeInv, TypeOK
    <3>. HIDE DEF R
    <3>. QED BY <2>1, <2>2, <3>1
  <2>4. /\ phase[s] = "lagged"
        /\ Continue(s, tl) /\ UNCHANGED <<bus, pos, blind, replayFaults>>
    BY <1>8 DEF Heal, vars
  <2>5. ConnOK(tail[s], "lagged", From[s])
    BY <2>4 DEF ConnInv, Conns
  <2>. HIDE DEF R
  <2>6. ConnOK(tl, IF tl.open THEN "tailing" ELSE "closed", From[s])
    BY <2>2, <2>3, <2>5, OnLaggedSound
  <2>. HIDE DEF tl
  <2>. QED BY <2>4, <2>6, ContinueConn DEF ConnInv, SubTypes
<1>9. ASSUME NEW s \in Subs, HealFails(s) PROVE ConnInv'
  <2>. DEFINE R == <<>>
              tl == OnLagged(tail[s], R)
  <2>1. R \in Seq(Event) /\ Ascends(R) /\ \A i \in 1..Len(R) : R[i].seq > tail[s].last
    BY DEF Ascends
  <2>2. /\ phase[s] = "lagged"
        /\ Continue(s, tl) /\ UNCHANGED <<bus, pos>> /\ blind' = blind \cup {s}
        /\ replayFaults' = replayFaults + 1 /\ replayFaults < MaxReplayFaults
    BY <1>9 DEF HealFails, vars
  <2>3. ConnOK(tail[s], "lagged", From[s])
    BY <2>2 DEF ConnInv, Conns
  <2>. HIDE DEF R
  <2>4. ConnOK(tl, IF tl.open THEN "tailing" ELSE "closed", From[s])
    BY <2>1, <2>3, OnLaggedSound
  <2>. HIDE DEF tl
  <2>5. replayFaults' \in 0..MaxReplayFaults /\ blind' \subseteq Subs
    BY <2>2 DEF ConnInv, SubTypes
  <2>6. pos' \in [Subs -> Nat] /\ \A x \in Subs : pos'[x] <= Len(Channel(x))
    BY <2>2 DEF ConnInv, SubTypes
  <2>. QED BY <2>2, <2>4, <2>5, <2>6, ContinueConn
<1>10. ASSUME NEW r \in Replicas, CrashCuts(r) PROVE ConnInv'
  <2>1. /\ \A x \in Replicas \ {r} : bus'[x] = bus[x]
        /\ bus'[r] = <<>>
    BY <1>10 DEF CrashCuts, Crash, TypeInv, TypeOK
  <2>2. /\ phase' = [s \in Subs |-> IF SubHome[s] = r THEN "off" ELSE phase[s]]
        /\ pos' = [s \in Subs |-> IF SubHome[s] = r THEN 0 ELSE pos[s]]
        /\ tail' = [s \in Subs |-> IF SubHome[s] = r THEN NoTail ELSE tail[s]]
        /\ blind' \subseteq blind /\ replayFaults' = replayFaults
    BY <1>10 DEF CrashCuts
  <2>3. NoTail \in TailType
    BY NoTailOK
  <2>4. \A s \in Subs : pos'[s] <= Len(Channel(s)')
    <3>. SUFFICES ASSUME NEW s \in Subs PROVE pos'[s] <= Len(Channel(s)')
      OBVIOUS
    <3>1. CASE SubHome[s] = r
      BY <2>1, <2>2, <3>1 DEF Channel
    <3>2. CASE SubHome[s] # r
      BY <2>1, <2>2, <3>2 DEF Channel, ConnInv, SubTypes
    <3>. QED BY <3>1, <3>2
  <2>5. SubTypes'
    BY <2>2, <2>3, <2>4 DEF ConnInv, SubTypes, Phases
  <2>6. Conns'
    <3>. SUFFICES ASSUME NEW s \in Subs PROVE ConnOK(tail'[s], phase'[s], From[s])
      BY DEF Conns
    <3>1. CASE SubHome[s] = r
      <4>1. tail'[s] = NoTail /\ phase'[s] = "off" /\ From[s] \in Nat
        BY <2>2, <3>1
      <4>. QED BY <4>1, NoTailOK
    <3>2. CASE SubHome[s] # r
      BY <2>2, <3>2 DEF ConnInv, Conns
    <3>. QED BY <3>1, <3>2
  <2>. QED BY <2>5, <2>6 DEF ConnInv
<1>11. CASE UNCHANGED streamVars
  <2>1. \A s \in Subs : Channel(s)' = Channel(s) /\ Len(Channel(s)) \in Nat
    BY <1>0, <1>11 DEF streamVars, vars, Channel
  <2>2. UNCHANGED subVars
    BY <1>11 DEF streamVars
  <2>. QED BY <2>1, <2>2, QuietConn
<1>. QED
  BY <1>1, <1>2, <1>3, <1>4, <1>5, <1>6, <1>7, <1>8, <1>9, <1>10, <1>11
     DEF StreamNext, SubStep

LEMMA ConnInit == StreamInit => ConnInv
<1>. SUFFICES ASSUME StreamInit PROVE ConnInv
  OBVIOUS
<1>1. \A s \in Subs : Channel(s) = <<>> /\ Len(Channel(s)) = 0
  BY DEF StreamInit, Init, Channel
<1>2. NoTail \in TailType
  BY NoTailOK
<1>3. SubTypes
  BY <1>1, <1>2 DEF StreamInit, SubTypes, Phases
<1>4. Conns
  <2>. SUFFICES ASSUME NEW s \in Subs PROVE ConnOK(tail[s], phase[s], From[s])
    BY DEF Conns
  <2>1. tail[s] = NoTail /\ phase[s] = "off" /\ From[s] \in Nat
    BY DEF StreamInit
  <2>. QED BY <2>1, NoTailOK
<1>. QED BY <1>3, <1>4 DEF ConnInv

LEMMA ConnIsSound ==
    ASSUME ConnInv, TypeInv
    PROVE  StreamSound
<1>1. StreamTypeOK
  <2>1. \A s \in Subs : pos[s] \in 0..Len(Channel(s))
    <3>. SUFFICES ASSUME NEW s \in Subs PROVE pos[s] \in 0..Len(Channel(s))
      OBVIOUS
    <3>1. Len(Channel(s)) \in Nat
      BY DEF Channel, TypeInv, TypeOK
    <3>. QED BY <3>1 DEF ConnInv, SubTypes
  <2>. QED BY <2>1 DEF StreamTypeOK, ConnInv, SubTypes, TailType
<1>2. NoDuplicate
  BY DEF NoDuplicate, Out, ConnInv, Conns, ConnOK, Ascends, Between
<1>3. ClosesAtTerminal
  BY DEF ClosesAtTerminal, Out, ConnInv, Conns, ConnOK, TerminalLast, Clean
<1>. QED BY <1>1, <1>2, <1>3 DEF StreamSound

(* What the emitters keep that a replay needs. *)
SourceInv == TypeInv /\ UniqueInv /\ LogGood

LEMMA SourceInit == Init => SourceInv
<1>1. Init => UniqueInv
  BY DEF Init, UniqueInv, DurableSeqUnique, CacheInv, AppendCovered, AppendDistinct,
         CounterCovers, ReadCovers
<1>2. Init => LogGood
  BY FS_EmptySet DEF Init, LogGood
<1>. QED BY <1>1, <1>2, InitType DEF SourceInv

LEMMA SourceStep ==
    ASSUME SoundStore, SourceInv, [Next]_vars
    PROVE  SourceInv'
  BY StepType, CacheStep, IndexStep, LogGoodStep DEF SoundStore, UniqueInv, SourceInv

(***************************************************************************)
(* What one connection is sent is the history from its floor and then the   *)
(* live events, each once and in order of seq, and ends with the terminal   *)
(* event (agent_stream, Tailer), whatever the store, the channel and the    *)
(* daemon lose in between.                                                  *)
(***************************************************************************)
THEOREM StreamSoundHolds ==
    ASSUME SoundStore
    PROVE  StreamSpec => []StreamSound
<1>1. StreamInit => SourceInv /\ ConnInv
  BY SourceInit, ConnInit DEF StreamInit
<1>2. SourceInv /\ ConnInv /\ [StreamNext]_streamVars => SourceInv' /\ ConnInv'
  BY SourceStep, StreamStepIsEmitterStep, ConnStep DEF SourceInv, UniqueInv
<1>3. SourceInv /\ ConnInv => StreamSound
  BY ConnIsSound DEF SourceInv
<1>. QED BY <1>1, <1>2, <1>3, PTL DEF StreamSpec

----------------------------------------------------------------------------
(***************************************************************************)
(* One task alone has emitted. As long as no high_water read failed, the    *)
(* counter of its replica covers the log and the channel, which ascends,    *)
(* and what it is about to append or publish comes after both.              *)
(***************************************************************************)
Sole(t) == \A u \in Tasks : u # t => emitted[u] = 0

Live(t) == bus[Home[t]]

Written == {"append", "publish", "publish_lost"}

SoleRows(t) ==
    /\ pc[t] = "append" => \A e \in log : e.seq < ev[t].seq
    /\ seqs[Home[t]] # 0 => \A e \in log : e.seq <= seqs[Home[t]]
    /\ pc[t] = "reseeded" /\ seqs[Home[t]] = 0 => \A e \in log : e.seq <= seeded[t]

SoleChannel(t) ==
    /\ Ascends(Live(t))
    /\ \A i \in 1..Len(Live(t)) : Live(t)[i].seq <= seqs[Home[t]]
    /\ seqs[Home[t]] = 0 => Live(t) = <<>>
    /\ pc[t] \in Written => ev[t].seq <= seqs[Home[t]] /\ ev[t].seq > 0
    /\ pc[t] \in Written => \A i \in 1..Len(Live(t)) : Live(t)[i].seq < ev[t].seq

SoleSound(t) == Sole(t) => SoleRows(t) /\ SoleChannel(t)

Busy == \A t \in Tasks : pc[t] # "idle" => emitted[t] > 0

BusOwned == \A r \in Replicas : bus[r] # <<>> => \E t \in Tasks : Home[t] = r /\ emitted[t] > 0

SoleInv == Busy /\ BusOwned /\ (readFaults = 0 => \A t \in Tasks : SoleSound(t))

(***************************************************************************)
(* A sequence that ascends goes on ascending with a greater event.          *)
(***************************************************************************)
LEMMA AppendAscends ==
    ASSUME NEW evs \in Seq(Event), Ascends(evs), NEW e \in Event,
           \A i \in 1..Len(evs) : evs[i].seq < e.seq
    PROVE  /\ Ascends(Append(evs, e)) /\ Append(evs, e) \in Seq(Event)
           /\ Len(Append(evs, e)) = Len(evs) + 1 /\ Len(evs) \in Nat
           /\ \A i \in 1..Len(evs) : Append(evs, e)[i] = evs[i]
           /\ Append(evs, e)[Len(evs) + 1] = e
<1>. DEFINE a == Append(evs, e)
<1>1. /\ a \in Seq(Event) /\ Len(a) = Len(evs) + 1 /\ Len(evs) \in Nat
      /\ \A i \in 1..Len(evs) : a[i] = evs[i]
      /\ a[Len(evs) + 1] = e
  OBVIOUS
<1>. HIDE DEF a
<1>2. ASSUME NEW i \in 1..Len(a), NEW j \in 1..Len(a), i < j PROVE a[i].seq < a[j].seq
  <2>1. i \in 1..Len(evs)
    BY <1>1, <1>2
  <2>2. j \in 1..Len(evs) \/ j = Len(evs) + 1
    BY <1>1
  <2>3. CASE j \in 1..Len(evs)
    BY <1>1, <1>2, <2>1, <2>3 DEF Ascends
  <2>4. CASE j = Len(evs) + 1
    BY <1>1, <2>1, <2>4
  <2>. QED BY <2>2, <2>3, <2>4
<1>3. Ascends(a)
  BY <1>2 DEF Ascends
<1>. QED BY <1>1, <1>3 DEF a

(***************************************************************************)
(* The sole writer allocates k, above the log and the channel.              *)
(***************************************************************************)
LEMMA SoleAllocates ==
    ASSUME TypeInv, NEW t \in Tasks, NEW k \in Nat, k > 0, Allocate(t, k),
           log' = log, bus' = bus, SoleChannel(t),
           \A e \in log : e.seq < k,
           \A i \in 1..Len(Live(t)) : Live(t)[i].seq < k
    PROVE  SoleRows(t)' /\ SoleChannel(t)'
<1>1. /\ seqs'[Home[t]] = k /\ ev'[t].seq = k /\ pc'[t] = "append"
  BY DEF Allocate, TypeInv, TypeOK, Event
<1>2. Live(t)' = Live(t)
  BY DEF Live
<1>3. \A e \in log : e.seq \in Nat
  BY EventRecords DEF TypeInv, TypeOK
<1>4. SoleRows(t)'
  BY <1>1, <1>3 DEF SoleRows
<1>5. \A i \in 1..Len(Live(t)) : Live(t)[i].seq <= k
  <2>1. \A i \in 1..Len(Live(t)) : Live(t)[i] \in Event
    BY DEF Live, TypeInv, TypeOK
  <2>. QED BY <2>1, EventRecords
<1>6. SoleChannel(t)'
  BY <1>1, <1>2, <1>5 DEF SoleChannel, Written
<1>. QED BY <1>4, <1>6

(***************************************************************************)
(* Every step of the sole writer.                                           *)
(***************************************************************************)
LEMMA SoleTakesStep ==
    ASSUME TypeInv, LogGood, NEW t \in Tasks, SoleRows(t), SoleChannel(t),
           Emit(t) \/ Step(t), readFaults' = 0, readFaults = 0
    PROVE  SoleRows(t)' /\ SoleChannel(t)'
<1>. USE DEF faultVars
<1>0. /\ seqs[Home[t]] \in Nat /\ seeded[t] \in Nat /\ ev[t] \in Event /\ ev[t].seq \in Nat
      /\ Live(t) \in Seq(Event) /\ Len(Live(t)) \in Nat
      /\ \A e \in log : e.seq \in Nat
      /\ \A i \in 1..Len(Live(t)) : Live(t)[i].seq \in Nat
  <2>1. /\ seqs[Home[t]] \in Nat /\ seeded[t] \in Nat /\ ev[t] \in Event /\ log \subseteq Event
        /\ Live(t) \in Seq(Event)
    BY DEF TypeInv, TypeOK, Live
  <2>2. \A i \in 1..Len(Live(t)) : Live(t)[i] \in Event
    BY <2>1
  <2>3. Len(Live(t)) \in Nat
    BY <2>1
  <2>. QED BY <2>1, <2>2, <2>3, EventRecords
<1>1. ASSUME log' \subseteq log, seqs' = seqs, bus' = bus,
             pc'[t] \notin Written, pc'[t] # "reseeded"
      PROVE  SoleRows(t)' /\ SoleChannel(t)'
  BY <1>1 DEF SoleRows, SoleChannel, Live, Written
<1>2. CASE Emit(t) \/ NextSeqMiss(t)
  BY <1>1, <1>2 DEF Emit, NextSeqMiss, TypeInv, TypeOK, Written
<1>3. CASE NextSeqCached(t)
  <2>. DEFINE k == seqs[Home[t]] + 1
  <2>1. k \in Nat /\ k > 0 /\ Allocate(t, k) /\ log' = log /\ bus' = bus
    BY <1>0, <1>3 DEF NextSeqCached
  <2>2. \A e \in log : e.seq < k
    BY <1>0, <1>3 DEF NextSeqCached, SoleRows
  <2>3. \A i \in 1..Len(Live(t)) : Live(t)[i].seq < k
    <3>1. \A i \in 1..Len(Live(t)) : Live(t)[i].seq <= seqs[Home[t]] /\ Live(t)[i].seq \in Nat
      BY <1>0 DEF SoleChannel
    <3>2. \A m \in Nat : m <= seqs[Home[t]] => m < k
      BY <1>0
    <3>. QED BY <3>1, <3>2
  <2>. HIDE DEF k
  <2>. QED BY <2>1, <2>2, <2>3, SoleAllocates
<1>4. CASE ReadHighWater(t)
  <2>1. /\ seeded'[t] = HighWater /\ pc'[t] = "reseeded"
        /\ seqs' = seqs /\ log' = log /\ bus' = bus /\ ev' = ev
    BY <1>4 DEF ReadHighWater, TypeInv, TypeOK
  <2>2. \A e \in log : e.seq <= HighWater
    BY HighWaterBounds
  <2>. QED BY <2>1, <2>2 DEF SoleRows, SoleChannel, Live, Written
<1>5. CASE ReadHighWaterFails(t)
  BY <1>5 DEF ReadHighWaterFails
<1>6. CASE NextSeqSeeded(t)
  <2>. DEFINE k == IF seqs[Home[t]] # 0 THEN seqs[Home[t]] + 1 ELSE seeded[t] + 1
  <2>1. k \in Nat /\ k > 0 /\ Allocate(t, k) /\ log' = log /\ bus' = bus
    BY <1>0, <1>6 DEF NextSeqSeeded
  <2>2. \A e \in log : e.seq < k
    BY <1>0, <1>6 DEF NextSeqSeeded, SoleRows
  <2>3. \A i \in 1..Len(Live(t)) : Live(t)[i].seq < k
    <3>1. CASE seqs[Home[t]] # 0
      BY <1>0, <3>1 DEF SoleChannel
    <3>2. CASE seqs[Home[t]] = 0
      <4>1. Live(t) = <<>> BY <3>2 DEF SoleChannel
      <4>. QED BY <4>1
    <3>. QED BY <3>1, <3>2
  <2>. HIDE DEF k
  <2>. QED BY <2>1, <2>2, <2>3, SoleAllocates
<1>7. ASSUME pc[t] = "append", log' = log \/ log' = log \cup {ev[t]},
             pc'[t] \in {"publish", "publish_lost"}, seqs' = seqs, bus' = bus, ev' = ev
      PROVE  SoleRows(t)' /\ SoleChannel(t)'
  <2>1. ev[t].seq <= seqs[Home[t]]
    BY <1>7 DEF SoleChannel, Written
  <2>2. SoleRows(t)'
    BY <1>7, <2>1 DEF SoleRows
  <2>3. SoleChannel(t)'
    BY <1>7 DEF SoleChannel, Written, Live
  <2>. QED BY <2>2, <2>3
<1>8. CASE AppendOk(t)
  BY <1>7, <1>8 DEF AppendOk, TypeInv, TypeOK
<1>9. CASE AppendConflict(t) \/ AppendConflictExhausted(t)
  <2>1. pc[t] = "append" /\ ev[t].seq \in SeqsOf(log)
    BY <1>9 DEF AppendConflict, AppendConflictExhausted, Conflicts
  <2>2. PICK e \in log : e.seq = ev[t].seq
    BY <2>1 DEF SeqsOf
  <2>3. e.seq < ev[t].seq
    BY <2>1 DEF SoleRows
  <2>. QED BY <1>0, <2>2, <2>3
<1>10. CASE AppendFails(t)
  <2>1. /\ pc[t] = "append" /\ seqs' = seqs /\ bus' = bus /\ ev' = ev
        /\ pc'[t] \in {"publish", "publish_lost"}
    BY <1>10 DEF AppendFails, AppendError, TypeInv, TypeOK
  <2>2. log' = log \/ log' = log \cup {ev[t]}
    BY <1>10 DEF AppendFails
  <2>. QED BY <1>7, <2>1, <2>2
<1>11. CASE Publish(t) \/ PublishLost(t)
  <2>1. /\ pc[t] \in Written /\ seqs' = seqs /\ log' = log
        /\ pc'[t] \in {"idle", "next_seq"}
    BY <1>11 DEF Publish, PublishLost, Written, TypeInv, TypeOK
  <2>2. bus' = [bus EXCEPT ![Home[t]] = Append(@, ev[t])] /\ bus \in [Replicas -> Seq(Event)]
    BY <1>11 DEF Publish, PublishLost, TypeInv, TypeOK
  <2>3. Live(t)' = Append(Live(t), ev[t])
    BY <2>2 DEF Live
  <2>4. \A i \in 1..Len(Live(t)) : Live(t)[i].seq < ev[t].seq
    BY <2>1 DEF SoleChannel
  <2>5. /\ Ascends(Live(t)') /\ Len(Live(t)') = Len(Live(t)) + 1
        /\ \A i \in 1..Len(Live(t)) : Live(t)'[i] = Live(t)[i]
        /\ Live(t)'[Len(Live(t)) + 1] = ev[t]
    BY <1>0, <2>3, <2>4, AppendAscends DEF SoleChannel
  <2>6. ev[t].seq <= seqs[Home[t]] /\ ev[t].seq > 0
    BY <2>1 DEF SoleChannel
  <2>7. \A i \in 1..Len(Live(t)') : Live(t)'[i].seq <= seqs[Home[t]]
    <3>. SUFFICES ASSUME NEW i \in 1..Len(Live(t)') PROVE Live(t)'[i].seq <= seqs[Home[t]]
      BY Zenon
    <3>1. i \in 1..Len(Live(t)) + 1 /\ Len(Live(t)) \in Nat
      BY <1>0, <2>5
    <3>2. i \in 1..Len(Live(t)) \/ i = Len(Live(t)) + 1
      BY <3>1
    <3>. QED BY <2>5, <2>6, <3>2 DEF SoleChannel
  <2>8. seqs[Home[t]] # 0
    BY <1>0, <2>6
  <2>9. SoleChannel(t)'
    BY <2>1, <2>5, <2>7, <2>8 DEF SoleChannel, Written
  <2>10. SoleRows(t)'
    BY <2>1 DEF SoleRows
  <2>. QED BY <2>9, <2>10
<1>. QED BY <1>2, <1>3, <1>4, <1>5, <1>6, <1>8, <1>9, <1>10, <1>11 DEF Step

(***************************************************************************)
(* Calls of emit and failed reads are only ever counted up.                 *)
(***************************************************************************)
LEMMA CountsGrow ==
    ASSUME TypeInv, [Next]_vars
    PROVE  /\ \A u \in Tasks : emitted[u] > 0 => emitted'[u] > 0
           /\ \A u \in Tasks : emitted'[u] = 0 => emitted[u] = 0
           /\ \A u \in Tasks : Emit(u) => emitted'[u] > 0
           /\ readFaults' = 0 => readFaults = 0
<1>. USE DEF faultVars
<1>1. \A u \in Tasks : emitted[u] \in Nat /\ emitted'[u] \in Nat /\ emitted'[u] >= emitted[u]
  <2>1. emitted \in [Tasks -> Nat]
    BY DEF TypeInv, TypeOK
  <2>2. emitted' = emitted \/ \E t \in Tasks : emitted' = [emitted EXCEPT ![t] = @ + 1]
    BY DEF Next, Step, Emit, NextSeqCached, NextSeqMiss, ReadHighWater, ReadHighWaterFails,
       NextSeqSeeded, AppendOk, AppendConflict, AppendConflictExhausted, AppendFails,
       Publish, PublishLost, Crash, Prune, vars
  <2>3. CASE emitted' = emitted
    BY <2>1, <2>3
  <2>4. ASSUME NEW t \in Tasks, emitted' = [emitted EXCEPT ![t] = @ + 1]
        PROVE  \A u \in Tasks : emitted[u] \in Nat /\ emitted'[u] \in Nat /\ emitted'[u] >= emitted[u]
    <3>. SUFFICES ASSUME NEW u \in Tasks
                  PROVE  emitted[u] \in Nat /\ emitted'[u] \in Nat /\ emitted'[u] >= emitted[u]
      OBVIOUS
    <3>1. emitted[u] \in Nat /\ (emitted'[u] = emitted[u] \/ emitted'[u] = emitted[u] + 1)
      BY <2>1, <2>4
    <3>. QED BY <3>1
  <2>. QED BY <2>2, <2>3, <2>4
<1>3. /\ \A u \in Tasks : emitted[u] > 0 => emitted'[u] > 0
      /\ \A u \in Tasks : emitted'[u] = 0 => emitted[u] = 0
  BY <1>1
<1>2. readFaults' = 0 => readFaults = 0
  <2>1. readFaults \in Nat
    BY DEF TypeInv, TypeOK
  <2>2. readFaults' = readFaults \/ readFaults' = readFaults + 1
    BY DEF Next, Step, Emit, NextSeqCached, NextSeqMiss, ReadHighWater, ReadHighWaterFails,
       NextSeqSeeded, AppendOk, AppendConflict, AppendConflictExhausted, AppendFails,
       Publish, PublishLost, Crash, Prune, vars
  <2>. QED BY <2>1, <2>2
<1>4. ASSUME NEW u \in Tasks, Emit(u) PROVE emitted'[u] > 0
  <2>1. emitted'[u] = emitted[u] + 1
    BY <1>4 DEF Emit, TypeInv, TypeOK
  <2>. QED BY <1>1, <2>1
<1>. QED BY <1>2, <1>3, <1>4

(***************************************************************************)
(* A task that stays the sole writer was it before, and no other one moves. *)
(***************************************************************************)
LEMMA SoleActsAlone ==
    ASSUME TypeInv, Busy, [Next]_vars, NEW t \in Tasks, Sole(t)'
    PROVE  /\ Sole(t)
           /\ \A u \in Tasks : u # t => ~ (Emit(u) \/ Step(u))
<1>1. Sole(t)
  BY CountsGrow DEF Sole
<1>. SUFFICES ASSUME NEW u \in Tasks, u # t PROVE ~ (Emit(u) \/ Step(u))
  BY <1>1
<1>2. emitted[u] = 0 /\ emitted'[u] = 0
  BY <1>1 DEF Sole
<1>3. pc[u] = "idle"
  BY <1>2 DEF Busy
<1>4. ~ Step(u)
  BY <1>3 DEF Step, NextSeqCached, NextSeqMiss, ReadHighWater, ReadHighWaterFails,
     NextSeqSeeded, AppendOk, AppendConflict, AppendConflictExhausted, AppendFails,
     Publish, PublishLost
<1>5. ~ Emit(u)
  BY <1>2, CountsGrow
<1>. QED BY <1>4, <1>5

(***************************************************************************)
(* Every step of the daemon.                                                *)
(***************************************************************************)
LEMMA SoleStep == TypeInv /\ LogGood /\ SoleInv /\ [Next]_vars => SoleInv'
<1>. SUFFICES ASSUME TypeInv, LogGood, SoleInv, [Next]_vars PROVE SoleInv'
  OBVIOUS
<1>. USE DEF faultVars
<1>0. /\ \A u \in Tasks : emitted[u] > 0 => emitted'[u] > 0
      /\ \A u \in Tasks : emitted'[u] = 0 => emitted[u] = 0
      /\ \A u \in Tasks : Emit(u) => emitted'[u] > 0
      /\ readFaults' = 0 => readFaults = 0
  BY CountsGrow
<1>3. Busy'
  <2>1. ASSUME NEW t \in Tasks, Emit(t) PROVE Busy'
    <3>1. emitted'[t] > 0 /\ \A u \in Tasks \ {t} : pc'[u] = pc[u]
      BY <1>0, <2>1 DEF Emit, TypeInv, TypeOK
    <3>. QED BY <1>0, <3>1 DEF SoleInv, Busy
  <2>2. ASSUME NEW t \in Tasks, Step(t) PROVE Busy'
    <3>1. pc[t] # "idle" /\ \A u \in Tasks \ {t} : pc'[u] = pc[u]
      BY <2>2 DEF Step, NextSeqCached, NextSeqMiss, ReadHighWater, ReadHighWaterFails, Allocate,
         NextSeqSeeded, AppendOk, AppendConflict, AppendConflictExhausted, AppendFails, AppendError,
         Publish, PublishLost, TypeInv, TypeOK
    <3>. QED BY <1>0, <3>1 DEF SoleInv, Busy
  <2>3. ASSUME \A u \in Tasks : pc'[u] = pc[u] \/ pc'[u] = "idle" PROVE Busy'
    BY <1>0, <2>3 DEF SoleInv, Busy
  <2>4. ASSUME NEW r \in Replicas, Crash(r) PROVE Busy'
    BY <2>3, <2>4 DEF Crash
  <2>5. CASE Prune \/ UNCHANGED vars
    BY <2>3, <2>5 DEF Prune, vars
  <2>. QED BY <2>1, <2>2, <2>4, <2>5 DEF Next
<1>4. BusOwned'
  <2>1. ASSUME NEW t \in Tasks, Emit(t) \/ Step(t) PROVE BusOwned'
    <3>. SUFFICES ASSUME NEW r \in Replicas, bus'[r] # <<>>
                  PROVE  \E u \in Tasks : Home[u] = r /\ emitted'[u] > 0
      BY DEF BusOwned
    <3>1. CASE bus'[r] = bus[r]
      BY <1>0, <3>1 DEF SoleInv, BusOwned
    <3>2. CASE pc[t] \in {"publish", "publish_lost"} /\ r = Home[t]
      BY <1>0, <3>2 DEF SoleInv, Busy
    <3>. QED BY <2>1, <3>1, <3>2, BusGrows
  <2>2. ASSUME \A r \in Replicas : bus'[r] = bus[r] \/ bus'[r] = <<>> PROVE BusOwned'
    BY <1>0, <2>2 DEF SoleInv, BusOwned
  <2>3. ASSUME NEW r \in Replicas, Crash(r) PROVE BusOwned'
    BY <2>2, <2>3 DEF Crash, TypeInv, TypeOK
  <2>4. CASE Prune \/ UNCHANGED vars
    BY <2>2, <2>4 DEF Prune, vars
  <2>. QED BY <2>1, <2>3, <2>4 DEF Next
<1>5. ASSUME readFaults' = 0, NEW t \in Tasks, Sole(t)' PROVE SoleRows(t)' /\ SoleChannel(t)'
  <2>1. Sole(t) /\ readFaults = 0
    BY <1>0, <1>5, SoleActsAlone DEF SoleInv
  <2>2. SoleRows(t) /\ SoleChannel(t)
    BY <2>1 DEF SoleInv, SoleSound
  <2>3. \A u \in Tasks : u # t => ~ (Emit(u) \/ Step(u))
    BY <1>5, SoleActsAlone DEF SoleInv
  <2>4. CASE Emit(t) \/ Step(t)
    BY <1>5, <2>1, <2>2, <2>4, SoleTakesStep
  <2>5. ASSUME NEW r \in Replicas, Crash(r) PROVE SoleRows(t)' /\ SoleChannel(t)'
    <3>1. CASE Home[t] = r
      <4>1. /\ seqs'[Home[t]] = 0 /\ bus'[Home[t]] = <<>> /\ pc'[t] = "idle"
        BY <2>5, <3>1 DEF Crash, TypeInv, TypeOK
      <4>2. Live(t)' = <<>> /\ Len(<<>>) = 0
        BY <4>1 DEF Live
      <4>3. SoleRows(t)'
        BY <4>1 DEF SoleRows
      <4>4. SoleChannel(t)'
        BY <4>1, <4>2 DEF SoleChannel, Ascends, Written
      <4>. QED BY <4>3, <4>4
    <3>2. CASE Home[t] # r
      <4>1. /\ seqs'[Home[t]] = seqs[Home[t]] /\ bus'[Home[t]] = bus[Home[t]] /\ pc'[t] = pc[t]
            /\ ev'[t] = ev[t] /\ seeded'[t] = seeded[t] /\ log' = log
        BY <2>5, <3>2 DEF Crash, TypeInv, TypeOK
      <4>. QED BY <2>2, <4>1 DEF SoleRows, SoleChannel, Live
    <3>. QED BY <3>1, <3>2
  <2>6. CASE Prune \/ UNCHANGED vars
    <3>1. /\ log' \subseteq log /\ seqs' = seqs /\ bus' = bus /\ pc' = pc /\ ev' = ev /\ seeded' = seeded
      BY <2>6 DEF Prune, vars
    <3>. QED BY <2>2, <3>1 DEF SoleRows, SoleChannel, Live
  <2>. QED BY <2>3, <2>4, <2>5, <2>6 DEF Next
<1>. QED BY <1>3, <1>4, <1>5 DEF SoleInv, SoleSound

----------------------------------------------------------------------------
(***************************************************************************)
(* Why a connection misses nothing of a sole writer. A seq that may still   *)
(* come is above the mark of every connection of the writer's replica,      *)
(* below its floor, or one that retention has passed before. And a row the  *)
(* connection may be owed was sent if it is up to the mark, and is still to *)
(* come over the channel, or about to be published, if it is above.         *)
(***************************************************************************)
Active(s) == phase[s] \in {"tailing", "lagged"}

Fresh(s, k) == k < From[s] \/ k <= prunedTo \/ k > tail[s].last

MarkBelow(t, s) ==
    /\ seqs[Home[t]] = 0 =>
          \A k \in Nat : k > 0 => Fresh(s, k) \/ \E e \in log : k <= e.seq
    /\ seqs[Home[t]] = 0 /\ pc[t] = "reseeded" =>
          \A k \in Nat : k > seeded[t] => Fresh(s, k)
    /\ seqs[Home[t]] # 0 => \A k \in Nat : k > seqs[Home[t]] => Fresh(s, k)
    /\ pc[t] = "append" => Fresh(s, ev[t].seq)

Owed(s, e) == e \in log /\ e.seq >= From[s] /\ e.seq > prunedTo

SentToMark(s) == \A e \in log : Owed(s, e) /\ e.seq <= tail[s].last => e \in Range(Out(s))

ReadToMark(t, s) ==
    \A i \in 1..pos[s] : Owed(s, Live(t)[i]) => Live(t)[i].seq <= tail[s].last

RestToCome(t, s) ==
    \A e \in log : Owed(s, e) /\ e.seq > tail[s].last =>
        \/ \E i \in (pos[s] + 1)..Len(Live(t)) : Live(t)[i] = e
        \/ pc[t] \in {"publish", "publish_lost"} /\ ev[t] = e

Filled(t, s) ==
    /\ Active(s) => SentToMark(s)
    /\ phase[s] = "tailing" => ReadToMark(t, s) /\ RestToCome(t, s)

Kept(t, s) ==
    /\ Active(s) => MarkBelow(t, s)
    /\ s \notin blind => Filled(t, s)

GapSound(t, s) == Sole(t) /\ SubHome[s] = Home[t] => Kept(t, s)

GapInv == readFaults = 0 => \A t \in Tasks, s \in Subs : GapSound(t, s)

(***************************************************************************)
(* The mark of a connection of the sole writer's replica moves, if at all,  *)
(* below the floor, to a row of the log, or to an event of the channel.     *)
(***************************************************************************)
LEMMA MarkMoves ==
    ASSUME TypeInv, LogGood, UNCHANGED vars, NEW t \in Tasks, NEW s \in Subs,
           SoleRows(t), SoleChannel(t), tail'[s].last \in Nat,
           \/ MarkBelow(t, s) /\ tail'[s].last = tail[s].last
           \/ \A k \in Nat : k > 0 /\ k >= From[s] => k > tail'[s].last
           \/ \E e \in log : tail'[s].last = e.seq
           \/ \E i \in 1..Len(Live(t)) : tail'[s].last = Live(t)[i].seq
    PROVE  MarkBelow(t, s)'
<1>. DEFINE m == tail'[s].last
<1>0. /\ seqs[Home[t]] \in Nat /\ seeded[t] \in Nat /\ ev[t].seq \in Nat /\ From[s] \in Nat
      /\ \A e \in log : e.seq \in Nat
      /\ \A i \in 1..Len(Live(t)) : Live(t)[i].seq \in Nat
      /\ Len(Live(t)) \in Nat
  <2>1. /\ seqs[Home[t]] \in Nat /\ seeded[t] \in Nat /\ ev[t] \in Event /\ log \subseteq Event
        /\ Live(t) \in Seq(Event)
    BY DEF TypeInv, TypeOK, Live
  <2>2. \A i \in 1..Len(Live(t)) : Live(t)[i] \in Event
    BY <2>1
  <2>3. Len(Live(t)) \in Nat
    BY <2>1
  <2>. QED BY <2>1, <2>2, <2>3, EventRecords
<1>1. /\ seqs' = seqs /\ seeded' = seeded /\ ev' = ev /\ pc' = pc /\ log' = log
      /\ prunedTo' = prunedTo
  BY DEF vars
<1>2. CASE MarkBelow(t, s) /\ tail'[s].last = tail[s].last
  BY <1>1, <1>2 DEF MarkBelow, Fresh
<1>3. ev[t].seq > 0 \/ pc[t] # "append"
  BY DEF LogGood
<1>4. CASE \A k \in Nat : k > 0 /\ k >= From[s] => k > m
  <2>1. \A k \in Nat : k > 0 => k < From[s] \/ k > m
    BY <1>0, <1>4
  <2>2. \A k \in Nat : k > 0 => Fresh(s, k)'
    BY <2>1 DEF Fresh
  <2>. HIDE DEF m
  <2>3. \A k \in Nat : k > seeded[t] => Fresh(s, k)'
    BY <1>0, <2>2
  <2>4. \A k \in Nat : k > seqs[Home[t]] => Fresh(s, k)'
    BY <1>0, <2>2
  <2>. QED BY <1>0, <1>1, <1>3, <2>2, <2>3, <2>4 DEF MarkBelow
<1>5. ASSUME NEW e \in log, m = e.seq PROVE MarkBelow(t, s)'
  <2>1. \A k \in Nat : Fresh(s, k)' \/ k <= e.seq
    BY <1>0, <1>5 DEF Fresh
  <2>2. seqs[Home[t]] = 0 /\ pc[t] = "reseeded" => \A k \in Nat : k > seeded[t] => Fresh(s, k)'
    <3>1. seqs[Home[t]] = 0 /\ pc[t] = "reseeded" => e.seq <= seeded[t]
      BY DEF SoleRows
    <3>. QED BY <1>0, <2>1, <3>1
  <2>3. seqs[Home[t]] # 0 => \A k \in Nat : k > seqs[Home[t]] => Fresh(s, k)'
    <3>1. seqs[Home[t]] # 0 => e.seq <= seqs[Home[t]]
      BY DEF SoleRows
    <3>. SUFFICES ASSUME seqs[Home[t]] # 0, NEW k \in Nat, k > seqs[Home[t]]
                  PROVE  Fresh(s, k)'
      OBVIOUS
    <3>2. ~ (k <= e.seq)
      BY <1>0, <3>1
    <3>. QED BY <2>1, <3>2
  <2>4. pc[t] = "append" => Fresh(s, ev[t].seq)'
    <3>1. pc[t] = "append" => e.seq < ev[t].seq
      BY DEF SoleRows
    <3>. QED BY <1>0, <1>1, <1>5, <3>1 DEF Fresh
  <2>. QED BY <1>1, <2>1, <2>2, <2>3, <2>4 DEF MarkBelow
<1>6. ASSUME NEW i \in 1..Len(Live(t)), m = Live(t)[i].seq PROVE MarkBelow(t, s)'
  <2>1. seqs[Home[t]] # 0
    <3>1. Live(t) # <<>> BY <1>0
    <3>. QED BY <3>1 DEF SoleChannel
  <2>2. m <= seqs[Home[t]]
    BY <1>6 DEF SoleChannel
  <2>3. \A k \in Nat : k > seqs[Home[t]] => Fresh(s, k)'
    BY <1>0, <2>2 DEF Fresh
  <2>4. pc[t] = "append" => Fresh(s, ev[t].seq)'
    <3>1. pc[t] = "append" => m < ev[t].seq
      BY <1>6 DEF SoleChannel, Written
    <3>. QED BY <1>0, <1>1, <3>1 DEF Fresh
  <2>. QED BY <1>1, <2>1, <2>3, <2>4 DEF MarkBelow
<1>. QED BY <1>2, <1>4, <1>5, <1>6

(***************************************************************************)
(* The steps of the sole writer: what they allocate or write is fresh.      *)
(***************************************************************************)
LEMMA MarkStaysBelow ==
    ASSUME TypeInv, LogGood, NEW t \in Tasks, NEW s \in Subs, SoleRows(t), MarkBelow(t, s),
           Emit(t) \/ Step(t), UNCHANGED subVars, readFaults' = 0, readFaults = 0
    PROVE  MarkBelow(t, s)'
<1>. USE DEF faultVars
<1>0. /\ seqs[Home[t]] \in Nat /\ seeded[t] \in Nat /\ ev[t] \in Event /\ ev[t].seq \in Nat
      /\ \A e \in log : e.seq \in Nat
      /\ \A k : Fresh(s, k)' <=> k < From[s] \/ k <= prunedTo' \/ k > tail[s].last
      /\ prunedTo' = prunedTo
  <2>1. /\ seqs[Home[t]] \in Nat /\ seeded[t] \in Nat /\ ev[t] \in Event /\ log \subseteq Event
    BY DEF TypeInv, TypeOK
  <2>2. prunedTo' = prunedTo
    BY DEF Step, Emit, NextSeqCached, NextSeqMiss, ReadHighWater, ReadHighWaterFails,
       NextSeqSeeded, AppendOk, AppendConflict, AppendConflictExhausted, AppendFails,
       Publish, PublishLost
  <2>3. tail' = tail
    BY DEF subVars
  <2>. QED BY <2>1, <2>2, <2>3, EventRecords DEF Fresh
<1>a. \A k : Fresh(s, k)' <=> Fresh(s, k)
  BY <1>0 DEF Fresh
<1>1. ASSUME log \subseteq log', seqs' = seqs, pc'[t] \notin {"append", "reseeded"}
      PROVE  MarkBelow(t, s)'
  BY <1>1, <1>a DEF MarkBelow
<1>2. ASSUME NEW k \in Nat, k > 0, Allocate(t, k), \A j \in Nat : j >= k => Fresh(s, j)
      PROVE  MarkBelow(t, s)'
  <2>1. seqs'[Home[t]] = k /\ ev'[t].seq = k /\ pc'[t] = "append"
    BY <1>2 DEF Allocate, TypeInv, TypeOK, Event
  <2>2. \A j \in Nat : j > k => Fresh(s, j)'
    BY <1>2, <1>a
  <2>3. Fresh(s, k)'
    BY <1>2, <1>a
  <2>. QED BY <1>2, <2>1, <2>2, <2>3 DEF MarkBelow
<1>3. CASE Emit(t) \/ NextSeqMiss(t) \/ AppendOk(t) \/ Publish(t) \/ PublishLost(t)
  BY <1>1, <1>3 DEF Emit, NextSeqMiss, AppendOk, Publish, PublishLost, TypeInv, TypeOK
<1>4. CASE NextSeqCached(t)
  <2>. DEFINE k == seqs[Home[t]] + 1
  <2>1. k \in Nat /\ k > 0 /\ Allocate(t, k) /\ seqs[Home[t]] # 0
    BY <1>0, <1>4 DEF NextSeqCached
  <2>2. \A j \in Nat : j >= k => Fresh(s, j)
    <3>1. \A j \in Nat : j >= k => j > seqs[Home[t]]
      BY <1>0
    <3>. QED BY <2>1, <3>1 DEF MarkBelow
  <2>. HIDE DEF k
  <2>. QED BY <1>2, <2>1, <2>2
<1>5. CASE ReadHighWater(t)
  <2>1. /\ seeded'[t] = HighWater /\ pc'[t] = "reseeded" /\ seqs' = seqs /\ log' = log
    BY <1>5 DEF ReadHighWater, TypeInv, TypeOK
  <2>2. HighWater \in Nat /\ \A e \in log : e.seq <= HighWater
    BY HighWaterBounds
  <2>3. ASSUME seqs[Home[t]] = 0, NEW k \in Nat, k > HighWater PROVE Fresh(s, k)'
    <3>1. k > 0 /\ \A e \in log : ~ (k <= e.seq)
      BY <1>0, <2>2, <2>3
    <3>. QED BY <1>a, <2>3, <3>1 DEF MarkBelow
  <2>. QED BY <1>a, <2>1, <2>3 DEF MarkBelow
<1>6. CASE ReadHighWaterFails(t)
  BY <1>6 DEF ReadHighWaterFails
<1>7. CASE NextSeqSeeded(t)
  <2>. DEFINE k == IF seqs[Home[t]] # 0 THEN seqs[Home[t]] + 1 ELSE seeded[t] + 1
  <2>1. k \in Nat /\ k > 0 /\ Allocate(t, k) /\ pc[t] = "reseeded"
    BY <1>0, <1>7 DEF NextSeqSeeded
  <2>2. \A j \in Nat : j >= k => Fresh(s, j)
    <3>1. CASE seqs[Home[t]] # 0
      <4>1. \A j \in Nat : j >= k => j > seqs[Home[t]]
        BY <1>0, <3>1
      <4>. HIDE DEF k
      <4>. QED BY <3>1, <4>1 DEF MarkBelow
    <3>2. CASE seqs[Home[t]] = 0
      <4>1. \A j \in Nat : j >= k => j > seeded[t]
        BY <1>0, <3>2
      <4>. HIDE DEF k
      <4>. QED BY <2>1, <3>2, <4>1 DEF MarkBelow
    <3>. QED BY <3>1, <3>2
  <2>. HIDE DEF k
  <2>. QED BY <1>2, <2>1, <2>2
<1>8. CASE AppendConflict(t) \/ AppendConflictExhausted(t)
  <2>1. pc[t] = "append" /\ ev[t].seq \in SeqsOf(log)
    BY <1>8 DEF AppendConflict, AppendConflictExhausted, Conflicts
  <2>2. PICK e \in log : e.seq = ev[t].seq
    BY <2>1 DEF SeqsOf
  <2>3. e.seq < ev[t].seq
    BY <2>1 DEF SoleRows
  <2>. QED BY <1>0, <2>2, <2>3
<1>9. CASE AppendFails(t)
  <2>1. log \subseteq log' /\ seqs' = seqs /\ pc'[t] \notin {"append", "reseeded"}
    BY <1>9 DEF AppendFails, AppendError, TypeInv, TypeOK
  <2>. QED BY <1>1, <2>1
<1>. QED BY <1>3, <1>4, <1>5, <1>6, <1>7, <1>8, <1>9 DEF Step

(***************************************************************************)
(* What the sole writer appends is above the mark and then published.       *)
(***************************************************************************)
LEMMA FilledStays ==
    ASSUME TypeInv, LogGood, ConnInv, NEW t \in Tasks, NEW s \in Subs, SubHome[s] = Home[t],
           SoleRows(t), SoleChannel(t), Active(s) => MarkBelow(t, s), Filled(t, s),
           Emit(t) \/ Step(t), UNCHANGED subVars
    PROVE  Filled(t, s)'
<1>. USE DEF faultVars
<1>0. /\ ev[t] \in Event /\ ev[t].seq \in Nat
      /\ Live(t) \in Seq(Event) /\ Len(Live(t)) \in Nat
      /\ \A i \in 1..Len(Live(t)) : Live(t)[i].seq \in Nat
      /\ pos[s] \in Nat /\ pos[s] <= Len(Live(t))
      /\ From[s] \in Nat /\ prunedTo \in Nat /\ tail[s].last \in Nat
  <2>1. ev[t] \in Event /\ Live(t) \in Seq(Event) /\ prunedTo \in Nat
    BY DEF TypeInv, TypeOK, Live
  <2>2. pos[s] \in Nat /\ pos[s] <= Len(Live(t)) /\ tail[s].last \in Nat
    BY DEF ConnInv, SubTypes, Channel, Live, TailType
  <2>3. \A i \in 1..Len(Live(t)) : Live(t)[i] \in Event
    BY <2>1
  <2>4. Len(Live(t)) \in Nat
    BY <2>1
  <2>. QED BY <2>1, <2>2, <2>3, <2>4, EventRecords
<1>1. /\ phase' = phase /\ pos' = pos /\ tail' = tail
      /\ prunedTo' = prunedTo /\ Active(s)' = Active(s)
  <2>1. prunedTo' = prunedTo
    BY DEF Step, Emit, NextSeqCached, NextSeqMiss, ReadHighWater, ReadHighWaterFails,
       NextSeqSeeded, AppendOk, AppendConflict, AppendConflictExhausted, AppendFails,
       Publish, PublishLost
  <2>. QED BY <2>1 DEF subVars, Active
<1>2. CASE /\ log' = log /\ Live(t)' = Live(t)
           /\ pc[t] \notin {"publish", "publish_lost"}
  <2>1. Live(t)' = Live(t) /\ log' = log
    BY <1>2
  <2>. QED BY <1>1, <1>2 DEF Filled, SentToMark, ReadToMark, RestToCome, Owed, Out
<1>3. CASE /\ pc[t] = "append" /\ log' = log \cup {ev[t]} /\ Live(t)' = Live(t) /\ ev' = ev
           /\ pc'[t] \in {"publish", "publish_lost"}
  <2>1. Active(s) => Fresh(s, ev[t].seq)
    BY <1>3 DEF MarkBelow
  <2>2. Active(s) => SentToMark(s)'
    <3>. SUFFICES ASSUME Active(s), NEW e \in log', Owed(s, e)', e.seq <= tail[s].last
                  PROVE  e \in Range(Out(s))
      BY <1>1 DEF SentToMark, Out
    <3>1. CASE e \in log
      BY <1>1, <3>1 DEF Filled, SentToMark, Owed
    <3>2. CASE e = ev[t]
      BY <1>0, <1>1, <2>1, <3>2 DEF Fresh, Owed
    <3>. QED BY <1>3, <3>1, <3>2
  <2>3. \A i \in 1..pos[s] : Live(t)[i] # ev[t]
    <3>1. \A i \in 1..pos[s] : i \in 1..Len(Live(t))
      BY <1>0
    <3>2. \A i \in 1..Len(Live(t)) : Live(t)[i].seq < ev[t].seq
      BY <1>3 DEF SoleChannel, Written
    <3>. QED BY <1>0, <3>1, <3>2
  <2>4. phase[s] = "tailing" => ReadToMark(t, s)'
    <3>. SUFFICES ASSUME phase[s] = "tailing", NEW i \in 1..pos[s], Owed(s, Live(t)[i])'
                  PROVE  Live(t)[i].seq <= tail[s].last
      BY <1>1, <1>3 DEF ReadToMark
    <3>1. Owed(s, Live(t)[i])
      BY <1>1, <1>3, <2>3 DEF Owed
    <3>. QED BY <3>1 DEF Filled, ReadToMark
  <2>5. phase[s] = "tailing" => RestToCome(t, s)'
    BY <1>1, <1>3 DEF Filled, RestToCome, Owed
  <2>. QED BY <1>1, <2>2, <2>4, <2>5 DEF Filled
<1>4. CASE Publish(t) \/ PublishLost(t)
  <2>1. log' = log
    BY <1>4 DEF Publish, PublishLost
  <2>2. bus' = [bus EXCEPT ![Home[t]] = Append(@, ev[t])] /\ bus \in [Replicas -> Seq(Event)]
    BY <1>4 DEF Publish, PublishLost, TypeInv, TypeOK
  <2>3. Live(t)' = Append(Live(t), ev[t])
    BY <2>2 DEF Live
  <2>4. pc[t] \in Written
    BY <1>4 DEF Publish, PublishLost, Written
  <2>5. /\ Len(Live(t)') = Len(Live(t)) + 1
        /\ \A i \in 1..Len(Live(t)) : Live(t)'[i] = Live(t)[i]
        /\ Live(t)'[Len(Live(t)) + 1] = ev[t]
    BY <1>0, <2>3, <2>4, AppendAscends DEF SoleChannel
  <2>6. SentToMark(s)' <=> SentToMark(s)
    BY <1>1, <2>1 DEF SentToMark, Owed, Out
  <2>7. ReadToMark(t, s) => ReadToMark(t, s)'
    <3>1. \A i \in 1..pos[s] : Live(t)'[i] = Live(t)[i]
      BY <1>0, <2>5
    <3>. QED BY <1>1, <2>1, <3>1 DEF ReadToMark, Owed
  <2>8. RestToCome(t, s) => RestToCome(t, s)'
    <3>. SUFFICES ASSUME RestToCome(t, s), NEW e \in log, Owed(s, e), e.seq > tail[s].last
                  PROVE  \E i \in (pos[s] + 1)..(Len(Live(t)) + 1) : Live(t)'[i] = e
      BY <1>1, <2>1, <2>5 DEF RestToCome, Owed
    <3>1. CASE \E i \in (pos[s] + 1)..Len(Live(t)) : Live(t)[i] = e
      <4>1. PICK i \in (pos[s] + 1)..Len(Live(t)) : Live(t)[i] = e
        BY <3>1
      <4>2. i \in (pos[s] + 1)..(Len(Live(t)) + 1) /\ i \in 1..Len(Live(t))
        BY <1>0
      <4>. QED BY <2>5, <4>1, <4>2
    <3>2. CASE ev[t] = e
      <4>1. Len(Live(t)) + 1 \in (pos[s] + 1)..(Len(Live(t)) + 1)
        BY <1>0
      <4>. QED BY <2>5, <3>2, <4>1
    <3>. QED BY <3>1, <3>2 DEF RestToCome
  <2>. QED BY <1>1, <2>6, <2>7, <2>8 DEF Filled
<1>5. CASE AppendOk(t) \/ AppendFails(t)
  <2>1. /\ pc[t] = "append" /\ bus' = bus /\ ev' = ev
        /\ pc'[t] \in {"publish", "publish_lost"}
        /\ log' = log \/ log' = log \cup {ev[t]}
    BY <1>5 DEF AppendOk, AppendFails, AppendError, TypeInv, TypeOK
  <2>2. Live(t)' = Live(t)
    BY <2>1 DEF Live
  <2>. QED BY <1>2, <1>3, <2>1, <2>2
<1>6. CASE ~ (Publish(t) \/ PublishLost(t) \/ AppendOk(t) \/ AppendFails(t))
  <2>1. /\ log' = log /\ bus' = bus
        /\ pc[t] \notin {"publish", "publish_lost"}
    BY <1>6 DEF Step, Emit, NextSeqCached, NextSeqMiss, ReadHighWater, ReadHighWaterFails,
       NextSeqSeeded, AppendConflict, AppendConflictExhausted
  <2>2. Live(t)' = Live(t)
    BY <2>1 DEF Live
  <2>. QED BY <1>2, <2>1, <2>2
<1>. QED BY <1>4, <1>5, <1>6

(***************************************************************************)
(* The tail a step of s goes on with, once s has read the store.            *)
(***************************************************************************)
LEMMA CaughtUp ==
    ASSUME NEW s \in Subs, NEW t \in Tasks, UNCHANGED <<log, prunedTo, bus>>,
           ConnInv, pos'[s] = pos[s], Live(t) \in Seq(Event), log \subseteq Event,
           SubHome[s] = Home[t], tail'[s].last \in Nat,
           \A e \in log : Owed(s, e) => e.seq <= tail'[s].last /\ e \in Range(Out(s)')
    PROVE  Filled(t, s)'
<1>1. Live(t)' = Live(t) /\ \A e : Owed(s, e)' <=> Owed(s, e)
  BY DEF Live, Owed
<1>2. SentToMark(s)'
  BY <1>1 DEF SentToMark
<1>3. ReadToMark(t, s)'
  BY <1>1 DEF ReadToMark, Owed
<1>4. RestToCome(t, s)'
  <2>1. \A e \in log : e.seq \in Nat
    BY EventRecords
  <2>. QED BY <1>1, <2>1 DEF RestToCome
<1>. QED BY <1>2, <1>3, <1>4 DEF Filled

(***************************************************************************)
(* One live event through the dedup of the Tailer.                          *)
(***************************************************************************)
LEMMA RecvKeeps ==
    ASSUME SourceInv, ConnInv, NEW t \in Tasks, NEW s \in Subs, SubHome[s] = Home[t],
           SoleRows(t), SoleChannel(t), Kept(t, s), Recv(s)
    PROVE  Kept(t, s)'
<1>. DEFINE e == Live(t)[pos[s] + 1]
            tl == OnEvent(tail[s], e)
<1>1. /\ phase[s] = "tailing" /\ pos[s] < Len(Live(t)) /\ pos'[s] = pos[s] + 1
      /\ tail'[s] = tl /\ (phase'[s] = "tailing" \/ phase'[s] = "closed")
      /\ UNCHANGED vars /\ blind' = blind
  BY DEF Recv, Continue, Channel, Live, ConnInv, SubTypes
<1>2. /\ Live(t) \in Seq(Event) /\ Len(Live(t)) \in Nat /\ pos[s] \in Nat
      /\ \A i \in 1..Len(Live(t)) : Live(t)[i] \in Event /\ Live(t)[i].seq \in Nat
      /\ \A f \in log : f \in Event /\ f.seq \in Nat
      /\ tail[s].last \in Nat /\ ev[t].seq \in Nat
  <2>1. Live(t) \in Seq(Event) /\ log \subseteq Event /\ ev[t] \in Event
    BY DEF SourceInv, TypeInv, TypeOK, Live
  <2>2. \A i \in 1..Len(Live(t)) : Live(t)[i] \in Event
    BY <2>1
  <2>3. pos[s] \in Nat /\ tail[s].last \in Nat
    BY DEF ConnInv, SubTypes, TailType
  <2>. QED BY <2>1, <2>2, <2>3, EventRecords
<1>3. pos[s] + 1 \in 1..Len(Live(t)) /\ e \in Event /\ e.seq \in Nat
  BY <1>1, <1>2
<1>4. ConnOK(tail[s], "tailing", From[s]) /\ From[s] \in Nat
  BY <1>1 DEF ConnInv, Conns
<1>. HIDE DEF e
<1>5. /\ Range(tail[s].out) \subseteq Range(tl.out)
      /\ e.seq > tail[s].last => e \in Range(tl.out) /\ tl.last = e.seq
      /\ e.seq <= tail[s].last => tl.last = tail[s].last
      /\ ConnOK(tl, IF tl.open THEN "tailing" ELSE "closed", From[s])
  <2>. DEFINE old == tail[s]
  <2>1. ConnOK(old, "tailing", From[s])
    BY <1>4
  <2>. HIDE DEF old
  <2>2. LET f == OnEvent(old, e) IN
        /\ ConnOK(f, IF f.open THEN "tailing" ELSE "closed", From[s])
        /\ Range(old.out) \subseteq Range(f.out)
        /\ e.seq > old.last => e \in Range(f.out) /\ f.last = e.seq
        /\ e.seq <= old.last => f.last = old.last
        /\ f.last >= old.last
    BY <1>3, <1>4, <2>1, OnEventSound
  <2>. QED BY <2>2 DEF old
<1>. HIDE DEF tl
<1>6. tl.last \in Nat /\ tl.last >= tail[s].last /\ e.seq <= tl.last
  BY <1>2, <1>3, <1>5
<1>7. /\ log' = log /\ Live(t)' = Live(t) /\ pc' = pc /\ ev' = ev
      /\ \A f : Owed(s, f)' <=> Owed(s, f)
  BY <1>1 DEF vars, Live, Owed
<1>8. MarkBelow(t, s)'
  <2>1. MarkBelow(t, s)
    BY <1>1 DEF Kept, Active
  <2>2. e = Live(t)[pos[s] + 1]
    BY DEF e
  <2>3. tl.last = tail[s].last \/ tl.last = Live(t)[pos[s] + 1].seq
    <3>1. e.seq > tail[s].last \/ e.seq <= tail[s].last
      BY <1>2, <1>3
    <3>. HIDE DEF e
    <3>. QED BY <1>5, <2>2, <3>1
  <2>4. TypeInv /\ LogGood
    BY DEF SourceInv
  <2>. QED BY <1>1, <1>3, <1>6, <2>1, <2>3, <2>4, MarkMoves
<1>9. ASSUME s \notin blind PROVE Filled(t, s)'
  <2>1. SentToMark(s) /\ ReadToMark(t, s) /\ RestToCome(t, s)
    BY <1>1, <1>9 DEF Kept, Filled, Active
  <2>2. ASSUME NEW f \in log, Owed(s, f), f.seq > tail[s].last
        PROVE  f = e \/ (f.seq > e.seq /\ (\/ \E i \in (pos[s] + 2)..Len(Live(t)) : Live(t)[i] = f
                                           \/ pc[t] \in {"publish", "publish_lost"} /\ ev[t] = f))
    <3>1. CASE \E i \in (pos[s] + 1)..Len(Live(t)) : Live(t)[i] = f
      <4>1. PICK i \in (pos[s] + 1)..Len(Live(t)) : Live(t)[i] = f
        BY <3>1
      <4>2. CASE i = pos[s] + 1
        BY <4>1, <4>2 DEF e
      <4>3. CASE i # pos[s] + 1
        <5>1. i \in (pos[s] + 2)..Len(Live(t)) /\ i \in 1..Len(Live(t)) /\ pos[s] + 1 < i
          BY <1>2, <4>3
        <5>2. Live(t)[pos[s] + 1].seq < Live(t)[i].seq
          BY <1>3, <5>1 DEF SoleChannel, Ascends
        <5>3. f.seq > e.seq
          BY <1>2, <1>3, <4>1, <5>1, <5>2 DEF e
        <5>. QED BY <4>1, <5>1, <5>3
      <4>. QED BY <4>2, <4>3
    <3>2. CASE pc[t] \in {"publish", "publish_lost"} /\ ev[t] = f
      <4>1. Live(t)[pos[s] + 1].seq < ev[t].seq
        BY <1>3, <3>2 DEF SoleChannel, Written
      <4>2. f.seq > e.seq
        BY <1>2, <1>3, <3>2, <4>1 DEF e
      <4>. QED BY <3>2, <4>2
    <3>. QED BY <2>1, <2>2, <3>1, <3>2 DEF RestToCome
  <2>3. SentToMark(s)'
    <3>. SUFFICES ASSUME NEW f \in log, Owed(s, f), f.seq <= tl.last PROVE f \in Range(tl.out)
      BY <1>1, <1>7 DEF SentToMark, Out
    <3>1. CASE f.seq <= tail[s].last
      BY <1>5, <2>1, <3>1 DEF SentToMark, Out
    <3>2. CASE f.seq > tail[s].last
      <4>1. f = e \/ f.seq > e.seq
        BY <2>2, <3>2
      <4>2. CASE f = e
        BY <1>5, <3>2, <4>2
      <4>3. CASE f.seq > e.seq
        BY <1>2, <1>3, <1>5, <3>2, <4>3
      <4>. QED BY <4>1, <4>2, <4>3
    <3>. QED BY <1>2, <3>1, <3>2
  <2>4. ReadToMark(t, s)'
    <3>. SUFFICES ASSUME NEW i \in 1..(pos[s] + 1), Owed(s, Live(t)[i])
                  PROVE  Live(t)[i].seq <= tl.last
      BY <1>1, <1>7 DEF ReadToMark
    <3>1. CASE i = pos[s] + 1
      BY <1>6, <3>1 DEF e
    <3>2. CASE i # pos[s] + 1
      <4>1. i \in 1..pos[s] /\ i \in 1..Len(Live(t))
        BY <1>1, <1>2, <3>2
      <4>2. Live(t)[i].seq <= tail[s].last
        BY <2>1, <4>1 DEF ReadToMark
      <4>. QED BY <1>2, <1>6, <4>1, <4>2
    <3>. QED BY <3>1, <3>2
  <2>5. RestToCome(t, s)'
    <3>. SUFFICES ASSUME NEW f \in log, Owed(s, f), f.seq > tl.last
                  PROVE  \/ \E i \in (pos[s] + 1 + 1)..Len(Live(t)) : Live(t)[i] = f
                         \/ pc[t] \in {"publish", "publish_lost"} /\ ev[t] = f
      BY <1>1, <1>7 DEF RestToCome
    <3>1. f.seq > tail[s].last /\ f # e
      BY <1>2, <1>3, <1>6
    <3>2. pos[s] + 1 + 1 = pos[s] + 2
      BY <1>2
    <3>. QED BY <2>2, <3>1, <3>2
  <2>. QED BY <2>3, <2>4, <2>5 DEF Filled
<1>. QED BY <1>1, <1>8, <1>9 DEF Kept

(***************************************************************************)
(* A history read: from the floor at first, from above the mark after a lag. *)
(***************************************************************************)
LEMMA ReadKeeps ==
    ASSUME SourceInv, ConnInv, NEW t \in Tasks, NEW s \in Subs, SubHome[s] = Home[t],
           SoleRows(t), SoleChannel(t), Kept(t, s), ReadHistory(s) \/ Heal(s)
    PROVE  Kept(t, s)'
<1>0. /\ TypeInv /\ LogGood /\ DurableSeqUnique
      /\ log \subseteq Event /\ Live(t) \in Seq(Event)
      /\ \A e \in log : e.seq \in Nat /\ e.seq > 0
      /\ From[s] \in Nat /\ tail[s].last \in Nat
  <2>1. TypeInv /\ LogGood /\ DurableSeqUnique
    BY DEF SourceInv, UniqueInv
  <2>2. log \subseteq Event /\ Live(t) \in Seq(Event) /\ tail[s].last \in Nat /\ From[s] \in Nat
    BY <2>1 DEF TypeInv, TypeOK, Live, ConnInv, SubTypes, TailType
  <2>. QED BY <2>1, <2>2, EventRecords DEF LogGood
<1>1. /\ UNCHANGED vars /\ pos' = pos /\ blind' = blind
      /\ UNCHANGED <<log, prunedTo, bus>>
  BY DEF ReadHistory, Heal, vars
<1>2. ASSUME NEW tl, Continue(s, tl), tl.last \in Nat,
             \/ MarkBelow(t, s) /\ tl.last = tail[s].last
             \/ \A k \in Nat : k > 0 /\ k >= From[s] => k > tl.last
             \/ \E e \in log : tl.last = e.seq,
             tl.open /\ s \notin blind =>
                \A e \in log : Owed(s, e) => e.seq <= tl.last /\ e \in Range(tl.out)
      PROVE  Kept(t, s)'
  <2>1. /\ tail'[s] = tl
        /\ phase'[s] = IF tl.open THEN "tailing" ELSE "closed"
    BY <1>2 DEF Continue, ConnInv, SubTypes
  <2>2. MarkBelow(t, s)'
    BY <1>0, <1>1, <1>2, <2>1, MarkMoves
  <2>3. ASSUME tl.open, s \notin blind PROVE Filled(t, s)'
    <3>1. \A e \in log : Owed(s, e) => e.seq <= tail'[s].last /\ e \in Range(Out(s)')
      BY <1>2, <2>1, <2>3 DEF Out
    <3>2. pos'[s] = pos[s] /\ tail'[s].last \in Nat
      BY <1>1, <1>2, <2>1
    <3>. QED BY <1>0, <1>1, <3>1, <3>2, CaughtUp
  <2>4. ASSUME ~ tl.open PROVE Filled(t, s)'
    BY <2>1, <2>4 DEF Filled, Active
  <2>. QED BY <1>1, <2>2, <2>3, <2>4 DEF Kept
<1>3. CASE ReadHistory(s)
  <2>. DEFINE R == Replay(log, From[s])
              tl == Opened(R, From[s])
  <2>1. /\ R \in Seq(Event) /\ Ascends(R)
        /\ \A i \in 1..Len(R) : R[i] \in log /\ R[i].seq >= From[s] /\ R[i].seq > 0
        /\ \A e \in log : e.seq >= From[s] => \E i \in 1..Len(R) : R[i] = e
    BY <1>0, ReplayedLog
  <2>2. Continue(s, tl)
    BY <1>3 DEF ReadHistory
  <2>. HIDE DEF R
  <2>3. /\ ConnOK(tl, IF tl.open THEN "tailing" ELSE "closed", From[s])
        /\ tl.open => \A i \in 1..Len(R) : R[i].seq <= tl.last /\ R[i] \in Range(tl.out)
        /\ \/ \A k \in Nat : k > 0 /\ k >= From[s] => k > tl.last
           \/ \E i \in 1..Len(R) : tl.last = R[i].seq
    BY <1>0, <2>1, OpenedSound
  <2>. HIDE DEF tl
  <2>4. tl.last \in Nat
    BY <2>3 DEF ConnOK, TailType
  <2>5. \/ \A k \in Nat : k > 0 /\ k >= From[s] => k > tl.last
        \/ \E e \in log : tl.last = e.seq
    BY <2>1, <2>3
  <2>6. tl.open => \A e \in log : Owed(s, e) => e.seq <= tl.last /\ e \in Range(tl.out)
    BY <2>1, <2>3 DEF Owed
  <2>. QED BY <1>2, <2>2, <2>4, <2>5, <2>6
<1>4. CASE Heal(s)
  <2>. DEFINE old == tail[s]
              floor == old.last + 1
              R == Replay(log, floor)
              tl == OnLagged(old, R)
  <2>1. old.last \in Nat /\ floor \in Nat /\ floor = old.last + 1
    BY <1>0
  <2>2. /\ R \in Seq(Event) /\ Ascends(R)
        /\ \A i \in 1..Len(R) : R[i] \in log /\ R[i].seq >= floor
        /\ \A e \in log : e.seq >= floor => \E i \in 1..Len(R) : R[i] = e
    <3>. HIDE DEF floor
    <3>. QED BY <1>0, <2>1, ReplayedLog
  <2>3. /\ phase[s] = "lagged" /\ Continue(s, tl)
    BY <1>4 DEF Heal
  <2>4. ConnOK(old, "lagged", From[s])
    BY <2>3 DEF ConnInv, Conns
  <2>a. Out(s) = old.out /\ tail[s] = old
    BY DEF Out
  <2>. HIDE DEF R, floor, old
  <2>5. \A i \in 1..Len(R) : R[i].seq > old.last
    BY <1>0, <2>1, <2>2
  <2>6. /\ ConnOK(tl, IF tl.open THEN "tailing" ELSE "closed", From[s])
        /\ tl.open => \A i \in 1..Len(R) : R[i].seq <= tl.last /\ R[i] \in Range(tl.out)
    BY <1>0, <2>2, <2>4, <2>5, OnLaggedSound
  <2>b. From[s] \in Nat /\ R \in Seq(Event) /\ Ascends(R)
    BY <1>0, <2>2
  <2>7. tl.last >= old.last
    BY <2>4, <2>5, <2>b, OnLaggedSound
  <2>c. Range(old.out) \subseteq Range(tl.out)
    BY <2>4, <2>5, <2>b, OnLaggedSound
  <2>d. tl.last = old.last \/ \E i \in 1..Len(R) : tl.last = R[i].seq
    <3>1. MovesTo(old.last, tl.last, R)
      BY <2>4, <2>5, <2>b, OnLaggedMoves
    <3>. QED BY <3>1, Zenon DEF MovesTo
  <2>. HIDE DEF tl
  <2>8. tl.last \in Nat
    BY <2>6 DEF ConnOK, TailType
  <2>9. MarkBelow(t, s)
    BY <2>3 DEF Kept, Active
  <2>10. ASSUME tl.open, s \notin blind, NEW e \in log, Owed(s, e)
         PROVE  e.seq <= tl.last /\ e \in Range(tl.out)
    <3>1. CASE e.seq <= old.last
      <4>1. e \in Range(old.out)
        BY <2>3, <2>10, <2>a, <3>1 DEF Kept, Filled, SentToMark, Active
      <4>. QED BY <1>0, <2>1, <2>7, <2>8, <2>c, <3>1, <4>1
    <3>2. CASE e.seq > old.last
      <4>1. e.seq >= floor
        BY <1>0, <2>1, <3>2
      <4>. QED BY <2>2, <2>6, <2>10, <4>1
    <3>. QED BY <1>0, <2>1, <3>1, <3>2
  <2>11. \/ MarkBelow(t, s) /\ tl.last = tail[s].last
         \/ \E e \in log : tl.last = e.seq
    BY <2>2, <2>9, <2>a, <2>d
  <2>. QED BY <1>2, <2>3, <2>8, <2>10, <2>11
<1>. QED BY <1>3, <1>4

(***************************************************************************)
(* Every other step of the connection itself.                               *)
(***************************************************************************)
LEMMA ConnKeeps ==
    ASSUME SourceInv, ConnInv, NEW t \in Tasks, NEW s \in Subs, SubHome[s] = Home[t],
           SoleRows(t), SoleChannel(t), Kept(t, s), Subscribe(s) \/ SubStep(s)
    PROVE  Kept(t, s)'
<1>0. TypeInv /\ LogGood /\ From[s] \in Nat /\ tail[s].last \in Nat
  BY DEF SourceInv, ConnInv, SubTypes, TailType
<1>1. CASE Subscribe(s)
  BY <1>1 DEF Subscribe, Kept, Filled, Active, ConnInv, SubTypes
<1>2. CASE ReadHistory(s) \/ Heal(s)
  BY <1>2, ReadKeeps
<1>3. CASE Recv(s)
  BY <1>3, RecvKeeps
<1>4. CASE RecvLagged(s)
  <2>1. /\ phase[s] = "tailing" /\ phase'[s] = "lagged" /\ UNCHANGED vars
        /\ tail' = tail /\ blind' = blind
    BY <1>4 DEF RecvLagged, ConnInv, SubTypes
  <2>2. MarkBelow(t, s)
    BY <2>1 DEF Kept, Active
  <2>3. MarkBelow(t, s)'
    BY <1>0, <2>1, <2>2, MarkMoves
  <2>4. s \notin blind => SentToMark(s)'
    BY <2>1 DEF Kept, Filled, Active, SentToMark, Owed, Out, vars
  <2>. QED BY <2>1, <2>3, <2>4 DEF Kept, Filled, Active
<1>5. CASE ReadHistoryFails(s)
  <2>. DEFINE R == <<>>
              tl == Opened(R, From[s])
  <2>1. R \in Seq(Event) /\ Len(R) = 0
    OBVIOUS
  <2>2. /\ tail'[s] = tl /\ s \in blind' /\ UNCHANGED vars
    BY <1>5 DEF ReadHistoryFails, Continue, ConnInv, SubTypes
  <2>3. /\ Ascends(R) /\ \A i \in 1..Len(R) : R[i].seq >= From[s] /\ R[i].seq > 0
    BY <2>1 DEF Ascends
  <2>. HIDE DEF R
  <2>4. /\ ConnOK(tl, IF tl.open THEN "tailing" ELSE "closed", From[s])
        /\ \/ \A k \in Nat : k > 0 /\ k >= From[s] => k > tl.last
           \/ \E i \in 1..Len(R) : tl.last = R[i].seq
    BY <1>0, <2>1, <2>3, OpenedSound
  <2>. HIDE DEF tl
  <2>5. tl.last \in Nat
    BY <2>4 DEF ConnOK, TailType
  <2>6. \A k \in Nat : k > 0 /\ k >= From[s] => k > tl.last
    BY <2>1, <2>4
  <2>7. MarkBelow(t, s)'
    BY <1>0, <2>2, <2>5, <2>6, MarkMoves
  <2>. QED BY <2>2, <2>7 DEF Kept
<1>6. CASE HealFails(s)
  <2>. DEFINE old == tail[s]
              R == <<>>
              tl == OnLagged(old, R)
  <2>1. R \in Seq(Event) /\ Len(R) = 0
    OBVIOUS
  <2>2. /\ phase[s] = "lagged" /\ tail'[s] = tl /\ s \in blind' /\ UNCHANGED vars
    BY <1>6 DEF HealFails, Continue, ConnInv, SubTypes
  <2>3. /\ Ascends(R) /\ \A i \in 1..Len(R) : R[i].seq > old.last
    BY <2>1 DEF Ascends
  <2>4. ConnOK(old, "lagged", From[s])
    BY <2>2 DEF ConnInv, Conns
  <2>. HIDE DEF R, old
  <2>a. ConnOK(tl, IF tl.open THEN "tailing" ELSE "closed", From[s])
    BY <1>0, <2>1, <2>3, <2>4, OnLaggedSound
  <2>b. From[s] \in Nat /\ R \in Seq(Event)
    BY <1>0, <2>1
  <2>5. tl.last = old.last \/ \E i \in 1..Len(R) : tl.last = R[i].seq
    <3>1. MovesTo(old.last, tl.last, R)
      BY <2>3, <2>4, <2>b, OnLaggedMoves
    <3>. QED BY <3>1, Zenon DEF MovesTo
  <2>6. tl.last = old.last
    BY <2>1, <2>5
  <2>. HIDE DEF tl
  <2>7. MarkBelow(t, s) /\ tail'[s].last = tail[s].last
    BY <2>2, <2>6 DEF Kept, Active, old
  <2>8. MarkBelow(t, s)'
    BY <1>0, <2>2, <2>7, MarkMoves
  <2>. QED BY <2>2, <2>8 DEF Kept
<1>. QED BY <1>1, <1>2, <1>3, <1>4, <1>5, <1>6 DEF SubStep

(***************************************************************************)
(* A step of another connection.                                            *)
(***************************************************************************)
LEMMA OtherKeeps ==
    ASSUME ConnInv, NEW t \in Tasks, NEW s \in Subs, NEW x \in Subs, x # s, Kept(t, s),
           Subscribe(x) \/ SubStep(x)
    PROVE  Kept(t, s)'
<1>1. /\ UNCHANGED vars /\ phase'[s] = phase[s] /\ pos'[s] = pos[s] /\ tail'[s] = tail[s]
      /\ blind \subseteq blind'
  BY DEF ConnInv, SubTypes, Subscribe, SubStep, ReadHistory, ReadHistoryFails, Recv, RecvLagged,
         Heal, HealFails, Continue
<1>2. MarkBelow(t, s)' <=> MarkBelow(t, s)
  BY <1>1 DEF MarkBelow, Fresh, vars
<1>3. /\ bus' = bus /\ log' = log /\ prunedTo' = prunedTo /\ pc' = pc /\ ev' = ev
  BY <1>1 DEF vars
<1>4. /\ \A e : Owed(s, e)' <=> Owed(s, e)
      /\ Live(t)' = Live(t) /\ Out(s)' = Out(s) /\ Active(s)' = Active(s)
  BY <1>1, <1>3 DEF Owed, Live, Out, Active
<1>5. Filled(t, s)' <=> Filled(t, s)
  BY <1>1, <1>3, <1>4 DEF Filled, SentToMark, ReadToMark, RestToCome
<1>. QED BY <1>1, <1>2, <1>4, <1>5 DEF Kept

(***************************************************************************)
(* Retention takes rows and raises prunedTo past what it took: a seq up to  *)
(* the cut, which may now be allocated again, is not owed to anyone.        *)
(***************************************************************************)
LEMMA PruneKeeps ==
    ASSUME TypeInv, ConnInv, NEW t \in Tasks, NEW s \in Subs, Kept(t, s), Prune, UNCHANGED subVars
    PROVE  Kept(t, s)'
<1>1. PICK cut \in SeqsOf(log) :
         /\ log' = {e \in log : e.seq > cut}
         /\ prunedTo' = Max({prunedTo, cut})
  BY DEF Prune
<1>2. /\ seqs' = seqs /\ bus' = bus /\ pc' = pc /\ ev' = ev /\ seeded' = seeded
      /\ phase' = phase /\ pos' = pos /\ tail' = tail /\ blind' = blind
  BY DEF Prune, subVars
<1>3. log \subseteq Event /\ prunedTo \in Nat /\ \A e \in log : e.seq \in Nat
  <2>1. log \subseteq Event /\ prunedTo \in Nat
    BY DEF TypeInv, TypeOK
  <2>. QED BY <2>1, EventRecords
<1>4. cut \in Nat
  BY <1>3 DEF SeqsOf
<1>5. prunedTo' \in Nat /\ prunedTo' >= prunedTo /\ prunedTo' >= cut
  <2>1. TypeInv'
    BY StepType DEF Next
  <2>2. prunedTo' \in Nat
    BY <2>1 DEF TypeInv, TypeOK
  <2>3. prunedTo <= prunedTo' /\ cut <= prunedTo'
    BY <1>1, <1>3, <1>4, MaxOfTwo
  <2>. QED BY <1>3, <1>4, <2>2, <2>3
<1>6. \A k \in Nat : Fresh(s, k) \/ k <= cut => Fresh(s, k)'
  BY <1>2, <1>3, <1>4, <1>5 DEF Fresh
<1>7. MarkBelow(t, s) => MarkBelow(t, s)'
  <2>. SUFFICES ASSUME MarkBelow(t, s) PROVE MarkBelow(t, s)'
    OBVIOUS
  <2>1. ASSUME seqs[Home[t]] = 0, NEW k \in Nat, k > 0
        PROVE  Fresh(s, k)' \/ \E e \in log' : k <= e.seq
    <3>1. CASE Fresh(s, k)
      BY <1>6, <3>1
    <3>2. CASE \E e \in log : k <= e.seq
      <4>1. PICK e \in log : k <= e.seq
        BY <3>2
      <4>2. CASE e.seq > cut
        BY <1>1, <4>1, <4>2
      <4>3. CASE e.seq <= cut
        BY <1>3, <1>4, <1>6, <4>1, <4>3
      <4>. QED BY <1>3, <1>4, <4>2, <4>3
    <3>. QED BY <2>1, <3>1, <3>2 DEF MarkBelow
  <2>2. seqs[Home[t]] \in Nat /\ seeded[t] \in Nat /\ ev[t].seq \in Nat
    BY EventRecords DEF TypeInv, TypeOK
  <2>3. seqs[Home[t]] = 0 /\ pc[t] = "reseeded" => \A k \in Nat : k > seeded[t] => Fresh(s, k)'
    BY <1>6 DEF MarkBelow
  <2>4. seqs[Home[t]] # 0 => \A k \in Nat : k > seqs[Home[t]] => Fresh(s, k)'
    BY <1>6 DEF MarkBelow
  <2>5. pc[t] = "append" => Fresh(s, ev[t].seq)'
    <3>1. pc[t] = "append" => Fresh(s, ev[t].seq)
      BY DEF MarkBelow
    <3>2. Fresh(s, ev[t].seq)' <=> ev[t].seq < From[s] \/ ev[t].seq <= prunedTo' \/ ev[t].seq > tail[s].last
      BY <1>2 DEF Fresh
    <3>. QED BY <1>3, <1>5, <2>2, <3>1, <3>2 DEF Fresh
  <2>. QED BY <1>2, <2>1, <2>3, <2>4, <2>5 DEF MarkBelow
<1>8. Filled(t, s) => Filled(t, s)'
  <2>1. log' \subseteq log
    BY <1>1
  <2>2. \A e : Owed(s, e)' => Owed(s, e)
    <3>. SUFFICES ASSUME NEW e, Owed(s, e)' PROVE Owed(s, e)
      OBVIOUS
    <3>1. e \in log' /\ e \in log /\ e.seq > prunedTo' /\ e.seq >= From[s]
      BY <2>1 DEF Owed
    <3>. QED BY <1>3, <1>5, <3>1 DEF Owed
  <2>3. Live(t)' = Live(t) /\ Out(s)' = Out(s) /\ Active(s)' = Active(s)
    BY <1>2 DEF Live, Out, Active
  <2>4. SentToMark(s) => SentToMark(s)'
    BY <1>2, <2>1, <2>2, <2>3 DEF SentToMark
  <2>5. ReadToMark(t, s) => ReadToMark(t, s)'
    BY <1>2, <2>2, <2>3 DEF ReadToMark
  <2>6. RestToCome(t, s) => RestToCome(t, s)'
    BY <1>2, <2>1, <2>2, <2>3 DEF RestToCome
  <2>. QED BY <1>2, <2>3, <2>4, <2>5, <2>6 DEF Filled
<1>. QED BY <1>2, <1>7, <1>8 DEF Kept, Active

(***************************************************************************)
(* A replica that dies takes its connections with it; those of another stay. *)
(***************************************************************************)
LEMMA CrashKeeps ==
    ASSUME TypeInv, ConnInv, NEW t \in Tasks, NEW s \in Subs, SubHome[s] = Home[t], Kept(t, s),
           NEW r \in Replicas, CrashCuts(r)
    PROVE  Kept(t, s)'
<1>1. CASE Home[t] = r
  BY <1>1 DEF CrashCuts, Kept, Active, Filled
<1>2. CASE Home[t] # r
  <2>1. /\ seqs'[Home[t]] = seqs[Home[t]] /\ bus'[Home[t]] = bus[Home[t]] /\ pc'[t] = pc[t]
        /\ ev'[t] = ev[t] /\ seeded'[t] = seeded[t] /\ log' = log /\ prunedTo' = prunedTo
    BY <1>2 DEF CrashCuts, Crash, TypeInv, TypeOK
  <2>2. /\ phase'[s] = phase[s] /\ pos'[s] = pos[s] /\ tail'[s] = tail[s]
        /\ s \in blind => s \in blind'
    BY <1>2 DEF CrashCuts
  <2>3. /\ \A e : Owed(s, e)' <=> Owed(s, e)
        /\ Live(t)' = Live(t) /\ Out(s)' = Out(s) /\ Active(s)' = Active(s)
    BY <2>1, <2>2 DEF Owed, Live, Out, Active
  <2>4. MarkBelow(t, s)' <=> MarkBelow(t, s)
    BY <2>1, <2>2 DEF MarkBelow, Fresh
  <2>5. Filled(t, s)' <=> Filled(t, s)
    BY <2>1, <2>2, <2>3 DEF Filled, SentToMark, ReadToMark, RestToCome
  <2>. QED BY <2>2, <2>3, <2>4, <2>5 DEF Kept
<1>. QED BY <1>1, <1>2

(***************************************************************************)
(* Every step of the streaming daemon.                                      *)
(***************************************************************************)
LEMMA GapStep ==
    ASSUME SourceInv, ConnInv, SoleInv, GapInv, [StreamNext]_streamVars
    PROVE  GapInv'
<1>. SUFFICES ASSUME readFaults' = 0, NEW t \in Tasks, NEW s \in Subs,
                     Sole(t)', SubHome[s] = Home[t]
              PROVE  Kept(t, s)'
  BY DEF GapInv, GapSound
<1>1. TypeInv /\ LogGood /\ [Next]_vars
  BY StreamStepIsEmitterStep DEF SourceInv
<1>2. readFaults = 0
  BY <1>1, CountsGrow
<1>3. Sole(t) /\ \A u \in Tasks : u # t => ~ (Emit(u) \/ Step(u))
  BY <1>1, SoleActsAlone DEF SoleInv
<1>4. SoleRows(t) /\ SoleChannel(t)
  BY <1>2, <1>3 DEF SoleInv, SoleSound
<1>5. Kept(t, s)
  BY <1>2, <1>3 DEF GapInv, GapSound
<1>6. ASSUME NEW u \in Tasks, Emit(u) \/ Step(u), UNCHANGED subVars PROVE Kept(t, s)'
  <2>1. Emit(t) \/ Step(t)
    BY <1>3, <1>6
  <2>2. Active(s)' = Active(s) /\ blind' = blind
    BY <1>6 DEF Active, subVars
  <2>3. Active(s) => MarkBelow(t, s)'
    BY <1>1, <1>2, <1>4, <1>5, <1>6, <2>1, MarkStaysBelow DEF Kept
  <2>4. s \notin blind => Filled(t, s)'
    BY <1>1, <1>4, <1>5, <1>6, <2>1, FilledStays DEF Kept
  <2>. QED BY <2>2, <2>3, <2>4 DEF Kept
<1>7. ASSUME NEW x \in Subs, Subscribe(x) \/ SubStep(x) PROVE Kept(t, s)'
  BY <1>4, <1>5, <1>7, ConnKeeps, OtherKeeps
<1>8. ASSUME NEW r \in Replicas, CrashCuts(r) PROVE Kept(t, s)'
  BY <1>1, <1>5, <1>8, CrashKeeps
<1>9. CASE Prune /\ UNCHANGED subVars
  BY <1>1, <1>5, <1>9, PruneKeeps
<1>10. CASE UNCHANGED streamVars
  <2>1. UNCHANGED vars /\ UNCHANGED subVars
    BY <1>10 DEF streamVars
  <2>2. MarkBelow(t, s)' <=> MarkBelow(t, s)
    BY <2>1 DEF MarkBelow, Fresh, vars, subVars
  <2>3. Filled(t, s)' <=> Filled(t, s)
    BY <2>1 DEF Filled, Active, SentToMark, ReadToMark, RestToCome, Owed, Live, Out, vars, subVars
  <2>. QED BY <1>5, <2>1, <2>2, <2>3 DEF Kept, Active, subVars
<1>. QED BY <1>6, <1>7, <1>8, <1>9, <1>10 DEF StreamNext

LEMMA GapInit == StreamInit => SoleInv /\ GapInv
<1>. SUFFICES ASSUME StreamInit PROVE SoleInv /\ GapInv
  OBVIOUS
<1>1. /\ \A t \in Tasks : pc[t] = "idle" /\ seqs[Home[t]] = 0 /\ Live(t) = <<>>
      /\ \A r \in Replicas : bus[r] = <<>>
      /\ log = {}
      /\ \A s \in Subs : phase[s] = "off"
  BY DEF StreamInit, Init, Live
<1>2. ASSUME NEW t \in Tasks PROVE SoleRows(t) /\ SoleChannel(t)
  <2>1. Live(t) = <<>> /\ Len(Live(t)) = 0
    BY <1>1
  <2>. QED BY <1>1, <2>1 DEF SoleRows, SoleChannel, Ascends, Written
<1>3. SoleInv
  BY <1>1, <1>2 DEF SoleInv, SoleSound, Busy, BusOwned
<1>4. GapInv
  BY <1>1 DEF GapInv, GapSound, Kept, Active, Filled
<1>. QED BY <1>3, <1>4

(***************************************************************************)
(* A connection that has read all of its channel lacks nothing it is owed.  *)
(***************************************************************************)
LEMMA NothingMissed ==
    ASSUME TypeInv, ConnInv, SoleInv, GapInv
    PROVE  NoGapOneWriter
<1>. SUFFICES ASSUME readFaults = 0, NEW s \in Subs, OneWriter, s \notin blind,
                     phase[s] = "tailing", pos[s] = Len(Channel(s)),
                     NEW e \in log \cap Range(Channel(s)), e.seq >= From[s], e.seq > prunedTo
              PROVE  e \in Range(Out(s))
  BY DEF NoGapOneWriter
<1>1. SubHome[s] \in Replicas /\ Channel(s) \in Seq(Event)
  BY DEF Channel, TypeInv, TypeOK
<1>2. PICK i \in 1..Len(Channel(s)) : Channel(s)[i] = e
  BY <1>1 DEF Range
<1>3. Channel(s) # <<>>
  BY <1>1, <1>2
<1>4. PICK t \in Tasks : Home[t] = SubHome[s] /\ emitted[t] > 0
  BY <1>1, <1>3 DEF SoleInv, BusOwned, Channel
<1>5. Sole(t)
  <2>1. \A u \in Tasks : emitted[u] \in Nat
    BY DEF TypeInv, TypeOK
  <2>. QED BY <1>4, <2>1 DEF OneWriter, Sole
<1>6. Kept(t, s) /\ s \notin blind
  BY <1>4, <1>5 DEF GapInv, GapSound
<1>7. SentToMark(s) /\ ReadToMark(t, s)
  BY <1>6 DEF Kept, Filled, Active
<1>8. Live(t) = Channel(s) /\ Owed(s, e)
  BY <1>4 DEF Live, Channel, Owed
<1>9. e.seq <= tail[s].last
  BY <1>2, <1>7, <1>8 DEF ReadToMark
<1>. QED BY <1>7, <1>8, <1>9 DEF SentToMark

(***************************************************************************)
(* A client of a stream that one task writes misses no durable event, above *)
(* what retention has taken, through lag, self-heal, failed appends and     *)
(* restarts, unless a store read of its own or of next_seq failed           *)
(* (agent_stream, Tailer, next_seq).                                        *)
(***************************************************************************)
THEOREM NoGapOneWriterHolds ==
    ASSUME SoundStore
    PROVE  StreamSpec => []NoGapOneWriter
<1>. DEFINE StreamInv == SourceInv /\ ConnInv /\ SoleInv /\ GapInv
<1>1. StreamInit => StreamInv
  BY SourceInit, ConnInit, GapInit DEF StreamInit
<1>2. StreamInv /\ [StreamNext]_streamVars => StreamInv'
  <2>. SUFFICES ASSUME StreamInv, [StreamNext]_streamVars PROVE StreamInv'
    OBVIOUS
  <2>1. [Next]_vars /\ TypeInv /\ LogGood /\ DurableSeqUnique
    BY StreamStepIsEmitterStep DEF SourceInv, UniqueInv
  <2>2. SourceInv' /\ ConnInv'
    BY <2>1, SourceStep, ConnStep
  <2>3. SoleInv'
    BY <2>1, SoleStep
  <2>4. GapInv'
    BY GapStep
  <2>. QED BY <2>2, <2>3, <2>4
<1>3. StreamInv => NoGapOneWriter
  BY NothingMissed DEF SourceInv
<1>. QED BY <1>1, <1>2, <1>3, PTL DEF StreamSpec

============================================================================
