--------------------------- MODULE EmitterProofs ---------------------------
(***************************************************************************)
(* Proofs about Emitter, for any number of replicas and tasks, any script   *)
(* and any bound on the faults.                                             *)
(***************************************************************************)
EXTENDS Emitter, TLAPS

(***************************************************************************)
(* The log has a greatest seq (or none), so high_water is defined.          *)
(***************************************************************************)
HasMax(S) == \E m \in S : \A x \in S : m >= x

LogHasMax == HasMax(SeqsOf(log) \cup {0})

TypeInv == TypeOK /\ LogHasMax

(***************************************************************************)
(* Max of a set of numbers that has a greatest element is that element.     *)
(***************************************************************************)
LEMMA MaxIsMax ==
    ASSUME NEW S \in SUBSET Nat, HasMax(S)
    PROVE  Max(S) \in S /\ \A x \in S : Max(S) >= x
  BY DEF HasMax, Max

(***************************************************************************)
(* Store::high_water returns a bound on every seq of the log.               *)
(***************************************************************************)
LEMMA HighWaterBounds ==
    ASSUME TypeInv
    PROVE  HighWater \in Nat /\ \A e \in log : e.seq <= HighWater
<1>1. SeqsOf(log) \cup {0} \in SUBSET Nat
  BY DEF TypeInv, TypeOK, Event, SeqsOf
<1>2. /\ HighWater \in SeqsOf(log) \cup {0}
      /\ \A x \in SeqsOf(log) \cup {0} : HighWater >= x
  BY <1>1, MaxIsMax DEF TypeInv, LogHasMax, HighWater
<1>. QED
  BY <1>1, <1>2 DEF SeqsOf

(***************************************************************************)
(* Appending one event to a log keeps its greatest seq defined.             *)
(***************************************************************************)
LEMMA AppendKeepsMax ==
    ASSUME LogHasMax, log \subseteq Event, NEW e \in Event, log' = log \cup {e}
    PROVE  LogHasMax'
<1>1. PICK m \in SeqsOf(log) \cup {0} : \A x \in SeqsOf(log) \cup {0} : m >= x
  BY DEF LogHasMax, HasMax
<1>2. SeqsOf(log') \cup {0} = (SeqsOf(log) \cup {0}) \cup {e.seq}
  BY DEF SeqsOf
<1>3. m \in Nat /\ e.seq \in Nat /\ SeqsOf(log) \subseteq Nat
  BY DEF SeqsOf, Event
<1>4. HasMax(SeqsOf(log') \cup {0})
  <2>1. CASE e.seq <= m
    BY <1>1, <1>2, <1>3, <2>1 DEF HasMax
  <2>2. CASE e.seq > m
    BY <1>1, <1>2, <1>3, <2>2 DEF HasMax
  <2>. QED BY <1>3, <2>1, <2>2
<1>. QED BY <1>4 DEF LogHasMax

(***************************************************************************)
(* So does deleting a prefix of it.                                         *)
(***************************************************************************)
LEMMA PruneKeepsMax ==
    ASSUME LogHasMax, log \subseteq Event, NEW cut \in Nat,
           log' = {e \in log : e.seq > cut}
    PROVE  LogHasMax'
<1>1. PICK m \in SeqsOf(log) \cup {0} : \A x \in SeqsOf(log) \cup {0} : m >= x
  BY DEF LogHasMax, HasMax
<1>2. m \in Nat /\ SeqsOf(log) \subseteq Nat
  BY DEF SeqsOf, Event
<1>3. SeqsOf(log') = {x \in SeqsOf(log) : x > cut}
  BY DEF SeqsOf
<1>4. HasMax(SeqsOf(log') \cup {0})
  <2>1. CASE m > cut
    BY <1>1, <1>2, <1>3, <2>1 DEF HasMax
  <2>2. CASE m <= cut
    <3>1. SeqsOf(log') = {}
      BY <1>1, <1>2, <1>3, <2>2
    <3>. QED BY <3>1 DEF HasMax
  <2>. QED BY <1>2, <2>1, <2>2
<1>. QED BY <1>4 DEF LogHasMax

USE HomeAssumption, ScriptAssumption, IndexAssumption, BoundsAssumption

(***************************************************************************)
(* The records the actions build are events.                                *)
(***************************************************************************)
LEMMA EventRecords ==
    /\ \A t \in Tasks : NoEvent(t) \in Event
    /\ \A e \in Event, k \in Nat : [e EXCEPT !.seq = k] \in Event
    /\ \A e \in Event : e.seq \in Nat /\ e.n \in Nat /\ e.src \in Tasks /\ e.lost \in Nat
    /\ \A t \in Tasks, e \in Event :
          [seq |-> 0, src |-> t, n |-> e.n, kind |-> "gap", lost |-> e.seq] \in Event
    /\ \A t \in Tasks, n \in Nat, k \in Kinds :
          [seq |-> 0, src |-> t, n |-> n, kind |-> k, lost |-> 0] \in Event
  BY DEF NoEvent, Event, Kinds

(***************************************************************************)
(* The initial state is well typed.                                         *)
(***************************************************************************)
LEMMA InitType == Init => TypeInv
<1>. SUFFICES ASSUME Init PROVE TypeInv OBVIOUS
<1>1. TypeOK
  BY EventRecords DEF Init, TypeOK, PCs
<1>2. LogHasMax
  <2>1. SeqsOf(log) \cup {0} = {0} BY DEF Init, SeqsOf
  <2>2. HasMax({0}) BY DEF HasMax
  <2>. QED BY <2>1, <2>2 DEF LogHasMax
<1>. QED BY <1>1, <1>2 DEF TypeInv

(***************************************************************************)
(* Allocating a seq keeps the types.                                        *)
(***************************************************************************)
LEMMA AllocateType ==
    ASSUME TypeOK, NEW t \in Tasks, NEW k \in Nat, Allocate(t, k)
    PROVE  /\ seqs' \in [Replicas -> Nat]
           /\ ev' \in [Tasks -> Event]
           /\ pc' \in [Tasks -> PCs]
<1>1. [ev[t] EXCEPT !.seq = k] \in Event BY EventRecords DEF TypeOK
<1>2. seqs' \in [Replicas -> Nat] BY DEF Allocate, TypeOK
<1>3. ev' \in [Tasks -> Event] BY <1>1 DEF Allocate, TypeOK
<1>4. pc' \in [Tasks -> PCs] BY DEF Allocate, TypeOK, PCs
<1>. QED BY <1>2, <1>3, <1>4

(***************************************************************************)
(* Every step keeps the types. Only AppendOk, AppendFails and Prune change  *)
(* the log.                                                                 *)
(***************************************************************************)
LEMMA StepType == TypeInv /\ [Next]_vars => TypeInv'
<1>. SUFFICES ASSUME TypeInv, [Next]_vars PROVE TypeInv'
  OBVIOUS
<1>. USE DEF TypeInv, faultVars
<1>1. ASSUME NEW t \in Tasks, Emit(t) PROVE TypeInv'
  <2>1. Script[t] \in Seq(Kinds) /\ emitted[t] + 1 \in 1..Len(Script[t])
    BY <1>1 DEF Emit, TypeOK
  <2>2. Script[t][emitted[t] + 1] \in Kinds
    BY <2>1
  <2>3. [seq |-> 0, src |-> t, n |-> emitted[t] + 1,
         kind |-> Script[t][emitted[t] + 1], lost |-> 0] \in Event
    <3>1. emitted[t] + 1 \in Nat BY DEF TypeOK
    <3>. QED BY <2>2, <3>1, EventRecords, Zenon
  <2>4. ev' \in [Tasks -> Event]
    BY <1>1, <2>3 DEF Emit, TypeOK
  <2>. QED BY <1>1, <2>4 DEF Emit, TypeOK, LogHasMax, PCs
<1>2. ASSUME NEW t \in Tasks, NextSeqCached(t) PROVE TypeInv'
  <2>1. seqs[Home[t]] + 1 \in Nat BY DEF TypeOK
  <2>. QED BY <1>2, <2>1, AllocateType DEF NextSeqCached, TypeOK, LogHasMax
<1>3. ASSUME NEW t \in Tasks, NextSeqMiss(t) PROVE TypeInv'
  BY <1>3 DEF NextSeqMiss, TypeOK, LogHasMax, PCs
<1>4. ASSUME NEW t \in Tasks, ReadHighWater(t) PROVE TypeInv'
  BY <1>4, HighWaterBounds DEF ReadHighWater, TypeOK, LogHasMax, PCs
<1>5. ASSUME NEW t \in Tasks, ReadHighWaterFails(t) PROVE TypeInv'
  BY <1>5 DEF ReadHighWaterFails, TypeOK, LogHasMax, PCs
<1>6. ASSUME NEW t \in Tasks, NextSeqSeeded(t) PROVE TypeInv'
  <2>1. (IF seqs[Home[t]] # 0 THEN seqs[Home[t]] + 1 ELSE seeded[t] + 1) \in Nat
    BY DEF TypeOK
  <2>. QED BY <1>6, <2>1, AllocateType DEF NextSeqSeeded, TypeOK, LogHasMax
<1>7. ASSUME NEW t \in Tasks, AppendOk(t) PROVE TypeInv'
  <2>1. LogHasMax' BY <1>7, AppendKeepsMax DEF AppendOk, TypeOK
  <2>2. TypeOK' BY <1>7 DEF AppendOk, TypeOK, PCs
  <2>. QED BY <2>1, <2>2
<1>8. ASSUME NEW t \in Tasks, AppendConflict(t) PROVE TypeInv'
  <2>1. attempts' \in [Tasks -> 0..SeqConflictRetries]
    BY <1>8 DEF AppendConflict, TypeOK
  <2>. QED BY <1>8, <2>1 DEF AppendConflict, TypeOK, LogHasMax, PCs
<1>9. ASSUME NEW t \in Tasks, AppendConflictExhausted(t) PROVE TypeInv'
  BY <1>9 DEF AppendConflictExhausted, AppendError, TypeOK, LogHasMax, PCs
<1>10. ASSUME NEW t \in Tasks, AppendFails(t) PROVE TypeInv'
  <2>1. LogHasMax'
    <3>1. CASE log' = log BY <3>1 DEF LogHasMax
    <3>2. CASE log' = log \cup {ev[t]} BY <3>2, AppendKeepsMax DEF TypeOK
    <3>. QED BY <1>10, <3>1, <3>2 DEF AppendFails
  <2>2. log' \subseteq Event BY <1>10 DEF AppendFails, TypeOK
  <2>3. TypeOK' BY <1>10, <2>2 DEF AppendFails, AppendError, TypeOK, PCs
  <2>. QED BY <2>1, <2>3
<1>11. ASSUME NEW t \in Tasks, Publish(t) PROVE TypeInv'
  <2>1. bus' \in [Replicas -> Seq(Event)] BY <1>11 DEF Publish, TypeOK
  <2>2. ev' \in [Tasks -> Event] BY <1>11, EventRecords DEF Publish, TypeOK
  <2>3. attempts' \in [Tasks -> 0..SeqConflictRetries] BY <1>11 DEF Publish, TypeOK
  <2>4. pc' \in [Tasks -> PCs] BY <1>11 DEF Publish, TypeOK, PCs
  <2>. QED BY <1>11, <2>1, <2>2, <2>3, <2>4 DEF Publish, TypeOK, LogHasMax
<1>12. ASSUME NEW t \in Tasks, PublishLost(t) PROVE TypeInv'
  <2>1. bus' \in [Replicas -> Seq(Event)] BY <1>12 DEF PublishLost, TypeOK
  <2>2. ev' \in [Tasks -> Event] BY <1>12, EventRecords DEF PublishLost, TypeOK
  <2>3. attempts' \in [Tasks -> 0..SeqConflictRetries] BY <1>12 DEF PublishLost, TypeOK
  <2>4. pc' \in [Tasks -> PCs] BY <1>12 DEF PublishLost, TypeOK, PCs
  <2>. QED BY <1>12, <2>1, <2>2, <2>3, <2>4 DEF PublishLost, TypeOK, LogHasMax
<1>13. ASSUME NEW r \in Replicas, Crash(r) PROVE TypeInv'
  <2>1. ev' \in [Tasks -> Event] BY <1>13, EventRecords DEF Crash, TypeOK
  <2>2. bus' \in [Replicas -> Seq(Event)] BY <1>13 DEF Crash, TypeOK
  <2>. QED BY <1>13, <2>1, <2>2 DEF Crash, TypeOK, LogHasMax, PCs
<1>14. ASSUME Prune PROVE TypeInv'
  <2>1. PICK cut \in SeqsOf(log) :
           log' = {e \in log : e.seq > cut} /\ prunedTo' = Max({prunedTo, cut})
    BY <1>14 DEF Prune
  <2>2. cut \in Nat BY EventRecords DEF TypeOK, SeqsOf
  <2>3. LogHasMax' BY <2>1, <2>2, PruneKeepsMax DEF TypeOK
  <2>4. prunedTo' \in Nat
    <3>1. {prunedTo, cut} \in SUBSET Nat BY <2>2 DEF TypeOK
    <3>2. HasMax({prunedTo, cut}) BY <2>2 DEF HasMax, TypeOK
    <3>3. Max({prunedTo, cut}) \in {prunedTo, cut} BY <3>1, <3>2, MaxIsMax
    <3>. QED BY <2>1, <3>1, <3>3
  <2>5. TypeOK' BY <1>14, <2>1, <2>4 DEF Prune, TypeOK
  <2>. QED BY <2>3, <2>5
<1>15. CASE UNCHANGED vars
  BY <1>15 DEF vars, TypeOK, LogHasMax
<1>. QED
  BY <1>1, <1>2, <1>3, <1>4, <1>5, <1>6, <1>7, <1>8, <1>9, <1>10, <1>11,
     <1>12, <1>13, <1>14, <1>15 DEF Next, Step

(***************************************************************************)
(* Type correctness: every reachable state of the emitters satisfies        *)
(* TypeOK; in particular the conflict retries stay within their budget.     *)
(***************************************************************************)
THEOREM TypeCorrect == Spec => []TypeOK
<1>1. TypeInv => TypeOK BY DEF TypeInv
<1>. QED BY InitType, StepType, <1>1, PTL DEF Spec

----------------------------------------------------------------------------
(***************************************************************************)
(* When the seqs of the log are unique: the store has the unique index, or  *)
(* all writers share one cache and the high-water reads do not fail.        *)
(***************************************************************************)
CommonHome == \A t, u \in Tasks : Home[t] = Home[u]

SoundStore == UniqueIndex \/ (CommonHome /\ MaxReadFaults = 0)

(***************************************************************************)
(* The cache protocol of next_seq. An event about to be appended has a seq  *)
(* the counter already covers, that no other such event and no row has; the *)
(* counter covers the log; and a high-water read that is still to be used   *)
(* covers the log as long as nobody has seeded the counter.                 *)
(***************************************************************************)
AppendCovered ==
    \A t \in Tasks : pc[t] = "append" =>
        /\ 0 < ev[t].seq /\ ev[t].seq <= seqs[Home[t]]
        /\ \A e \in log : e.seq # ev[t].seq

AppendDistinct ==
    \A t, u \in Tasks :
        pc[t] = "append" /\ pc[u] = "append" /\ t # u => ev[t].seq # ev[u].seq

CounterCovers ==
    \A t \in Tasks : seqs[Home[t]] # 0 => \A e \in log : e.seq <= seqs[Home[t]]

ReadCovers ==
    \A t \in Tasks : pc[t] = "reseeded" /\ seqs[Home[t]] = 0 =>
        \A e \in log : e.seq <= seeded[t]

CacheInv == AppendCovered /\ AppendDistinct /\ CounterCovers /\ ReadCovers

UniqueInv == DurableSeqUnique /\ (~ UniqueIndex => CacheInv)

(***************************************************************************)
(* A step that allocates k, above the counter and the log, keeps CacheInv.  *)
(***************************************************************************)
LEMMA AllocateCache ==
    ASSUME TypeInv, CacheInv, CommonHome, NEW t \in Tasks, NEW k \in Nat,
           pc[t] # "append", Allocate(t, k), log' = log,
           k > seqs[Home[t]], \A e \in log : e.seq < k
    PROVE  CacheInv'
<1>. USE DEF TypeInv, CommonHome
<1>1. /\ seqs'[Home[t]] = k
      /\ ev'[t].seq = k
      /\ pc'[t] = "append"
      /\ \A u \in Tasks \ {t} : ev'[u] = ev[u] /\ pc'[u] = pc[u]
  <2>1. ev[t] \in Event BY DEF TypeOK
  <2>2. [ev[t] EXCEPT !.seq = k].seq = k BY <2>1 DEF Event
  <2>3. ev'[t].seq = k BY <2>2 DEF Allocate, TypeOK
  <2>. QED BY <2>3 DEF Allocate, TypeOK
<1>2. \A u \in Tasks : Home[u] = Home[t] OBVIOUS
<1>3. \A e \in log : e.seq \in Nat BY EventRecords DEF TypeOK
<1>4. \A u \in Tasks : ev[u].seq \in Nat /\ seqs[Home[u]] \in Nat
  BY EventRecords DEF TypeOK
<1>5. AppendCovered'
  BY <1>1, <1>2, <1>3, <1>4 DEF CacheInv, AppendCovered
<1>6. AppendDistinct'
  <2>1. \A u \in Tasks \ {t} : pc[u] = "append" => ev[u].seq < k
    BY <1>2, <1>4 DEF CacheInv, AppendCovered
  <2>2. \A u \in Tasks \ {t} : pc'[u] = "append" => ev'[u].seq # ev'[t].seq
    BY <1>1, <1>4, <2>1
  <2>3. \A u, v \in Tasks \ {t} :
           pc'[u] = "append" /\ pc'[v] = "append" /\ u # v => ev'[u].seq # ev'[v].seq
    <3>1. \A u, v \in Tasks :
             pc[u] = "append" /\ pc[v] = "append" /\ u # v => ev[u].seq # ev[v].seq
      BY DEF CacheInv, AppendDistinct
    <3>2. \A u \in Tasks \ {t} : ev'[u] = ev[u] /\ pc'[u] = pc[u]
      BY <1>1
    <3>. QED BY ONLY <3>1, <3>2
  <2>. QED BY <2>2, <2>3 DEF AppendDistinct
<1>7. CounterCovers'
  BY <1>1, <1>2, <1>3 DEF CounterCovers
<1>8. ReadCovers'
  BY <1>1, <1>2, <1>4 DEF ReadCovers
<1>. QED BY <1>5, <1>6, <1>7, <1>8 DEF CacheInv

(***************************************************************************)
(* Adding a covered, fresh event of a task that then leaves "append" keeps  *)
(* both the uniqueness of the log and CacheInv.                             *)
(***************************************************************************)
LEMMA AppendCache ==
    ASSUME TypeInv, CacheInv, DurableSeqUnique, CommonHome, NEW t \in Tasks,
           pc[t] = "append", pc'[t] \in {"publish", "publish_lost"},
           \A u \in Tasks \ {t} : pc'[u] = pc[u],
           log' = log \cup {ev[t]},
           seqs' = seqs, ev' = ev, seeded' = seeded
    PROVE  CacheInv' /\ DurableSeqUnique'
<1>. USE DEF TypeInv, CommonHome
<1>1. \A u \in Tasks : Home[u] = Home[t] OBVIOUS
<1>2. \A u \in Tasks : ev[u].seq \in Nat /\ seqs[Home[u]] \in Nat
  BY EventRecords DEF TypeOK
<1>3. DurableSeqUnique'
  BY DEF DurableSeqUnique, CacheInv, AppendCovered
<1>4. AppendCovered'
  <2>. SUFFICES ASSUME NEW u \in Tasks, pc'[u] = "append"
               PROVE  /\ 0 < ev[u].seq /\ ev[u].seq <= seqs[Home[u]]
                      /\ \A e \in log \cup {ev[t]} : e.seq # ev[u].seq
    BY DEF AppendCovered
  <2>1. u # t /\ pc[u] = "append"
    OBVIOUS
  <2>2. ev[t].seq # ev[u].seq
    BY <2>1 DEF CacheInv, AppendDistinct
  <2>3. /\ 0 < ev[u].seq /\ ev[u].seq <= seqs[Home[u]]
        /\ \A e \in log : e.seq # ev[u].seq
    BY <2>1 DEF CacheInv, AppendCovered
  <2>. QED BY <2>2, <2>3
<1>5. AppendDistinct'
  <2>1. \A u \in Tasks : pc'[u] = "append" => pc[u] = "append" /\ u # t
    OBVIOUS
  <2>. QED BY <2>1 DEF CacheInv, AppendDistinct
<1>6. CounterCovers'
  <2>1. ev[t].seq <= seqs[Home[t]]
    BY DEF CacheInv, AppendCovered
  <2>2. \A u \in Tasks : seqs[Home[u]] # 0 => \A e \in log : e.seq <= seqs[Home[u]]
    BY DEF CacheInv, CounterCovers
  <2>3. \A u \in Tasks : ev[t].seq <= seqs[Home[u]]
    BY <1>1, <2>1
  <2>. QED BY <2>2, <2>3 DEF CounterCovers
<1>7. ReadCovers'
  <2>1. seqs[Home[t]] # 0 BY <1>2 DEF CacheInv, AppendCovered
  <2>. QED BY <1>1, <2>1 DEF ReadCovers
<1>. QED BY <1>3, <1>4, <1>5, <1>6, <1>7 DEF CacheInv

(***************************************************************************)
(* A step that leaves the log, the counters and the events at "append" and  *)
(* the reads at "reseeded" alone keeps CacheInv.                            *)
(***************************************************************************)
LEMMA QuietCache ==
    ASSUME CacheInv, log' = log, seqs' = seqs,
           \A u \in Tasks : pc'[u] = "append" => pc[u] = "append" /\ ev'[u] = ev[u],
           \A u \in Tasks : pc'[u] = "reseeded" => pc[u] = "reseeded" /\ seeded'[u] = seeded[u]
    PROVE  CacheInv'
<1>1. AppendCovered'
  BY DEF CacheInv, AppendCovered
<1>2. AppendDistinct'
  <2>. SUFFICES ASSUME NEW t \in Tasks, NEW u \in Tasks,
                      pc'[t] = "append", pc'[u] = "append", t # u
               PROVE  ev'[t].seq # ev'[u].seq
    BY DEF AppendDistinct
  <2>1. /\ pc[t] = "append" /\ pc[u] = "append" /\ ev'[t] = ev[t] /\ ev'[u] = ev[u]
    OBVIOUS
  <2>. QED BY <2>1 DEF CacheInv, AppendDistinct
<1>3. CounterCovers'
  BY DEF CacheInv, CounterCovers
<1>4. ReadCovers'
  BY DEF CacheInv, ReadCovers
<1>. QED BY <1>1, <1>2, <1>3, <1>4 DEF CacheInv

(***************************************************************************)
(* Without the unique index, CacheInv is what every step preserves and what *)
(* keeps the log unique.                                                    *)
(***************************************************************************)
LEMMA CacheStep ==
    ASSUME CommonHome, MaxReadFaults = 0, ~ UniqueIndex,
           TypeInv, DurableSeqUnique, CacheInv, [Next]_vars
    PROVE  CacheInv' /\ DurableSeqUnique'
<1>. USE DEF TypeInv, faultVars
<1>1. ASSUME NEW t \in Tasks, Emit(t) PROVE CacheInv' /\ DurableSeqUnique'
  BY <1>1, QuietCache DEF Emit, TypeOK, DurableSeqUnique
<1>2. ASSUME NEW t \in Tasks, NextSeqCached(t) PROVE CacheInv' /\ DurableSeqUnique'
  <2>1. \A e \in log : e.seq < seqs[Home[t]] + 1
    <3>1. \A e \in log : e.seq <= seqs[Home[t]]
      BY <1>2 DEF NextSeqCached, CacheInv, CounterCovers
    <3>2. seqs[Home[t]] \in Nat /\ \A e \in log : e.seq \in Nat
      BY EventRecords DEF TypeOK
    <3>. QED BY <3>1, <3>2
  <2>2. seqs[Home[t]] + 1 \in Nat /\ seqs[Home[t]] + 1 > seqs[Home[t]] BY DEF TypeOK
  <2>3. /\ pc[t] # "append" /\ log' = log
        /\ Allocate(t, seqs[Home[t]] + 1)
    BY <1>2 DEF NextSeqCached
  <2>4. DurableSeqUnique'
    BY <2>3 DEF DurableSeqUnique
  <2>. QED BY <2>1, <2>2, <2>3, <2>4, AllocateCache
<1>3. ASSUME NEW t \in Tasks, NextSeqMiss(t) PROVE CacheInv' /\ DurableSeqUnique'
  BY <1>3, QuietCache DEF NextSeqMiss, TypeOK, DurableSeqUnique
<1>4. ASSUME NEW t \in Tasks, ReadHighWater(t) PROVE CacheInv' /\ DurableSeqUnique'
  <2>1. AppendCovered' /\ AppendDistinct' /\ CounterCovers'
    BY <1>4 DEF ReadHighWater, CacheInv, AppendCovered, AppendDistinct, CounterCovers, TypeOK
  <2>2. ReadCovers'
    BY <1>4, HighWaterBounds DEF ReadHighWater, CacheInv, ReadCovers, TypeOK
  <2>. QED BY <1>4, <2>1, <2>2 DEF CacheInv, ReadHighWater, DurableSeqUnique
<1>5. ASSUME NEW t \in Tasks, ReadHighWaterFails(t) PROVE FALSE
  BY <1>5 DEF ReadHighWaterFails, TypeOK
<1>6. ASSUME NEW t \in Tasks, NextSeqSeeded(t) PROVE CacheInv' /\ DurableSeqUnique'
  <2>. DEFINE k == IF seqs[Home[t]] # 0 THEN seqs[Home[t]] + 1 ELSE seeded[t] + 1
  <2>1. seqs[Home[t]] \in Nat /\ seeded[t] \in Nat BY DEF TypeOK
  <2>2. k \in Nat /\ k > seqs[Home[t]] BY <2>1
  <2>3. \A e \in log : e.seq \in Nat BY EventRecords DEF TypeOK
  <2>4. \A e \in log : e.seq < k
    BY <1>6, <2>1, <2>3 DEF NextSeqSeeded, CacheInv, CounterCovers, ReadCovers
  <2>5. Allocate(t, k) /\ pc[t] # "append" /\ log' = log BY <1>6 DEF NextSeqSeeded
  <2>. HIDE DEF k
  <2>. QED BY <2>2, <2>4, <2>5, AllocateCache DEF DurableSeqUnique
<1>7. ASSUME NEW t \in Tasks, AppendOk(t) PROVE CacheInv' /\ DurableSeqUnique'
  BY <1>7, AppendCache DEF AppendOk, TypeOK
<1>8. ASSUME NEW t \in Tasks, AppendConflict(t) PROVE FALSE
  BY <1>8 DEF AppendConflict, Conflicts
<1>9. ASSUME NEW t \in Tasks, AppendConflictExhausted(t) PROVE FALSE
  BY <1>9 DEF AppendConflictExhausted, Conflicts
<1>10. ASSUME NEW t \in Tasks, AppendFails(t) PROVE CacheInv' /\ DurableSeqUnique'
  <2>1. /\ pc[t] = "append" /\ pc'[t] \in {"publish", "publish_lost"}
        /\ \A u \in Tasks \ {t} : pc'[u] = pc[u]
        /\ seqs' = seqs /\ ev' = ev /\ seeded' = seeded
    BY <1>10 DEF AppendFails, AppendError, TypeOK
  <2>2. CASE log' = log
    BY <2>1, <2>2, QuietCache DEF DurableSeqUnique
  <2>3. CASE log' = log \cup {ev[t]}
    BY <2>1, <2>3, AppendCache
  <2>. QED BY <1>10, <2>2, <2>3 DEF AppendFails
<1>11. ASSUME NEW t \in Tasks, Publish(t) PROVE CacheInv' /\ DurableSeqUnique'
  BY <1>11, QuietCache DEF Publish, TypeOK, DurableSeqUnique
<1>12. ASSUME NEW t \in Tasks, PublishLost(t) PROVE CacheInv' /\ DurableSeqUnique'
  BY <1>12, QuietCache DEF PublishLost, TypeOK, DurableSeqUnique
<1>13. ASSUME NEW r \in Replicas, Crash(r) PROVE CacheInv' /\ DurableSeqUnique'
  <2>1. CASE \A u \in Tasks : Home[u] # r
    BY <1>13, <2>1 DEF Crash, TypeOK, DurableSeqUnique, CacheInv, AppendCovered,
                       AppendDistinct, CounterCovers, ReadCovers
  <2>2. CASE \E u \in Tasks : Home[u] = r
    <3>1. \A u \in Tasks : Home[u] = r BY <2>2 DEF CommonHome
    <3>2. \A u \in Tasks : pc'[u] = "idle" /\ seqs'[Home[u]] = 0
      BY <1>13, <3>1 DEF Crash, TypeOK
    <3>. QED BY <1>13, <3>2 DEF Crash, DurableSeqUnique, CacheInv, AppendCovered,
                       AppendDistinct, CounterCovers, ReadCovers
  <2>. QED BY <2>1, <2>2
<1>14. ASSUME Prune PROVE CacheInv' /\ DurableSeqUnique'
  BY <1>14 DEF Prune, DurableSeqUnique, CacheInv, AppendCovered, AppendDistinct,
               CounterCovers, ReadCovers
<1>15. CASE UNCHANGED vars
  BY <1>15, QuietCache DEF vars, DurableSeqUnique
<1>. QED
  BY <1>1, <1>2, <1>3, <1>4, <1>5, <1>6, <1>7, <1>8, <1>9, <1>10, <1>11,
     <1>12, <1>13, <1>14, <1>15 DEF Next, Step

(***************************************************************************)
(* With the unique index the store itself refuses a second row.             *)
(***************************************************************************)
LEMMA IndexStep ==
    ASSUME UniqueIndex, TypeInv, DurableSeqUnique, [Next]_vars
    PROVE  DurableSeqUnique'
<1>1. CASE log' \subseteq log
  BY <1>1 DEF DurableSeqUnique
<1>2. CASE \E t \in Tasks : ~ Conflicts(ev[t]) /\ log' = log \cup {ev[t]}
  BY <1>2 DEF DurableSeqUnique, Conflicts, SeqsOf
<1>3. log' \subseteq log \/ \E t \in Tasks : ~ Conflicts(ev[t]) /\ log' = log \cup {ev[t]}
  BY DEF Next, Step, Emit, NextSeqCached, NextSeqMiss, ReadHighWater,
     ReadHighWaterFails, NextSeqSeeded, AppendOk, AppendConflict,
     AppendConflictExhausted, AppendFails, Publish, PublishLost, Crash, Prune, vars
<1>. QED BY <1>1, <1>2, <1>3

(***************************************************************************)
(* The durable log of a stream never holds two events with the same seq: by *)
(* the store's unique index, or, on the JSONL store, by next_seq's protocol *)
(* of recording a seq before the append and re-checking the cache after the *)
(* unlocked high-water read, as long as one process writes the file.        *)
(***************************************************************************)
THEOREM DurableSeqUniqueHolds ==
    ASSUME SoundStore
    PROVE  Spec => []DurableSeqUnique
<1>1. Init => UniqueInv
  BY DEF Init, UniqueInv, DurableSeqUnique, CacheInv, AppendCovered, AppendDistinct,
         CounterCovers, ReadCovers
<1>2. TypeInv /\ UniqueInv /\ [Next]_vars => UniqueInv'
  BY CacheStep, IndexStep DEF SoundStore, UniqueInv
<1>3. UniqueInv => DurableSeqUnique BY DEF UniqueInv
<1>. QED BY InitType, StepType, <1>1, <1>2, <1>3, PTL DEF Spec

----------------------------------------------------------------------------
(***************************************************************************)
(* Why retries do not duplicate: an event that is still being sequenced or  *)
(* appended is not in the log under any seq, and neither is the gap marker  *)
(* of a call that has not failed yet.                                       *)
(***************************************************************************)
InLog(L, t, n, k) == \E e \in L : e.src = t /\ e.n = n /\ e.kind = k

Unwritten == {"next_seq", "high_water", "reseeded", "append"}

LogNumbered == \A e \in log : e.n <= emitted[e.src]

Numbered == \A t \in Tasks : pc[t] # "idle" => ev[t].src = t /\ ev[t].n = emitted[t]

NotYetInLog ==
    \A t \in Tasks : pc[t] \in Unwritten => ~ InLog(log, t, ev[t].n, ev[t].kind)

MarkerNotInLog ==
    \A t \in Tasks : pc[t] # "idle" /\ ev[t].kind # "gap" => ~ InLog(log, t, ev[t].n, "gap")

(* A conflict-free call that fails is an ordinary event until it publishes. *)
LostIsOrdinary == \A t \in Tasks : pc[t] = "publish_lost" => ev[t].kind # "gap"

OnceInv ==
    DurableOnce /\ LogNumbered /\ Numbered /\ NotYetInLog /\ MarkerNotInLog /\ LostIsOrdinary

(***************************************************************************)
(* A step that does not write the log, start a call or turn one into its    *)
(* marker keeps OnceInv: the event in hand keeps its identity.              *)
(***************************************************************************)
LEMMA QuietOnce ==
    ASSUME OnceInv, log' \subseteq log, emitted' = emitted,
           \A u \in Tasks : pc'[u] # "idle" =>
               /\ pc[u] # "idle"
               /\ ev'[u].src = ev[u].src /\ ev'[u].n = ev[u].n /\ ev'[u].kind = ev[u].kind
               /\ pc'[u] \in Unwritten => pc[u] \in Unwritten
               /\ pc'[u] = "publish_lost" => ev[u].kind # "gap"
    PROVE  OnceInv'
<1>1. DurableOnce' /\ LogNumbered' BY DEF OnceInv, DurableOnce, LogNumbered
<1>2. Numbered' BY DEF OnceInv, Numbered
<1>3. \A u, n, k : InLog(log', u, n, k) => InLog(log, u, n, k) BY DEF InLog
<1>4. NotYetInLog'
  <2>. SUFFICES ASSUME NEW u \in Tasks, pc'[u] \in Unwritten
                PROVE  ~ InLog(log', u, ev'[u].n, ev'[u].kind)
    BY DEF NotYetInLog
  <2>1. ~ InLog(log, u, ev[u].n, ev[u].kind) BY DEF OnceInv, NotYetInLog, Unwritten
  <2>2. ev'[u].n = ev[u].n /\ ev'[u].kind = ev[u].kind BY DEF Unwritten
  <2>. QED BY <1>3, <2>1, <2>2
<1>5. MarkerNotInLog'
  <2>. SUFFICES ASSUME NEW u \in Tasks, pc'[u] # "idle", ev'[u].kind # "gap"
                PROVE  ~ InLog(log', u, ev'[u].n, "gap")
    BY DEF MarkerNotInLog
  <2>1. ~ InLog(log, u, ev[u].n, "gap") BY DEF OnceInv, MarkerNotInLog
  <2>. QED BY <1>3, <2>1
<1>6. LostIsOrdinary' BY DEF LostIsOrdinary
<1>. QED BY <1>1, <1>2, <1>4, <1>5, <1>6 DEF OnceInv

(***************************************************************************)
(* Writing the event in hand keeps OnceInv.                                  *)
(***************************************************************************)
LEMMA WriteOnce ==
    ASSUME TypeInv, OnceInv, NEW t \in Tasks, pc[t] = "append",
           log' = log \cup {ev[t]}, emitted' = emitted, ev' = ev,
           pc'[t] = "publish" \/ (pc'[t] = "publish_lost" /\ ev[t].kind # "gap"),
           \A u \in Tasks \ {t} : pc'[u] = pc[u]
    PROVE  OnceInv'
<1>1. ev[t].src = t /\ ev[t].n = emitted[t] /\ ~ InLog(log, t, ev[t].n, ev[t].kind)
  BY DEF OnceInv, Numbered, NotYetInLog, Unwritten
<1>2. DurableOnce'
  BY <1>1 DEF OnceInv, DurableOnce, InLog
<1>3. emitted[t] \in Nat BY DEF TypeInv, TypeOK
<1>4. LogNumbered' BY <1>1, <1>3 DEF OnceInv, LogNumbered
<1>5. Numbered' BY DEF OnceInv, Numbered
<1>6. NotYetInLog'
  BY <1>1 DEF OnceInv, NotYetInLog, InLog, Unwritten
<1>7. MarkerNotInLog'
  BY <1>1 DEF OnceInv, MarkerNotInLog, InLog
<1>8. LostIsOrdinary' BY DEF OnceInv, LostIsOrdinary
<1>. QED BY <1>2, <1>4, <1>5, <1>6, <1>7, <1>8 DEF OnceInv

(***************************************************************************)
(* Every step keeps OnceInv.                                                *)
(***************************************************************************)
LEMMA OnceStep ==
    ASSUME TypeInv, OnceInv, [Next]_vars
    PROVE  OnceInv'
<1>. USE DEF faultVars
<1>1. ASSUME NEW t \in Tasks, Emit(t) PROVE OnceInv'
  <2>1. emitted[t] \in Nat /\ \A e \in log : e.n \in Nat /\ e.src \in Tasks /\ emitted[e.src] \in Nat
    BY EventRecords DEF TypeInv, TypeOK
  <2>2. /\ ev'[t].src = t /\ ev'[t].n = emitted[t] + 1 /\ emitted'[t] = emitted[t] + 1
        /\ \A u \in Tasks \ {t} : ev'[u] = ev[u] /\ emitted'[u] = emitted[u] /\ pc'[u] = pc[u]
        /\ pc'[t] = "next_seq" /\ log' = log
    BY <1>1 DEF Emit, TypeInv, TypeOK
  <2>3. \A k : ~ InLog(log, t, emitted[t] + 1, k)
    BY <2>1 DEF OnceInv, LogNumbered, InLog
  <2>4. DurableOnce' BY <2>2 DEF OnceInv, DurableOnce
  <2>5. LogNumbered'
    <3>. SUFFICES ASSUME NEW e \in log PROVE e.n <= emitted'[e.src]
      BY <2>2 DEF LogNumbered
    <3>1. e.n <= emitted[e.src] BY DEF OnceInv, LogNumbered
    <3>2. e.src \in Tasks BY <2>1
    <3>. QED BY <2>1, <2>2, <3>1, <3>2
  <2>6. Numbered' BY <2>2 DEF OnceInv, Numbered
  <2>7. NotYetInLog'
    <3>1. \A u \in Tasks \ {t} : pc'[u] \in Unwritten => ~ InLog(log', u, ev'[u].n, ev'[u].kind)
      BY <2>2 DEF OnceInv, NotYetInLog
    <3>2. ~ InLog(log', t, ev'[t].n, ev'[t].kind) BY <2>2, <2>3
    <3>. QED BY <3>1, <3>2 DEF NotYetInLog
  <2>8. MarkerNotInLog'
    <3>1. \A u \in Tasks \ {t} :
             pc'[u] # "idle" /\ ev'[u].kind # "gap" => ~ InLog(log', u, ev'[u].n, "gap")
      BY <2>2 DEF OnceInv, MarkerNotInLog
    <3>2. ~ InLog(log', t, ev'[t].n, "gap") BY <2>2, <2>3
    <3>. QED BY <3>1, <3>2 DEF MarkerNotInLog
  <2>9. LostIsOrdinary' BY <2>2 DEF OnceInv, LostIsOrdinary
  <2>. QED BY <2>4, <2>5, <2>6, <2>7, <2>8, <2>9 DEF OnceInv
<1>2. ASSUME NEW t \in Tasks, NEW k \in Nat, pc[t] \in Unwritten, Allocate(t, k),
             log' = log, emitted' = emitted
      PROVE  OnceInv'
  <2>1. ev[t] \in Event BY DEF TypeInv, TypeOK
  <2>2. /\ [ev[t] EXCEPT !.seq = k].src = ev[t].src
        /\ [ev[t] EXCEPT !.seq = k].n = ev[t].n
        /\ [ev[t] EXCEPT !.seq = k].kind = ev[t].kind
    BY <2>1 DEF Event
  <2>3. ev'[t] = [ev[t] EXCEPT !.seq = k] /\ pc'[t] = "append"
    BY <1>2 DEF Allocate, TypeInv, TypeOK
  <2>4. \A u \in Tasks \ {t} : ev'[u] = ev[u] /\ pc'[u] = pc[u]
    BY <1>2 DEF Allocate, TypeInv, TypeOK
  <2>5. LostIsOrdinary BY DEF OnceInv
  <2>. QED BY <1>2, <2>2, <2>3, <2>4, <2>5, QuietOnce DEF Unwritten, LostIsOrdinary
<1>3. ASSUME NEW t \in Tasks, NextSeqCached(t) PROVE OnceInv'
  <2>1. seqs[Home[t]] + 1 \in Nat BY DEF TypeInv, TypeOK
  <2>. QED BY <1>2, <1>3, <2>1 DEF NextSeqCached, Unwritten
<1>4. ASSUME NEW t \in Tasks, NextSeqSeeded(t) PROVE OnceInv'
  <2>1. (IF seqs[Home[t]] # 0 THEN seqs[Home[t]] + 1 ELSE seeded[t] + 1) \in Nat
    BY DEF TypeInv, TypeOK
  <2>. QED BY <1>2, <1>4, <2>1 DEF NextSeqSeeded, Unwritten
<1>5. ASSUME NEW t \in Tasks,
             NextSeqMiss(t) \/ ReadHighWater(t) \/ ReadHighWaterFails(t) \/ AppendConflict(t)
      PROVE  OnceInv'
  <2>1. /\ pc[t] \in Unwritten /\ pc'[t] \in Unwritten
        /\ \A u \in Tasks \ {t} : pc'[u] = pc[u]
        /\ ev' = ev /\ log' = log /\ emitted' = emitted
    BY <1>5 DEF NextSeqMiss, ReadHighWater, ReadHighWaterFails, AppendConflict,
                Unwritten, TypeInv, TypeOK
  <2>2. LostIsOrdinary BY DEF OnceInv
  <2>. QED BY <2>1, <2>2, QuietOnce DEF Unwritten, LostIsOrdinary
<1>6. ASSUME NEW t \in Tasks, AppendOk(t) PROVE OnceInv'
  <2>1. pc'[t] = "publish" /\ \A u \in Tasks \ {t} : pc'[u] = pc[u]
    BY <1>6 DEF AppendOk, TypeInv, TypeOK
  <2>. QED BY <1>6, <2>1, WriteOnce DEF AppendOk
<1>7. ASSUME NEW t \in Tasks, AppendConflictExhausted(t) \/ AppendFails(t) PROVE OnceInv'
  <2>1. /\ pc[t] = "append"
        /\ pc'[t] = "publish" \/ (pc'[t] = "publish_lost" /\ ev[t].kind # "gap")
        /\ \A u \in Tasks \ {t} : pc'[u] = pc[u]
        /\ ev' = ev /\ emitted' = emitted
    BY <1>7 DEF AppendConflictExhausted, AppendFails, AppendError, TypeInv, TypeOK
  <2>2. CASE log' = log
    <3>1. LostIsOrdinary BY DEF OnceInv
    <3>. QED BY <2>1, <2>2, <3>1, QuietOnce DEF Unwritten, LostIsOrdinary
  <2>3. CASE log' = log \cup {ev[t]}
    BY <2>1, <2>3, WriteOnce
  <2>. QED BY <1>7, <2>2, <2>3 DEF AppendConflictExhausted, AppendFails
<1>8. ASSUME NEW t \in Tasks, Publish(t) PROVE OnceInv'
  <2>1. LostIsOrdinary BY DEF OnceInv
  <2>. QED BY <1>8, <2>1, QuietOnce DEF Publish, TypeInv, TypeOK, LostIsOrdinary
<1>9. ASSUME NEW t \in Tasks, PublishLost(t) PROVE OnceInv'
  <2>1. /\ pc[t] = "publish_lost" /\ ev[t].kind # "gap"
        /\ ev[t].n = emitted[t] /\ ~ InLog(log, t, ev[t].n, "gap")
    BY <1>9 DEF PublishLost, OnceInv, LostIsOrdinary, Numbered, MarkerNotInLog
  <2>2. /\ ev'[t].src = t /\ ev'[t].n = ev[t].n /\ ev'[t].kind = "gap" /\ pc'[t] = "next_seq"
        /\ \A u \in Tasks \ {t} : ev'[u] = ev[u] /\ pc'[u] = pc[u]
        /\ log' = log /\ emitted' = emitted
    BY <1>9 DEF PublishLost, TypeInv, TypeOK
  <2>3. DurableOnce' /\ LogNumbered' BY <2>2 DEF OnceInv, DurableOnce, LogNumbered
  <2>4. Numbered' BY <2>1, <2>2 DEF OnceInv, Numbered
  <2>5. NotYetInLog'
    <3>1. ~ InLog(log', t, ev'[t].n, ev'[t].kind) BY <2>1, <2>2
    <3>2. \A u \in Tasks \ {t} : pc'[u] \in Unwritten => ~ InLog(log', u, ev'[u].n, ev'[u].kind)
      BY <2>2 DEF OnceInv, NotYetInLog
    <3>. QED BY <3>1, <3>2 DEF NotYetInLog
  <2>6. MarkerNotInLog'
    <3>1. \A u \in Tasks \ {t} :
             pc'[u] # "idle" /\ ev'[u].kind # "gap" => ~ InLog(log', u, ev'[u].n, "gap")
      BY <2>2 DEF OnceInv, MarkerNotInLog
    <3>. QED BY <2>2, <3>1 DEF MarkerNotInLog
  <2>7. LostIsOrdinary' BY <2>1, <2>2 DEF OnceInv, LostIsOrdinary
  <2>. QED BY <2>3, <2>4, <2>5, <2>6, <2>7 DEF OnceInv
<1>10. ASSUME NEW r \in Replicas, Crash(r) PROVE OnceInv'
  <2>1. LostIsOrdinary BY DEF OnceInv
  <2>2. \A u \in Tasks : pc'[u] # "idle" => pc'[u] = pc[u] /\ ev'[u] = ev[u]
    BY <1>10 DEF Crash, TypeInv, TypeOK
  <2>. QED BY <1>10, <2>1, <2>2, QuietOnce DEF Crash, LostIsOrdinary
<1>11. ASSUME Prune PROVE OnceInv'
  <2>1. LostIsOrdinary BY DEF OnceInv
  <2>2. log' \subseteq log /\ emitted' = emitted /\ pc' = pc /\ ev' = ev
    BY <1>11 DEF Prune
  <2>. QED BY <2>1, <2>2, QuietOnce DEF LostIsOrdinary
<1>12. CASE UNCHANGED vars
  <2>1. LostIsOrdinary BY DEF OnceInv
  <2>. QED BY <1>12, <2>1, QuietOnce DEF vars, LostIsOrdinary
<1>. QED
  BY <1>1, <1>3, <1>4, <1>5, <1>6, <1>7, <1>8, <1>9, <1>10, <1>11, <1>12 DEF Next, Step

(***************************************************************************)
(* append_with_seq_retry never writes an event twice: whatever the races,   *)
(* conflicts, store errors and crashes, each emitted event (and each gap    *)
(* marker) is in the durable log under at most one seq.                     *)
(***************************************************************************)
THEOREM DurableOnceHolds == Spec => []DurableOnce
<1>1. Init => OnceInv
  BY DEF Init, OnceInv, DurableOnce, LogNumbered, Numbered, NotYetInLog,
         MarkerNotInLog, LostIsOrdinary, InLog, Unwritten
<1>2. TypeInv /\ OnceInv /\ [Next]_vars => OnceInv'
  BY OnceStep
<1>3. OnceInv => DurableOnce BY DEF OnceInv
<1>. QED BY InitType, StepType, <1>1, <1>2, <1>3, PTL DEF Spec

----------------------------------------------------------------------------
(***************************************************************************)
(* Why a task's rows are in order: as long as no high_water read has failed, *)
(* the counter of its replica covers every row of the task, a read that is   *)
(* still to seed the counter covers them too, and the event it is about to   *)
(* append has a seq above all of them that the counter already covers.       *)
(***************************************************************************)
RowsBelow(t, k) == \A e \in log : e.src = t => e.seq <= k

OrderCounter ==
    \A t \in Tasks : InOrder(t) /\ seqs[Home[t]] # 0 => RowsBelow(t, seqs[Home[t]])

OrderRead ==
    \A t, u \in Tasks :
        InOrder(t) /\ Home[u] = Home[t] /\ pc[u] = "reseeded" /\ seqs[Home[t]] = 0 =>
            RowsBelow(t, seeded[u])

OrderAppend ==
    \A t \in Tasks : InOrder(t) /\ pc[t] = "append" =>
        /\ 0 < ev[t].seq /\ ev[t].seq <= seqs[Home[t]]
        /\ RowsBelow(t, ev[t].seq - 1)

OrderInv == DurableOrder /\ (readFaults = 0 => OrderCounter /\ OrderRead /\ OrderAppend)

(***************************************************************************)
(* Allocating a seq above the rows of every ordered task of the replica.    *)
(***************************************************************************)
LEMMA AllocateOrder ==
    ASSUME TypeInv, OrderInv, readFaults = 0, NEW t \in Tasks, NEW k \in Nat, k > 0,
           pc[t] # "append", Allocate(t, k), log' = log, readFaults' = readFaults,
           seqs[Home[t]] < k, \A u \in Tasks \ {t} : seeded'[u] = seeded[u],
           \A u \in Tasks : InOrder(u) /\ Home[u] = Home[t] => RowsBelow(u, k - 1)
    PROVE  OrderInv'
<1>. USE DEF TypeInv
<1>1. /\ seqs'[Home[t]] = k
      /\ \A r \in Replicas : r # Home[t] => seqs'[r] = seqs[r]
      /\ ev'[t].seq = k
      /\ pc'[t] = "append"
      /\ \A u \in Tasks \ {t} : ev'[u] = ev[u] /\ pc'[u] = pc[u]
  <2>1. ev[t] \in Event BY DEF TypeOK
  <2>2. [ev[t] EXCEPT !.seq = k].seq = k BY <2>1 DEF Event
  <2>3. ev'[t].seq = k BY <2>2 DEF Allocate, TypeOK
  <2>. QED BY <2>3 DEF Allocate, TypeOK
<1>2. /\ \A e \in log : e.seq \in Nat
      /\ \A u \in Tasks : ev[u].seq \in Nat /\ seqs[Home[u]] \in Nat /\ Home[u] \in Replicas
  BY EventRecords DEF TypeOK
<1>3. OrderCounter /\ OrderRead /\ OrderAppend
  BY DEF OrderInv
<1>4. DurableOrder'
  BY DEF OrderInv, DurableOrder, InOrder
<1>5. OrderCounter'
  <2>. SUFFICES ASSUME NEW u \in Tasks, InOrder(u), NEW e \in log, e.src = u,
                       seqs'[Home[u]] # 0
                PROVE  e.seq <= seqs'[Home[u]]
    BY DEF OrderCounter, RowsBelow, InOrder
  <2>1. CASE Home[u] = Home[t]
    BY <1>1, <1>2, <2>1 DEF RowsBelow
  <2>2. CASE Home[u] # Home[t]
    BY <1>1, <1>2, <1>3, <2>2 DEF OrderCounter, RowsBelow
  <2>. QED BY <2>1, <2>2
<1>6. OrderRead'
  <2>. SUFFICES ASSUME NEW u \in Tasks, NEW v \in Tasks, InOrder(u), Home[v] = Home[u],
                       pc'[v] = "reseeded", seqs'[Home[u]] = 0, NEW e \in log, e.src = u
                PROVE  e.seq <= seeded'[v]
    BY DEF OrderRead, RowsBelow, InOrder
  <2>1. CASE Home[u] = Home[t]
    BY <1>1, <2>1
  <2>2. CASE Home[u] # Home[t]
    <3>1. v # t /\ pc[v] = "reseeded" /\ seqs[Home[u]] = 0
      BY <1>1, <1>2, <2>2
    <3>. QED BY <1>3, <3>1 DEF OrderRead, RowsBelow
  <2>. QED BY <2>1, <2>2
<1>7. OrderAppend'
  <2>. SUFFICES ASSUME NEW u \in Tasks, InOrder(u), pc'[u] = "append"
                PROVE  /\ 0 < ev'[u].seq /\ ev'[u].seq <= seqs'[Home[u]]
                       /\ \A e \in log : e.src = u => e.seq <= ev'[u].seq - 1
    BY DEF OrderAppend, RowsBelow, InOrder
  <2>1. CASE u = t
    BY <1>1, <2>1 DEF RowsBelow
  <2>2. CASE u # t
    <3>1. pc[u] = "append" /\ ev'[u] = ev[u]
      BY <1>1, <2>2
    <3>2. 0 < ev[u].seq /\ ev[u].seq <= seqs[Home[u]] /\ RowsBelow(u, ev[u].seq - 1)
      BY <1>3, <3>1 DEF OrderAppend
    <3>3. seqs[Home[u]] <= seqs'[Home[u]]
      BY <1>1, <1>2
    <3>4. seqs'[Home[u]] \in Nat
      BY <1>1, <1>2
    <3>. QED BY <1>2, <3>1, <3>2, <3>3, <3>4 DEF RowsBelow
  <2>. QED BY <2>1, <2>2
<1>. QED BY <1>4, <1>5, <1>6, <1>7 DEF OrderInv

(***************************************************************************)
(* The event a task appends is the last it has emitted, so its row comes    *)
(* after its other rows.                                                    *)
(***************************************************************************)
LEMMA AppendOrder ==
    ASSUME TypeInv, OnceInv, OrderInv, NEW t \in Tasks,
           pc[t] = "append", pc'[t] \in {"publish", "publish_lost"},
           \A u \in Tasks \ {t} : pc'[u] = pc[u],
           log' = log \cup {ev[t]},
           seqs' = seqs, ev' = ev, seeded' = seeded, readFaults' = readFaults
    PROVE  OrderInv'
<1>. SUFFICES ASSUME readFaults = 0
              PROVE  DurableOrder' /\ OrderCounter' /\ OrderRead' /\ OrderAppend'
  BY DEF OrderInv, DurableOrder
<1>. USE DEF TypeInv
<1>1. /\ \A e \in log : e.seq \in Nat /\ e.n \in Nat
      /\ \A u \in Tasks : ev[u].seq \in Nat /\ seqs[Home[u]] \in Nat
  BY EventRecords DEF TypeOK
<1>2. OrderCounter /\ OrderRead /\ OrderAppend /\ DurableOrder
  BY DEF OrderInv
<1>3. ev[t].src = t /\ \A e \in log : e.src = t => e.n <= ev[t].n
  BY DEF OnceInv, Numbered, LogNumbered
<1>4. InOrder(t) => \A e \in log : e.src = t => e.seq < ev[t].seq
  BY <1>1, <1>2 DEF OrderAppend, RowsBelow
<1>5. DurableOrder'
  <2>. SUFFICES ASSUME NEW e \in log', NEW f \in log', InOrder(e.src), e.src = f.src,
                       e.seq < f.seq
                PROVE  e.n <= f.n
    BY DEF DurableOrder, InOrder
  <2>1. CASE e \in log /\ f \in log
    BY <1>2, <2>1 DEF DurableOrder
  <2>2. CASE f = ev[t] /\ e \in log
    BY <1>3, <2>2
  <2>3. CASE e = ev[t] /\ f \in log
    BY <1>1, <1>3, <1>4, <2>3
  <2>4. CASE e = ev[t] /\ f = ev[t]
    BY <1>1, <2>4
  <2>. QED BY <2>1, <2>2, <2>3, <2>4
<1>6. OrderCounter'
  BY <1>1, <1>2, <1>3 DEF OrderCounter, OrderAppend, RowsBelow, InOrder
<1>7. OrderRead'
  <2>. SUFFICES ASSUME NEW u \in Tasks, NEW v \in Tasks, InOrder(u), Home[v] = Home[u],
                       pc'[v] = "reseeded", seqs[Home[u]] = 0, NEW e \in log', e.src = u
                PROVE  e.seq <= seeded[v]
    BY DEF OrderRead, RowsBelow, InOrder
  <2>1. v # t /\ pc[v] = "reseeded"
    OBVIOUS
  <2>2. CASE e \in log
    BY <1>2, <2>1, <2>2 DEF OrderRead, RowsBelow
  <2>3. CASE e = ev[t]
    BY <1>1, <1>2, <1>3, <2>3 DEF OrderAppend
  <2>. QED BY <2>2, <2>3
<1>8. OrderAppend'
  BY <1>2, <1>3 DEF OrderAppend, RowsBelow, InOrder
<1>. QED BY <1>5, <1>6, <1>7, <1>8

(***************************************************************************)
(* A step that adds no row and no read, and allocates nothing.              *)
(***************************************************************************)
LEMMA QuietOrder ==
    ASSUME OrderInv, log' \subseteq log, seqs' = seqs, readFaults' = readFaults,
           \A u \in Tasks : pc'[u] = "append" => pc[u] = "append" /\ ev'[u] = ev[u],
           \A u \in Tasks : pc'[u] = "reseeded" => pc[u] = "reseeded" /\ seeded'[u] = seeded[u]
    PROVE  OrderInv'
  BY DEF OrderInv, DurableOrder, OrderCounter, OrderRead, OrderAppend, RowsBelow, InOrder

(***************************************************************************)
(* Every step keeps OrderInv.                                               *)
(***************************************************************************)
LEMMA OrderStep ==
    ASSUME TypeInv, OnceInv, OrderInv, [Next]_vars
    PROVE  OrderInv'
<1>. USE DEF TypeInv, faultVars
<1>0. /\ \A e \in log : e.seq \in Nat
      /\ \A u \in Tasks : /\ ev[u].seq \in Nat /\ seeded[u] \in Nat
                          /\ Home[u] \in Replicas /\ seqs[Home[u]] \in Nat
      /\ readFaults \in Nat
  BY EventRecords DEF TypeOK
<1>1. ASSUME NEW t \in Tasks, Emit(t) PROVE OrderInv'
  BY <1>1, QuietOrder DEF Emit, TypeOK
<1>2. ASSUME NEW t \in Tasks, NextSeqCached(t) PROVE OrderInv'
  <2>1. CASE readFaults # 0
    BY <1>2, <2>1 DEF NextSeqCached, OrderInv, DurableOrder
  <2>2. CASE readFaults = 0
    <3>1. \A u \in Tasks : InOrder(u) /\ Home[u] = Home[t] => RowsBelow(u, seqs[Home[t]])
      BY <1>2, <2>2 DEF NextSeqCached, OrderInv, OrderCounter
    <3>2. DEFINE k == seqs[Home[t]] + 1
    <3>3. k \in Nat /\ k > 0 /\ k - 1 = seqs[Home[t]] /\ seqs[Home[t]] < k
      BY <1>0
    <3>4. /\ pc[t] # "append" /\ Allocate(t, k) /\ log' = log /\ readFaults' = readFaults
          /\ seeded' = seeded
      BY <1>2 DEF NextSeqCached
    <3> HIDE DEF k
    <3>. QED BY <2>2, <3>1, <3>3, <3>4, AllocateOrder
  <2>. QED BY <2>1, <2>2
<1>3. ASSUME NEW t \in Tasks, NextSeqMiss(t) PROVE OrderInv'
  BY <1>3, QuietOrder DEF NextSeqMiss, TypeOK
<1>4. ASSUME NEW t \in Tasks, ReadHighWater(t) PROVE OrderInv'
  <2>1. /\ log' = log /\ seqs' = seqs /\ ev' = ev /\ readFaults' = readFaults
        /\ seeded'[t] = HighWater /\ pc'[t] = "reseeded"
        /\ \A u \in Tasks \ {t} : seeded'[u] = seeded[u] /\ pc'[u] = pc[u]
    BY <1>4 DEF ReadHighWater, TypeOK
  <2>2. \A e \in log : e.seq <= HighWater
    BY HighWaterBounds
  <2>3. DurableOrder' /\ (OrderCounter => OrderCounter')
    BY <2>1 DEF OrderInv, DurableOrder, OrderCounter, RowsBelow, InOrder
  <2>4. OrderAppend => OrderAppend'
    BY <2>1 DEF OrderAppend, RowsBelow, InOrder
  <2>5. OrderRead => OrderRead'
    BY <2>1, <2>2 DEF OrderRead, RowsBelow, InOrder
  <2>. QED
    BY <2>1, <2>3, <2>4, <2>5 DEF OrderInv
<1>5. ASSUME NEW t \in Tasks, ReadHighWaterFails(t) PROVE OrderInv'
  BY <1>0, <1>5 DEF ReadHighWaterFails, OrderInv, DurableOrder
<1>6. ASSUME NEW t \in Tasks, NextSeqSeeded(t) PROVE OrderInv'
  <2>1. CASE readFaults # 0
    BY <1>6, <2>1 DEF NextSeqSeeded, OrderInv, DurableOrder
  <2>2. CASE readFaults = 0
    <3>1. \A u \in Tasks : InOrder(u) /\ Home[u] = Home[t] =>
             IF seqs[Home[t]] # 0 THEN RowsBelow(u, seqs[Home[t]]) ELSE RowsBelow(u, seeded[t])
      BY <1>6, <2>2 DEF NextSeqSeeded, OrderInv, OrderCounter, OrderRead
    <3>2. DEFINE k == IF seqs[Home[t]] # 0 THEN seqs[Home[t]] + 1 ELSE seeded[t] + 1
    <3>3. /\ k \in Nat /\ k > 0 /\ seqs[Home[t]] < k
          /\ k - 1 = IF seqs[Home[t]] # 0 THEN seqs[Home[t]] ELSE seeded[t]
      <4>1. seqs[Home[t]] \in Nat /\ seeded[t] \in Nat
        BY <1>0
      <4>2. \A m, n \in Nat :
                LET j == IF m # 0 THEN m + 1 ELSE n + 1
                IN  j \in Nat /\ j > 0 /\ m < j /\ j - 1 = IF m # 0 THEN m ELSE n
        OBVIOUS
      <4>. QED BY <4>1, <4>2
    <3>4. /\ pc[t] # "append" /\ Allocate(t, k) /\ log' = log /\ readFaults' = readFaults
          /\ \A u \in Tasks \ {t} : seeded'[u] = seeded[u]
      BY <1>6 DEF NextSeqSeeded, TypeOK
    <3>5. \A u \in Tasks : InOrder(u) /\ Home[u] = Home[t] => RowsBelow(u, k - 1)
      BY <3>1, <3>3
    <3> HIDE DEF k
    <3>. QED BY <2>2, <3>3, <3>4, <3>5, AllocateOrder
  <2>. QED BY <2>1, <2>2
<1>7. ASSUME NEW t \in Tasks, AppendOk(t) PROVE OrderInv'
  <2>1. pc'[t] = "publish" /\ \A u \in Tasks \ {t} : pc'[u] = pc[u]
    BY <1>7 DEF AppendOk, TypeOK
  <2>. QED BY <1>7, <2>1, AppendOrder DEF AppendOk
<1>8. ASSUME NEW t \in Tasks, AppendConflict(t) PROVE OrderInv'
  <2>1. /\ log' = log /\ ev' = ev /\ seeded' = seeded /\ readFaults' = readFaults
        /\ seqs'[Home[t]] = 0 /\ pc'[t] = "next_seq" /\ UniqueIndex
        /\ \A r \in Replicas \ {Home[t]} : seqs'[r] = seqs[r]
        /\ \A u \in Tasks \ {t} : pc'[u] = pc[u]
    BY <1>8 DEF AppendConflict, Conflicts, TypeOK
  <2>2. \A u \in Tasks : InOrder(u) /\ Home[u] = Home[t] => u = t
    BY <2>1 DEF InOrder
  <2>3. DurableOrder'
    BY <2>1 DEF OrderInv, DurableOrder, InOrder
  <2>4. ASSUME readFaults = 0 PROVE OrderCounter' /\ OrderRead' /\ OrderAppend'
    <3>1. OrderCounter /\ OrderRead /\ OrderAppend
      BY <2>4 DEF OrderInv
    <3>2. OrderCounter'
      BY <1>0, <2>1, <3>1 DEF OrderCounter, RowsBelow, InOrder
    <3>3. OrderRead'
      <4>. SUFFICES ASSUME NEW u \in Tasks, NEW v \in Tasks, InOrder(u), Home[v] = Home[u],
                           pc'[v] = "reseeded", seqs'[Home[u]] = 0, NEW e \in log, e.src = u
                    PROVE  e.seq <= seeded[v]
        BY <2>1 DEF OrderRead, RowsBelow, InOrder
      <4>1. Home[u] # Home[t]
        BY <2>1, <2>2 DEF InOrder
      <4>2. seqs[Home[u]] = 0 /\ pc[v] = "reseeded"
        BY <1>0, <2>1, <4>1
      <4>. QED BY <3>1, <4>2 DEF OrderRead, RowsBelow
    <3>4. OrderAppend'
      <4>. SUFFICES ASSUME NEW u \in Tasks, InOrder(u), pc'[u] = "append"
                    PROVE  /\ 0 < ev[u].seq /\ ev[u].seq <= seqs'[Home[u]]
                           /\ \A e \in log : e.src = u => e.seq <= ev[u].seq - 1
        BY <2>1 DEF OrderAppend, RowsBelow, InOrder
      <4>1. u # t /\ Home[u] # Home[t]
        BY <2>1, <2>2
      <4>. QED BY <1>0, <2>1, <3>1, <4>1 DEF OrderAppend, RowsBelow
    <3>. QED BY <3>2, <3>3, <3>4
  <2>. QED BY <2>1, <2>3, <2>4 DEF OrderInv
<1>9. ASSUME NEW t \in Tasks, AppendConflictExhausted(t) \/ AppendFails(t) PROVE OrderInv'
  <2>1. /\ pc[t] = "append" /\ pc'[t] \in {"publish", "publish_lost"}
        /\ \A u \in Tasks \ {t} : pc'[u] = pc[u]
        /\ seqs' = seqs /\ ev' = ev /\ seeded' = seeded /\ readFaults' = readFaults
        /\ log' = log \/ log' = log \cup {ev[t]}
    BY <1>9 DEF AppendConflictExhausted, AppendFails, AppendError, TypeOK
  <2>2. CASE log' = log
    BY <2>1, <2>2, QuietOrder
  <2>3. CASE log' = log \cup {ev[t]}
    BY <2>1, <2>3, AppendOrder
  <2>. QED BY <2>1, <2>2, <2>3
<1>11. ASSUME NEW t \in Tasks, Publish(t) \/ PublishLost(t) PROVE OrderInv'
  <2>1. /\ pc'[t] \in {"idle", "next_seq"} /\ \A u \in Tasks \ {t} : pc'[u] = pc[u] /\ ev'[u] = ev[u]
        /\ seqs' = seqs /\ seeded' = seeded /\ readFaults' = readFaults /\ log' = log
    BY <1>11 DEF Publish, PublishLost, TypeOK
  <2>. QED BY <2>1, QuietOrder
<1>13. ASSUME NEW r \in Replicas, Crash(r) PROVE OrderInv'
  <2>1. /\ log' = log /\ readFaults' = readFaults /\ seqs'[r] = 0
        /\ \A q \in Replicas \ {r} : seqs'[q] = seqs[q]
        /\ \A u \in Tasks : IF Home[u] = r THEN pc'[u] = "idle"
                            ELSE pc'[u] = pc[u] /\ ev'[u] = ev[u] /\ seeded'[u] = seeded[u]
    BY <1>13 DEF Crash, TypeOK
  <2>2. DurableOrder'
    BY <2>1 DEF OrderInv, DurableOrder, InOrder
  <2>3. ASSUME readFaults = 0 PROVE OrderCounter' /\ OrderRead' /\ OrderAppend'
    <3>1. OrderCounter /\ OrderRead /\ OrderAppend
      BY <2>3 DEF OrderInv
    <3>2. OrderCounter'
      BY <1>0, <2>1, <3>1 DEF OrderCounter, RowsBelow, InOrder
    <3>3. OrderRead'
      <4>. SUFFICES ASSUME NEW u \in Tasks, NEW v \in Tasks, InOrder(u), Home[v] = Home[u],
                           pc'[v] = "reseeded", seqs'[Home[u]] = 0, NEW e \in log, e.src = u
                    PROVE  e.seq <= seeded'[v]
        BY <2>1 DEF OrderRead, RowsBelow, InOrder
      <4>1. Home[v] # r /\ pc[v] = "reseeded" /\ seeded'[v] = seeded[v]
        BY <2>1
      <4>2. seqs[Home[u]] = 0
        BY <1>0, <2>1, <4>1
      <4>. QED BY <3>1, <4>1, <4>2 DEF OrderRead, RowsBelow
    <3>4. OrderAppend'
      BY <1>0, <2>1, <3>1 DEF OrderAppend, RowsBelow, InOrder
    <3>. QED BY <3>2, <3>3, <3>4
  <2>. QED BY <2>1, <2>2, <2>3 DEF OrderInv
<1>14. ASSUME Prune PROVE OrderInv'
  BY <1>14, QuietOrder DEF Prune
<1>15. CASE UNCHANGED vars
  BY <1>15, QuietOrder DEF vars
<1>. QED
  BY <1>1, <1>2, <1>3, <1>4, <1>5, <1>6, <1>7, <1>8, <1>9, <1>11,
     <1>13, <1>14, <1>15 DEF Next, Step

----------------------------------------------------------------------------
(***************************************************************************)
(* Why nothing a subscriber saw is lost silently: an event that is published *)
(* without a marker to come is durable, and it stays so until then, since    *)
(* retention spares what is still being written.                             *)
(***************************************************************************)
Told(e) == e \in log \/ e.seq <= prunedTo

MarkedOn(r, e) == \E m \in Published(r) : m.kind = "gap" /\ m.lost = e.seq

MarkedSoon(r, e) ==
    \E t \in Tasks : Home[t] = r /\ pc[t] # "idle" /\ ev[t].kind = "gap" /\ ev[t].lost = e.seq

Accounted(r, e) == e.kind # "gap" => Told(e) \/ MarkedOn(r, e) \/ MarkedSoon(r, e)

WrittenFirst == \A t \in Tasks : pc[t] = "publish" /\ ev[t].kind # "gap" => ev[t] \in log

LossInv == NoSilentLoss /\ WrittenFirst

LEMMA LossIsAccounting ==
    NoSilentLoss <=> \A r \in Replicas : \A e \in Published(r) : Accounted(r, e)
  BY DEF NoSilentLoss, Accounted, Told, MarkedOn, MarkedSoon

LEMMA PublishedAppend ==
    ASSUME NEW s \in Seq(Event), NEW e \in Event
    PROVE  Range(Append(s, e)) = Range(s) \cup {e}
<1>1. Len(s) \in Nat /\ DOMAIN s = 1 .. Len(s) /\ DOMAIN Append(s, e) = 1 .. Len(s) + 1
  OBVIOUS
<1>2. /\ \A i \in 1 .. Len(s) : Append(s, e)[i] = s[i]
      /\ Append(s, e)[Len(s) + 1] = e
  OBVIOUS
<1>3. 1 .. Len(s) + 1 = (1 .. Len(s)) \cup {Len(s) + 1}
  BY <1>1
<1>. QED BY <1>1, <1>2, <1>3 DEF Range

LEMMA MaxOfTwo ==
    ASSUME NEW a \in Nat, NEW b \in Nat
    PROVE  a <= Max({a, b}) /\ b <= Max({a, b})
<1>1. {a, b} \in SUBSET Nat
  OBVIOUS
<1>2. HasMax({a, b})
  BY DEF HasMax
<1>3. Max({a, b}) \in Nat /\ \A x \in {a, b} : Max({a, b}) >= x
  BY <1>1, <1>2, MaxIsMax
<1>. QED BY <1>3

(***************************************************************************)
(* A step that publishes nothing, deletes no row and keeps the markers that  *)
(* are under way.                                                            *)
(***************************************************************************)
LEMMA QuietLoss ==
    ASSUME LossInv, log \subseteq log', prunedTo' = prunedTo, bus' = bus,
           \A u \in Tasks : pc'[u] = "publish" /\ ev'[u].kind # "gap" => ev'[u] \in log',
           \A u \in Tasks : pc[u] # "idle" /\ ev[u].kind = "gap" =>
               pc'[u] # "idle" /\ ev'[u].kind = "gap" /\ ev'[u].lost = ev[u].lost
    PROVE  LossInv'
<1>1. WrittenFirst'
  BY DEF WrittenFirst
<1>2. NoSilentLoss'
  <2>. SUFFICES ASSUME NEW r \in Replicas, NEW e \in Published(r), e.kind # "gap"
                PROVE  (Told(e) \/ MarkedOn(r, e) \/ MarkedSoon(r, e))'
    BY DEF NoSilentLoss, Told, MarkedOn, MarkedSoon, Published
  <2>1. Told(e) \/ MarkedOn(r, e) \/ MarkedSoon(r, e)
    BY LossIsAccounting DEF LossInv, Accounted
  <2>2. Told(e) => Told(e)'
    BY DEF Told
  <2>3. MarkedOn(r, e) => MarkedOn(r, e)'
    BY DEF MarkedOn, Published
  <2>4. MarkedSoon(r, e) => MarkedSoon(r, e)'
    BY DEF MarkedSoon
  <2>. QED BY <2>1, <2>2, <2>3, <2>4
<1>. QED BY <1>1, <1>2 DEF LossInv

(***************************************************************************)
(* A step that publishes the event in hand: the event itself is durable or   *)
(* its marker follows, and a marker in hand is now on the bus.               *)
(***************************************************************************)
LEMMA PublishLoss ==
    ASSUME TypeInv, LossInv, NEW t \in Tasks, log' = log, prunedTo' = prunedTo,
           bus' = [bus EXCEPT ![Home[t]] = Append(@, ev[t])],
           \A u \in Tasks \ {t} : pc'[u] = pc[u] /\ ev'[u] = ev[u],
           pc'[t] # "publish",
           ev[t].kind = "gap" \/ ev[t] \in log
             \/ (pc'[t] # "idle" /\ ev'[t].kind = "gap" /\ ev'[t].lost = ev[t].seq)
    PROVE  LossInv'
<1>. USE DEF TypeInv
<1>1. WrittenFirst'
  BY DEF WrittenFirst, LossInv
<1>2. \A r \in Replicas : Published(r)' = IF r = Home[t] THEN Published(r) \cup {ev[t]} ELSE Published(r)
  <2>1. Home[t] \in Replicas /\ bus[Home[t]] \in Seq(Event) /\ ev[t] \in Event
    BY DEF TypeOK
  <2>2. Range(Append(bus[Home[t]], ev[t])) = Range(bus[Home[t]]) \cup {ev[t]}
    BY <2>1, PublishedAppend
  <2>3. \A r \in Replicas :
           bus'[r] = IF r = Home[t] THEN Append(bus[Home[t]], ev[t]) ELSE bus[r]
    BY <2>1 DEF TypeOK
  <2>. SUFFICES ASSUME NEW r \in Replicas
                PROVE  Published(r)' = IF r = Home[t] THEN Published(r) \cup {ev[t]}
                                       ELSE Published(r)
    OBVIOUS
  <2>4. CASE r = Home[t]
    BY <2>2, <2>3, <2>4 DEF Published
  <2>5. CASE r # Home[t]
    BY <2>3, <2>5 DEF Published
  <2>. QED BY <2>4, <2>5
<1>3. NoSilentLoss'
  <2>. SUFFICES ASSUME NEW r \in Replicas, NEW e \in Published(r)', e.kind # "gap"
                PROVE  (Told(e) \/ MarkedOn(r, e) \/ MarkedSoon(r, e))'
    BY DEF NoSilentLoss, Told, MarkedOn, MarkedSoon, Published
  <2>1. CASE e \in Published(r)
    <3>1. Told(e) \/ MarkedOn(r, e) \/ MarkedSoon(r, e)
      BY <2>1, LossIsAccounting DEF LossInv, Accounted
    <3>2. Told(e) => Told(e)'
      BY DEF Told
    <3>3. MarkedOn(r, e) => MarkedOn(r, e)'
      BY <1>2 DEF MarkedOn
    <3>4. ASSUME MarkedSoon(r, e) PROVE MarkedOn(r, e)' \/ MarkedSoon(r, e)'
      <4>1. PICK u \in Tasks : /\ Home[u] = r /\ pc[u] # "idle" /\ ev[u].kind = "gap"
                               /\ ev[u].lost = e.seq
        BY <3>4 DEF MarkedSoon
      <4>2. CASE u = t
        <5>1. ev[t] \in Published(r)'
          BY <1>2, <4>1, <4>2
        <5>. QED BY <4>1, <4>2, <5>1 DEF MarkedOn
      <4>3. CASE u # t
        BY <4>1, <4>3 DEF MarkedSoon
      <4>. QED BY <4>2, <4>3
    <3>. QED BY <3>1, <3>2, <3>3, <3>4
  <2>2. CASE e \notin Published(r)
    <3>1. r = Home[t] /\ e = ev[t]
      BY <1>2, <2>2
    <3>2. CASE ev[t] \in log
      BY <3>1, <3>2 DEF Told
    <3>3. CASE ev[t] \notin log
      BY <3>1, <3>3 DEF MarkedSoon
    <3>. QED BY <3>2, <3>3
  <2>. QED BY <2>1, <2>2
<1>. QED BY <1>1, <1>3 DEF LossInv

(***************************************************************************)
(* Every step keeps LossInv.                                                *)
(***************************************************************************)
LEMMA LossStep ==
    ASSUME TypeInv, OnceInv, LossInv, [Next]_vars
    PROVE  LossInv'
<1>. USE DEF TypeInv, faultVars
<1>0. WrittenFirst /\ LostIsOrdinary
  BY DEF LossInv, OnceInv
<1>1. ASSUME NEW t \in Tasks, Emit(t) PROVE LossInv'
  <2>1. /\ pc[t] = "idle" /\ pc'[t] = "next_seq"
        /\ \A u \in Tasks \ {t} : pc'[u] = pc[u] /\ ev'[u] = ev[u]
        /\ log' = log /\ prunedTo' = prunedTo /\ bus' = bus
    BY <1>1 DEF Emit, TypeOK
  <2>. QED BY <1>0, <2>1, QuietLoss DEF WrittenFirst
<1>2. ASSUME NEW t \in Tasks, NEW k \in Nat, pc[t] # "idle", Allocate(t, k),
             log' = log, prunedTo' = prunedTo, bus' = bus
      PROVE  LossInv'
  <2>1. ev[t] \in Event
    BY DEF TypeOK
  <2>2. /\ [ev[t] EXCEPT !.seq = k].kind = ev[t].kind
        /\ [ev[t] EXCEPT !.seq = k].lost = ev[t].lost
    BY <2>1 DEF Event
  <2>3. ev'[t] = [ev[t] EXCEPT !.seq = k] /\ pc'[t] = "append"
    BY <1>2 DEF Allocate, TypeOK
  <2>4. \A u \in Tasks \ {t} : pc'[u] = pc[u] /\ ev'[u] = ev[u]
    BY <1>2 DEF Allocate, TypeOK
  <2>. QED BY <1>0, <1>2, <2>2, <2>3, <2>4, QuietLoss DEF WrittenFirst
<1>3. ASSUME NEW t \in Tasks, NextSeqCached(t) PROVE LossInv'
  <2>1. seqs[Home[t]] + 1 \in Nat
    BY DEF TypeOK
  <2>. QED BY <1>2, <1>3, <2>1 DEF NextSeqCached
<1>4. ASSUME NEW t \in Tasks, NextSeqSeeded(t) PROVE LossInv'
  <2>1. (IF seqs[Home[t]] # 0 THEN seqs[Home[t]] + 1 ELSE seeded[t] + 1) \in Nat
    BY DEF TypeOK
  <2>. QED BY <1>2, <1>4, <2>1 DEF NextSeqSeeded
<1>5. ASSUME NEW t \in Tasks,
             NextSeqMiss(t) \/ ReadHighWater(t) \/ ReadHighWaterFails(t) \/ AppendConflict(t)
      PROVE  LossInv'
  <2>1. /\ pc[t] # "idle" /\ pc'[t] \notin {"idle", "publish"}
        /\ \A u \in Tasks \ {t} : pc'[u] = pc[u]
        /\ ev' = ev /\ log' = log /\ prunedTo' = prunedTo /\ bus' = bus
    BY <1>5 DEF NextSeqMiss, ReadHighWater, ReadHighWaterFails, AppendConflict, TypeOK
  <2>. QED BY <1>0, <2>1, QuietLoss DEF WrittenFirst
<1>6. ASSUME NEW t \in Tasks, AppendOk(t) PROVE LossInv'
  <2>1. /\ pc[t] # "idle" /\ pc'[t] = "publish"
        /\ \A u \in Tasks \ {t} : pc'[u] = pc[u]
        /\ ev' = ev /\ log' = log \cup {ev[t]} /\ prunedTo' = prunedTo /\ bus' = bus
    BY <1>6 DEF AppendOk, TypeOK
  <2>. QED BY <1>0, <2>1, QuietLoss DEF WrittenFirst
<1>7. ASSUME NEW t \in Tasks, AppendConflictExhausted(t) \/ AppendFails(t) PROVE LossInv'
  <2>1. /\ pc[t] # "idle"
        /\ pc'[t] = IF ev[t].kind = "gap" THEN "publish" ELSE "publish_lost"
        /\ \A u \in Tasks \ {t} : pc'[u] = pc[u]
        /\ ev' = ev /\ log \subseteq log' /\ prunedTo' = prunedTo /\ bus' = bus
    BY <1>7 DEF AppendConflictExhausted, AppendFails, AppendError, TypeOK
  <2>. QED BY <1>0, <2>1, QuietLoss DEF WrittenFirst
<1>8. ASSUME NEW t \in Tasks, Publish(t) PROVE LossInv'
  <2>1. /\ pc'[t] = "idle" /\ log' = log /\ prunedTo' = prunedTo
        /\ bus' = [bus EXCEPT ![Home[t]] = Append(@, ev[t])]
        /\ \A u \in Tasks \ {t} : pc'[u] = pc[u] /\ ev'[u] = ev[u]
    BY <1>8 DEF Publish, TypeOK
  <2>2. ev[t].kind = "gap" \/ ev[t] \in log
    BY <1>0, <1>8 DEF Publish, WrittenFirst
  <2>. QED BY <2>1, <2>2, PublishLoss
<1>9. ASSUME NEW t \in Tasks, PublishLost(t) PROVE LossInv'
  <2>1. /\ pc'[t] = "next_seq" /\ log' = log /\ prunedTo' = prunedTo
        /\ bus' = [bus EXCEPT ![Home[t]] = Append(@, ev[t])]
        /\ \A u \in Tasks \ {t} : pc'[u] = pc[u] /\ ev'[u] = ev[u]
        /\ ev'[t].kind = "gap" /\ ev'[t].lost = ev[t].seq
    BY <1>9 DEF PublishLost, TypeOK
  <2>. QED BY <2>1, PublishLoss
<1>10. ASSUME NEW r \in Replicas, Crash(r) PROVE LossInv'
  <2>1. /\ log' = log /\ prunedTo' = prunedTo
        /\ bus' = [bus EXCEPT ![r] = <<>>]
        /\ \A u \in Tasks : IF Home[u] = r THEN pc'[u] = "idle"
                            ELSE pc'[u] = pc[u] /\ ev'[u] = ev[u]
    BY <1>10 DEF Crash, TypeOK
  <2>2. WrittenFirst'
    BY <1>0, <2>1 DEF WrittenFirst
  <2>3. Published(r)' = {} /\ \A q \in Replicas \ {r} : Published(q)' = Published(q)
    BY <2>1 DEF Published, Range, TypeOK
  <2>4. NoSilentLoss'
    <3>. SUFFICES ASSUME NEW q \in Replicas, NEW e \in Published(q)', e.kind # "gap"
                  PROVE  (Told(e) \/ MarkedOn(q, e) \/ MarkedSoon(q, e))'
      BY DEF NoSilentLoss, Told, MarkedOn, MarkedSoon, Published
    <3>1. q # r /\ Published(q)' = Published(q)
      BY <2>3
    <3>2. Told(e) \/ MarkedOn(q, e) \/ MarkedSoon(q, e)
      BY <3>1, LossIsAccounting DEF LossInv, Accounted
    <3>3. Told(e) => Told(e)'
      BY <2>1 DEF Told
    <3>4. MarkedOn(q, e) => MarkedOn(q, e)'
      BY <3>1 DEF MarkedOn
    <3>5. MarkedSoon(q, e) => MarkedSoon(q, e)'
      BY <2>1, <3>1 DEF MarkedSoon
    <3>. QED BY <3>2, <3>3, <3>4, <3>5
  <2>. QED BY <2>2, <2>4 DEF LossInv
<1>11. ASSUME Prune PROVE LossInv'
  <2>1. PICK cut \in SeqsOf(log) :
           /\ \A t \in Tasks : pc[t] \in {"append", "publish", "publish_lost"} => cut < ev[t].seq
           /\ log' = {e \in log : e.seq > cut} /\ prunedTo' = Max({prunedTo, cut})
    BY <1>11 DEF Prune
  <2>2. cut \in Nat /\ prunedTo \in Nat /\ \A u \in Tasks : ev[u].seq \in Nat
    BY EventRecords DEF TypeOK, SeqsOf
  <2>3. prunedTo <= prunedTo' /\ cut <= prunedTo' /\ prunedTo' \in Nat
    <3>1. prunedTo' \in Nat
      BY StepType DEF TypeOK
    <3>. QED BY <2>1, <2>2, <3>1, MaxOfTwo
  <2>4. pc' = pc /\ ev' = ev /\ bus' = bus
    BY <1>11 DEF Prune
  <2>5. WrittenFirst'
    BY <1>0, <2>1, <2>2, <2>4 DEF WrittenFirst
  <2>6. NoSilentLoss'
    <3>. SUFFICES ASSUME NEW q \in Replicas, NEW e \in Published(q), e.kind # "gap"
                  PROVE  (Told(e) \/ MarkedOn(q, e) \/ MarkedSoon(q, e))'
      BY <2>4 DEF NoSilentLoss, Told, MarkedOn, MarkedSoon, Published
    <3>1. Told(e) \/ MarkedOn(q, e) \/ MarkedSoon(q, e)
      BY LossIsAccounting DEF LossInv, Accounted
    <3>2. e.seq \in Nat
      BY EventRecords DEF Published, Range, TypeOK
    <3>3. Told(e) => Told(e)'
      BY <2>1, <2>2, <2>3, <3>2 DEF Told
    <3>4. MarkedOn(q, e) => MarkedOn(q, e)'
      BY <2>4 DEF MarkedOn, Published
    <3>5. MarkedSoon(q, e) => MarkedSoon(q, e)'
      BY <2>4 DEF MarkedSoon
    <3>. QED BY <3>1, <3>3, <3>4, <3>5
  <2>. QED BY <2>5, <2>6 DEF LossInv
<1>12. CASE UNCHANGED vars
  BY <1>0, <1>12, QuietLoss DEF vars, WrittenFirst
<1>. QED
  BY <1>1, <1>3, <1>4, <1>5, <1>6, <1>7, <1>8, <1>9, <1>10, <1>11, <1>12 DEF Next, Step

(***************************************************************************)
(* What a stream owes its readers, whatever the races, conflicts, store      *)
(* errors, crashes and retention: rows that are well formed and, for each    *)
(* task whose counter no conflict can take back, in the order the task       *)
(* emitted them (`next_seq`), and no event that was published live and is    *)
(* neither durable nor named by a gap marker (`emit_persist_gap`).           *)
(***************************************************************************)
THEOREM EmitterSoundHolds == Spec => []EmitterSound
<1>1. Init => OnceInv
  BY DEF Init, OnceInv, DurableOnce, LogNumbered, Numbered, NotYetInLog,
         MarkerNotInLog, LostIsOrdinary, InLog, Unwritten
<1>2. Init => OrderInv
  BY DEF Init, OrderInv, DurableOrder, OrderCounter, OrderRead, OrderAppend
<1>3. Init => LossInv
  <2>. SUFFICES ASSUME Init PROVE LossInv
    OBVIOUS
  <2>1. \A r \in Replicas : Published(r) = {}
    BY DEF Init, Published, Range
  <2>. QED BY <2>1 DEF Init, LossInv, NoSilentLoss, WrittenFirst
<1>4. TypeInv /\ OnceInv /\ [Next]_vars => OnceInv'
  BY OnceStep
<1>5. TypeInv /\ OnceInv /\ OrderInv /\ [Next]_vars => OrderInv'
  BY OrderStep
<1>6. TypeInv /\ OnceInv /\ LossInv /\ [Next]_vars => LossInv'
  BY LossStep
<1>7. TypeInv /\ OrderInv /\ LossInv => EmitterSound
  BY DEF TypeInv, OrderInv, LossInv, EmitterSound
<1>. QED BY InitType, StepType, <1>1, <1>2, <1>3, <1>4, <1>5, <1>6, <1>7, PTL DEF Spec

============================================================================
