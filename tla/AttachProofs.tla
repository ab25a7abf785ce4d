---------------------------- MODULE AttachProofs ----------------------------
(***************************************************************************)
(* Reaching an agent: at most one task per replica reads it, for any        *)
(* replicas, callers and bounds of Leases; a task resumes where it stopped, *)
(* over all of its connections, for every run of an agent, every retry      *)
(* budget and any number of drops of AttachLoop; and the calls made of      *)
(* caliband are carried out and answered as Session says, for any calls,    *)
(* whatever is lost.                                                        *)
(***************************************************************************)
EXTENDS Leases, AttachLoop, Session, SequenceTheorems, FiniteSetTheorems, TLAPS

(* The inductive invariant: AttachOnce and the types it needs. *)
OneTask ==
    /\ running \in [Replicas -> Nat]
    /\ attached \subseteq Replicas
    /\ AttachOnce

(* No task runs at the start. *)
LEMMA OneTaskInit == Init => OneTask
  BY DEF Init, OneTask, AttachOnce

(* attached.insert decides: a task is spawned only where there is none. *)
LEMMA SpawnAttachKeeps ==
    ASSUME OneTask, NEW c \in Callers, SpawnAttach(c)
    PROVE  OneTask'
<1> DEFINE r == At[c]
<1>1. r \in Replicas
  BY AtAssumption
<1>2. r \notin attached /\ attached' = attached \cup {r}
  BY DEF SpawnAttach
<1>3. running' = [running EXCEPT ![r] = @ + 1]
  BY DEF SpawnAttach
<1>4. running[r] = 0
  BY <1>1, <1>2 DEF OneTask, AttachOnce
<1> HIDE DEF r
<1>5. QED
  BY <1>1, <1>2, <1>3, <1>4 DEF OneTask, AttachOnce

(* A task leaves attach_loop and the set together. *)
LEMMA LeaveAttachedKeeps ==
    ASSUME OneTask, NEW r \in Replicas, LeaveAttached(r)
    PROVE  OneTask'
<1>1. running[r] = 1
  BY DEF OneTask, AttachOnce, LeaveAttached
<1>2. QED
  BY <1>1 DEF OneTask, AttachOnce, LeaveAttached

(* A crash takes the tasks and the set with it. *)
LEMMA CrashKeeps ==
    ASSUME OneTask, NEW r \in Replicas, Crash(r)
    PROVE  OneTask'
  BY DEF OneTask, AttachOnce, Crash

(* Every step of start_attach, of a task or of a replica keeps it. *)
LEMMA OneTaskStep == OneTask /\ [Next]_leaseVars => OneTask'
<1> SUFFICES ASSUME OneTask, [Next]_leaseVars
             PROVE  OneTask'
  OBVIOUS
<1>1. ASSUME UNCHANGED <<running, attached>>
      PROVE  OneTask'
  BY <1>1 DEF OneTask, AttachOnce
<1>2. CASE UNCHANGED leaseVars
  BY <1>1, <1>2 DEF leaseVars
<1>3. ASSUME NEW c \in Callers, Observe(c) \/ Attach(c)
      PROVE  OneTask'
  <2>1. CASE SpawnAttach(c)
    BY <2>1, SpawnAttachKeeps
  <2>2. CASE Observe(c) \/ CheckAttached(c) \/ TryAcquire(c) \/ TryAcquireRefused(c)
             \/ TryAcquireFails(c) \/ RecordHeld(c) \/ LostRace(c)
    BY <1>1, <2>2 DEF Observe, CheckAttached, TryAcquire, TryAcquireRefused,
                      TryAcquireFails, RecordHeld, LostRace
  <2>3. QED
    BY <1>3, <2>1, <2>2 DEF Attach
<1>4. ASSUME NEW r \in Replicas,
             \/ AttachEnds(r) \/ AttachGivesUp(r) \/ Release(r)
             \/ Heartbeat(r) \/ Crash(r) \/ Restart(r)
      PROVE  OneTask'
  <2>1. CASE AttachEnds(r) \/ AttachGivesUp(r)
    BY <2>1, LeaveAttachedKeeps DEF AttachEnds, AttachGivesUp
  <2>2. CASE Release(r) \/ Heartbeat(r) \/ Restart(r)
    BY <1>1, <2>2 DEF Release, ReleaseHeld, DeleteRow, DeleteRowFails, Heartbeat,
                      HeartbeatReads, Renew, RenewFails, DropHeld, Restart
  <2>3. CASE Crash(r)
    BY <2>3, CrashKeeps
  <2>4. QED
    BY <1>4, <2>1, <2>2, <2>3
<1>5. CASE AgentFinishes \/ Tick
  BY <1>1, <1>5 DEF AgentFinishes, Tick
<1>6. QED
  BY <1>2, <1>3, <1>4, <1>5 DEF Next

(***************************************************************************)
(* At most one attach task per replica drives the agent, whatever callers   *)
(* race through start_attach (fleet.rs), however leases expire and          *)
(* statements fail.                                                         *)
(***************************************************************************)
THEOREM AttachOnceHolds == Spec => []AttachOnce
<1>1. Init => OneTask
  BY OneTaskInit
<1>2. OneTask /\ [Next]_leaseVars => OneTask'
  BY OneTaskStep
<1>3. OneTask => AttachOnce
  BY DEF OneTask
<1>4. QED
  BY <1>1, <1>2, <1>3, PTL DEF Spec

(* Every variable keeps its type, and nothing is released that was not held: *)
(* no counter of tasks, epoch or lease falls below zero (LeasedOwnership,    *)
(* start_attach), for any replicas, callers, lease lifetime and bounds.      *)
THEOREM LeaseTypeCorrect == Spec => []LeaseTypeOK
<1>1. Init => LeaseTypeOK
  BY NobodyAssumption, TtlAssumption, LeaseBoundsAssumption DEF Init, LeaseTypeOK, NoRow, PCs
<1>2. LeaseTypeOK /\ [Next]_leaseVars => LeaseTypeOK'
  <2>. SUFFICES ASSUME LeaseTypeOK, [Next]_leaseVars PROVE LeaseTypeOK'
    OBVIOUS
  <2>1. ASSUME NEW c \in Callers, Observe(c) \/ Attach(c) PROVE LeaseTypeOK'
    <3>1. At[c] \in Replicas
      BY AtAssumption
    <3>2. Granted(At[c]) \in [owner : Replicas \cup {Nobody}, epoch : Nat, left : 0..Ttl]
      BY <3>1, TtlAssumption DEF Granted, LeaseTypeOK
    <3>3. CASE Observe(c) \/ CheckAttached(c) \/ TryAcquireRefused(c) \/ LostRace(c)
      BY <3>3 DEF Observe, CheckAttached, TryAcquireRefused, LostRace, Return, LeaseTypeOK, PCs
    <3>4. CASE TryAcquire(c)
      BY <3>2, <3>4 DEF TryAcquire, LeaseTypeOK, PCs
    <3>5. CASE TryAcquireFails(c)
      BY <3>2, <3>5, LeaseBoundsAssumption DEF TryAcquireFails, Return, LeaseTypeOK, PCs
    <3>6. CASE RecordHeld(c)
      BY <3>1, <3>6 DEF RecordHeld, LeaseTypeOK, PCs
    <3>7. CASE SpawnAttach(c)
      BY <3>1, <3>7 DEF SpawnAttach, Return, LeaseTypeOK, PCs
    <3>. QED BY <2>1, <3>3, <3>4, <3>5, <3>6, <3>7 DEF Attach
  <2>2. ASSUME NEW r \in Replicas, AttachEnds(r) \/ AttachGivesUp(r) PROVE LeaseTypeOK'
    BY <2>2, LeaseBoundsAssumption DEF AttachEnds, AttachGivesUp, LeaveAttached, LeaseTypeOK
  <2>3. ASSUME NEW r \in Replicas, Release(r) PROVE LeaseTypeOK'
    <3>1. NoRow \in [owner : Replicas \cup {Nobody}, epoch : Nat, left : 0..Ttl]
      BY TtlAssumption DEF NoRow
    <3>. QED BY <2>3, <3>1, LeaseBoundsAssumption
         DEF Release, ReleaseHeld, DeleteRow, DeleteRowFails, LeaseTypeOK
  <2>4. ASSUME NEW r \in Replicas, Heartbeat(r) PROVE LeaseTypeOK'
    BY <2>4, TtlAssumption, LeaseBoundsAssumption
    DEF Heartbeat, HeartbeatReads, Renew, RenewFails, DropHeld, LeaseTypeOK
  <2>5. ASSUME NEW r \in Replicas, Crash(r) PROVE LeaseTypeOK'
    BY <2>5, LeaseBoundsAssumption DEF Crash, LeaseTypeOK, PCs
  <2>6. ASSUME NEW r \in Replicas, Restart(r) PROVE LeaseTypeOK'
    BY <2>6 DEF Restart, LeaseTypeOK
  <2>7. CASE AgentFinishes \/ UNCHANGED leaseVars
    BY <2>7 DEF AgentFinishes, leaseVars, LeaseTypeOK
  <2>8. CASE Tick
    BY <2>8, TtlAssumption, LeaseBoundsAssumption DEF Tick, LeaseTypeOK
  <2>. QED BY <2>1, <2>2, <2>3, <2>4, <2>5, <2>6, <2>7, <2>8 DEF Next
<1>. QED BY <1>1, <1>2, PTL DEF Spec

(* On a connection the task has not read past what it has processed: what    *)
(* it reads next is either skipped or the very next frame.                   *)
ReadsNoFurther == stage \in {"reading", "eof"} => idx <= frames_seen

(* A task that is to try again has a try left. *)
TryLeft == stage = "backoff" => attempt < MaxRetries

(* What the task has emitted lies within what it has processed. *)
EmittedIsSeen == \A i \in base + 1..Len(sent) : sent[i] <= frames_seen

AttachInv == AttachSound /\ ReadsNoFurther /\ TryLeft /\ EmittedIsSeen

(* A step that emits nothing and processes nothing keeps the argument. *)
LEMMA AttachQuietStep ==
  ASSUME AttachInv, AttachTypeOK', ReadsNoFurther', TryLeft',
         UNCHANGED <<sent, base, frames_seen>>,
         torn' = 0 => torn = 0
  PROVE  AttachInv'
  BY DEF AttachInv, AttachSound, AttachTypeOK, ResumesExactly, EmittedIsSeen, Emitted

(* What is within the frames processed stays within them. *)
LEMMA SeenStays ==
  ASSUME AttachTypeOK, EmittedIsSeen, UNCHANGED <<sent, base>>,
         frames_seen' \in Nat, frames_seen <= frames_seen'
  PROVE  EmittedIsSeen'
<1> SUFFICES ASSUME NEW i \in base + 1..Len(sent)
             PROVE  sent[i] <= frames_seen'
  BY DEF EmittedIsSeen
<1>1. sent[i] <= frames_seen
  BY DEF EmittedIsSeen
<1>2. sent[i] \in Nat /\ frames_seen \in Nat
  <2>1. i \in 1..Len(sent)
    BY DEF AttachTypeOK
  <2>2. sent \in Seq(1..Len(Frames)) /\ Len(Frames) \in Nat /\ frames_seen \in Nat
    BY FramesAssumption DEF AttachTypeOK
  <2>3. sent[i] \in 1..Len(Frames)
    BY <2>1, <2>2
  <2> QED BY <2>2, <2>3
<1> QED BY <1>1, <1>2

(* The end of a connection, whether or not it made progress. *)
LEMMA ReconnectStep ==
  ASSUME AttachInv, NEW progress \in BOOLEAN, Reconnect(progress)
  PROVE  /\ attempt' \in 0..MaxRetries
         /\ stage' \in {"off", "backoff"}
         /\ stage' = "backoff" => attempt' < MaxRetries
  BY AttachBoundsAssumption DEF Reconnect, AttachInv, AttachSound, AttachTypeOK

(* The initial states satisfy the invariant. *)
LEMMA AttachInitInv == AttachInit => AttachInv
  BY AttachBoundsAssumption, FramesAssumption
  DEF AttachInit, AttachInv, AttachSound, AttachTypeOK, ResumesExactly, ReadsNoFurther,
      TryLeft, EmittedIsSeen, Emitted

(* A whole line: skipped, or the frame after the last one processed. *)
LEMMA ReadFrameStep == AttachInv /\ ReadFrame => AttachInv'
<1> SUFFICES ASSUME AttachInv, ReadFrame PROVE AttachInv'
  OBVIOUS
<1> USE FramesAssumption, AttachBoundsAssumption
<1>1. /\ AttachTypeOK /\ ResumesExactly /\ idx <= frames_seen /\ EmittedIsSeen
      /\ idx' = idx + 1 /\ idx' \in 1..Len(Frames)
      /\ stage = "reading" /\ stage' = "reading" /\ base' = base /\ torn' = torn
  BY DEF AttachInv, AttachSound, AttachTypeOK, ReadsNoFurther, ReadFrame
<1>2. CASE idx' <= frames_seen
  <2>1. UNCHANGED <<sent, base, frames_seen>>
    BY <1>2, <1>1 DEF ReadFrame
  <2>2. AttachTypeOK' /\ ReadsNoFurther' /\ TryLeft'
    BY <1>1, <1>2 DEF ReadFrame, AttachTypeOK, ReadsNoFurther, TryLeft
  <2> QED BY <1>1, <2>1, <2>2, AttachQuietStep
<1>3. CASE ~ (idx' <= frames_seen)
  <2>1. idx' = frames_seen + 1 /\ frames_seen' = idx'
    BY <1>1, <1>3 DEF ReadFrame, AttachTypeOK
  <2>2. ReadsNoFurther' /\ TryLeft'
    BY <1>1, <2>1 DEF ReadsNoFurther, TryLeft, AttachTypeOK
  <2>a. /\ idx' \in 0..Len(Frames) /\ frames_seen' \in 0..Len(Frames) /\ saw_terminal' \in Nat
        /\ written' \in 0..Len(Frames) /\ status' \in {"live", "terminal"}
        /\ stage' \in {"off", "connect", "reading", "eof", "backoff"}
        /\ before' \in 0..Len(Frames) /\ attempt' \in 0..MaxRetries
        /\ drops' \in 0..MaxDrops /\ torn' \in 0..MaxTorn /\ shutdown' \in 0..1
        /\ deaf' \in 0..1 /\ lateStarts' \in 0..MaxLateStarts
    <3>1. idx' \in 0..Len(Frames) /\ frames_seen' \in 0..Len(Frames)
      BY <1>1, <2>1
    <3>2. saw_terminal' \in Nat
      BY <1>1, <1>3 DEF ReadFrame, AttachTypeOK
    <3> QED BY <1>1, <3>1, <3>2 DEF ReadFrame, AttachTypeOK
  <2>3. CASE Frames[idx'] = "quiet"
    <3>1. sent' = sent
      BY <1>3, <2>3 DEF ReadFrame
    <3>2. AttachTypeOK'
      <4>1. sent' \in Seq(1..Len(Frames)) /\ base' \in 0..Len(sent')
        BY <1>1, <3>1 DEF AttachTypeOK
      <4> QED BY <2>a, <4>1 DEF AttachTypeOK
    <3>3. {k \in 1..frames_seen' : Frames[k] # "quiet"} = {k \in 1..frames_seen : Frames[k] # "quiet"}
      BY <1>1, <2>1, <2>3 DEF AttachTypeOK
    <3>4. Emitted' = Emitted
      BY <1>1, <3>1 DEF Emitted
    <3>5. ResumesExactly'
      BY <1>1, <3>1, <3>3, <3>4 DEF ResumesExactly
    <3>6. EmittedIsSeen'
      <4>1. frames_seen <= frames_seen' /\ frames_seen' \in Nat
        BY <1>1, <2>1 DEF AttachTypeOK
      <4> QED BY <1>1, <3>1, <4>1, SeenStays
    <3> QED BY <2>2, <3>2, <3>5, <3>6 DEF AttachInv, AttachSound
  <2>4. CASE Frames[idx'] # "quiet"
    <3>1. /\ sent' = Append(sent, idx') /\ Len(sent') = Len(sent) + 1
          /\ sent'[Len(sent) + 1] = idx'
          /\ \A i \in 1..Len(sent) : sent'[i] = sent[i]
      <4>1. sent' = Append(sent, idx')
        BY <1>3, <2>4 DEF ReadFrame
      <4>2. sent \in Seq(1..Len(Frames))
        BY <1>1 DEF AttachTypeOK
      <4> QED BY <1>1, <4>1, <4>2
    <3>2. AttachTypeOK'
      <4>1. sent' \in Seq(1..Len(Frames)) /\ base' \in 0..Len(sent')
        BY <1>1, <3>1 DEF AttachTypeOK
      <4> QED BY <2>a, <4>1 DEF AttachTypeOK
    <3>3. EmittedIsSeen'
      <4>1. base \in Nat /\ Len(sent) \in Nat
        BY <1>1 DEF AttachTypeOK
      <4> SUFFICES ASSUME NEW i \in base + 1..Len(sent) + 1
                   PROVE  sent'[i] <= frames_seen'
        BY <1>1, <3>1 DEF EmittedIsSeen
      <4>2. CASE i = Len(sent) + 1
        BY <1>1, <2>1, <3>1, <4>2
      <4>3. CASE i # Len(sent) + 1
        <5>1. i \in base + 1..Len(sent) /\ i \in 1..Len(sent)
          BY <4>1, <4>3
        <5>2. sent'[i] = sent[i] /\ sent[i] <= frames_seen /\ sent[i] \in Nat
          BY <1>1, <3>1, <5>1 DEF EmittedIsSeen, AttachTypeOK
        <5>3. frames_seen \in Nat
          BY <1>1 DEF AttachTypeOK
        <5> QED BY <2>1, <5>2, <5>3
      <4> QED BY <4>2, <4>3
    <3>4. \A i, j \in base' + 1..Len(sent') : i < j => sent'[i] < sent'[j]
      <4> SUFFICES ASSUME NEW i \in base + 1..Len(sent) + 1, NEW j \in base + 1..Len(sent) + 1,
                          i < j
                   PROVE  sent'[i] < sent'[j]
        BY <1>1, <3>1
      <4>1. i \in base + 1..Len(sent) /\ sent'[i] = sent[i] /\ sent[i] <= frames_seen
            /\ sent[i] \in Nat
        BY <1>1, <3>1 DEF EmittedIsSeen, AttachTypeOK
      <4>2. CASE j = Len(sent) + 1
        BY <1>1, <2>1, <3>1, <4>1, <4>2 DEF AttachTypeOK
      <4>3. CASE j # Len(sent) + 1
        <5>1. j \in base + 1..Len(sent) /\ sent'[j] = sent[j]
          <6>1. base \in Nat /\ Len(sent) \in Nat
            BY <1>1 DEF AttachTypeOK
          <6>2. j \in base + 1..Len(sent) /\ j \in 1..Len(sent)
            BY <4>3, <6>1
          <6> QED BY <3>1, <6>2
        <5>2. sent[i] < sent[j]
          BY <1>1, <4>1, <5>1 DEF ResumesExactly
        <5> QED BY <4>1, <5>1, <5>2
      <4> QED BY <4>2, <4>3
    <3>5. Emitted' = Emitted \cup {idx'}
      <4>1. base \in Nat /\ Len(sent) \in Nat /\ base <= Len(sent)
        BY <1>1 DEF AttachTypeOK
      <4>2. base' + 1..Len(sent') = (base + 1..Len(sent)) \cup {Len(sent) + 1}
        BY <1>1, <3>1, <4>1
      <4>3. \A i \in base + 1..Len(sent) : sent'[i] = sent[i]
        BY <3>1, <4>1
      <4>4. Emitted' = {sent'[i] : i \in (base + 1..Len(sent)) \cup {Len(sent) + 1}}
        BY <4>2, Zenon DEF Emitted
      <4>5. sent'[Len(sent) + 1] = idx'
        BY <3>1
      <4> QED BY <4>3, <4>4, <4>5, Zenon DEF Emitted
    <3>6. {k \in 1..frames_seen' : Frames[k] # "quiet"}
            = {k \in 1..frames_seen : Frames[k] # "quiet"} \cup {idx'}
      BY <1>1, <2>1, <2>4 DEF AttachTypeOK
    <3>7. ResumesExactly'
      BY <1>1, <3>4, <3>5, <3>6 DEF ResumesExactly
    <3> QED BY <2>2, <3>2, <3>3, <3>7 DEF AttachInv, AttachSound
  <2> QED BY <2>3, <2>4
<1> QED BY <1>2, <1>3

(* A torn line counts as processed and emits nothing; from here on the       *)
(* promise is order alone.                                                   *)
LEMMA ReadTornFrameStep == AttachInv /\ ReadTornFrame => AttachInv'
<1> SUFFICES ASSUME AttachInv, ReadTornFrame PROVE AttachInv'
  OBVIOUS
<1>1. /\ frames_seen' \in Nat /\ frames_seen' >= frames_seen /\ idx' <= frames_seen'
      /\ torn' # 0 /\ stage' = "eof" /\ UNCHANGED <<sent, base>>
  BY DEF ReadTornFrame, AttachInv, AttachSound, AttachTypeOK
<1>2. AttachTypeOK'
  <2>1. AttachTypeOK /\ Len(Frames) \in Nat
    BY FramesAssumption DEF AttachInv, AttachSound
  <2>2. idx' \in 0..Len(Frames) /\ frames_seen' \in 0..Len(Frames)
    BY <2>1 DEF ReadTornFrame, AttachTypeOK
  <2>3. torn' \in 0..MaxTorn
    BY <2>1, AttachBoundsAssumption DEF ReadTornFrame, AttachTypeOK
  <2> QED BY <2>1, <2>2, <2>3 DEF ReadTornFrame, AttachTypeOK
<1>3. ResumesExactly'
  BY <1>1 DEF AttachInv, AttachSound, ResumesExactly
<1>4. EmittedIsSeen'
  BY <1>1, SeenStays DEF AttachInv, AttachSound
<1> QED BY <1>1, <1>2, <1>3, <1>4 DEF AttachInv, AttachSound, ReadsNoFurther, TryLeft

(* A new task has emitted nothing and processed nothing. *)
LEMMA StartAttachStep == AttachInv /\ StartAttach => AttachInv'
<1> SUFFICES ASSUME AttachInv, StartAttach PROVE AttachInv'
  OBVIOUS
<1>1. AttachTypeOK'
  BY AttachBoundsAssumption DEF StartAttach, AttachInv, AttachSound, AttachTypeOK
<1>2. base' + 1..Len(sent') = {} /\ frames_seen' = 0 /\ stage' = "connect"
  BY DEF StartAttach, AttachInv, AttachSound, AttachTypeOK
<1>3. ResumesExactly' /\ EmittedIsSeen'
  BY <1>2 DEF ResumesExactly, EmittedIsSeen, Emitted
<1> QED BY <1>1, <1>2, <1>3 DEF AttachInv, AttachSound, ReadsNoFurther, TryLeft

(* Every step keeps the invariant. *)
LEMMA AttachStepInv == AttachInv /\ [AttachNext]_attachVars => AttachInv'
<1> SUFFICES ASSUME AttachInv, [AttachNext]_attachVars PROVE AttachInv'
  OBVIOUS
<1> USE FramesAssumption, AttachBoundsAssumption
<1>a. AttachTypeOK /\ ReadsNoFurther /\ TryLeft
  BY DEF AttachInv, AttachSound
<1>1. ASSUME AgentWrites \/ AgentEnds \/ BeginShutdown PROVE AttachInv'
  <2>1. CASE AgentWrites
    BY <1>a, <2>1, AttachQuietStep DEF AgentWrites, AttachTypeOK, ReadsNoFurther, TryLeft
  <2>2. CASE AgentEnds
    BY <1>a, <2>2, AttachQuietStep DEF AgentEnds, AttachTypeOK, ReadsNoFurther, TryLeft
  <2>3. CASE BeginShutdown
    BY <1>a, <2>3, AttachQuietStep DEF BeginShutdown, AttachTypeOK, ReadsNoFurther, TryLeft
  <2> QED BY <1>1, <2>1, <2>2, <2>3
<1>2. ASSUME Connect \/ Backoff \/ ShutdownSeen PROVE AttachInv'
  <2>1. CASE Connect
    BY <1>a, <2>1, AttachQuietStep DEF Connect, AttachTypeOK, ReadsNoFurther, TryLeft
  <2>2. CASE Backoff
    BY <1>a, <2>2, AttachQuietStep DEF Backoff, AttachTypeOK, ReadsNoFurther, TryLeft
  <2>3. CASE ShutdownSeen
    BY <1>a, <2>3, AttachQuietStep DEF ShutdownSeen, AttachTypeOK, ReadsNoFurther, TryLeft
  <2> QED BY <1>2, <2>1, <2>2, <2>3
<1>3. ASSUME ConnectFails \/ Eof \/ PrematureEof \/ ReadError PROVE AttachInv'
  <2>1. /\ attempt' \in 0..MaxRetries
        /\ stage' \in {"off", "backoff"}
        /\ stage' = "backoff" => attempt' < MaxRetries
    <3>1. EndOfStream => \/ (stage' = "off" /\ attempt' = attempt)
                         \/ Reconnect(frames_seen > before)
      BY DEF EndOfStream
    <3>2. \/ (stage' = "off" /\ attempt' = attempt)
          \/ Reconnect(frames_seen > before) \/ Reconnect(FALSE)
      BY <1>3, <3>1 DEF ConnectFails, Eof, PrematureEof, ReadError
    <3>3. attempt \in 0..MaxRetries /\ (frames_seen > before) \in BOOLEAN
      BY <1>a DEF AttachTypeOK
    <3> QED BY <3>2, <3>3, ReconnectStep
  <2>2. /\ UNCHANGED <<written, status, frames_seen, before, idx, saw_terminal, sent, base,
                       torn, shutdown, deaf, lateStarts>>
        /\ (drops' = drops \/ (drops < MaxDrops /\ drops' = drops + 1))
    <3>1. CASE Eof
      <4>1. UNCHANGED <<written, status, frames_seen, before, idx, saw_terminal, sent, base,
                        drops, torn, shutdown, deaf, lateStarts>>
        BY <3>1 DEF Eof
      <4> QED BY <4>1
    <3>2. CASE ConnectFails
      BY <3>2 DEF ConnectFails
    <3>3. CASE PrematureEof
      BY <3>3 DEF PrematureEof
    <3>4. CASE ReadError
      BY <3>4 DEF ReadError
    <3> QED BY <1>3, <3>1, <3>2, <3>3, <3>4
  <2>3. AttachTypeOK' /\ ReadsNoFurther' /\ TryLeft'
    BY <1>a, <2>1, <2>2 DEF AttachTypeOK, ReadsNoFurther, TryLeft
  <2> QED BY <2>2, <2>3, AttachQuietStep
<1>4. CASE UNCHANGED attachVars
  BY <1>4 DEF attachVars, AttachInv, AttachSound, AttachTypeOK, ResumesExactly,
              ReadsNoFurther, TryLeft, EmittedIsSeen, Emitted
<1> QED
  BY <1>1, <1>2, <1>3, <1>4, ReadFrameStep, ReadTornFrameStep, StartAttachStep
  DEF AttachNext, Task

(* Across all of its connections a task emits each frame once and in order,  *)
(* and misses none it counts unless a line was torn (attach_loop,            *)
(* attach_once).                                                             *)
THEOREM AttachSoundHolds == AttachSpec => []AttachSound
<1>1. AttachInv => AttachSound
  BY DEF AttachInv
<1> QED BY <1>1, AttachInitInv, AttachStepInv, PTL DEF AttachSpec

(***************************************************************************)
(* The calls made of caliband. Their invariant says what a call has left to *)
(* do, what its connection and a reply on it are about, and that whatever   *)
(* prospero holds of caliband's registry, in a reply, in its snapshot or in *)
(* a frame on its way, is still true of the agents that are there.          *)
(***************************************************************************)

(* What a call may have left to do: the rest of its program.                 *)
LeftOver(op) ==
    CASE op = "spawn" -> {<<"spawn">>}
      [] op = "list" -> {<<"list">>}
      [] op = "kill" -> {<<"find", "kill">>, <<"kill">>}
      [] op = "respawn" -> {<<"find", "respawn">>, <<"respawn">>}
      [] op = "rm" -> {<<"find", "rm">>, <<"rm">>}
      [] op = "input" -> {<<"gate", "attach", "UserMessage">>, <<"attach", "UserMessage">>,
                          <<"UserMessage">>}
      [] op = "drain" -> {<<"gate", "attach", "EndInput", "linger", "find", "kill">>,
                          <<"attach", "EndInput", "linger", "find", "kill">>,
                          <<"EndInput", "linger", "find", "kill">>,
                          <<"linger", "find", "kill">>, <<"find", "kill">>, <<"kill">>}
      [] op = "restart" -> {<<"shutdown">>}
LastStep(op) ==
    CASE op = "spawn" -> "spawn" [] op = "list" -> "list" [] op = "kill" -> "kill"
      [] op = "respawn" -> "respawn" [] op = "rm" -> "rm" [] op = "input" -> "UserMessage"
      [] op = "drain" -> "kill" [] op = "restart" -> "shutdown"

AnyLeft == {<<>>} \cup UNION {LeftOver(op) : op \in Operations}

Registries == UNION {[S -> [status : WireStatus, interactive : BOOLEAN]] : S \in SUBSET Ids}
AnyReply ==
    {NoReply, <<"NotFound">>, <<"AttachAck">>} \cup {<<"Killed">>, <<"Removed">>, <<"ShutdownAck">>}
    \cup {<<"Spawned", i>> : i \in Ids} \cup {<<"Respawned", i>> : i \in Ids}
    \cup {<<"Listed", a>> : a \in Registries}
Answers == {Pending, "ok", "not_found", "invalid_state", "unreachable", "protocol", "io"}
Ended(a, i) == a[i].status \in WireEnded

(* What somebody holds of the registry: as old as it may be, of an agent that *)
(* is there it is right about the conversation, and about an end.            *)
StillTrue(a) ==
    /\ DOMAIN a \subseteq 1..nextId
    /\ \A i \in DOMAIN a \cap DOMAIN agents :
          /\ a[i].interactive = agents[i].interactive
          /\ Ended(a, i) => Ended(agents, i)
Talks(id) == id \in 1..nextId /\ (id \in DOMAIN agents => agents[id].interactive)
Stopped(id) == id \in 1..nextId /\ (id \in DOMAIN agents => Ended(agents, id))

Stranger == Tcp /\ setup.demands.token \notin {"none", setup.token}

(* Records keep their shape, ids are given in order.                         *)
SessionShape ==
    /\ {setup.token, setup.demands.token} \cap Requests = {}
    /\ nextId \in 0..MaxId /\ serving \in BOOLEAN
    /\ agents \in Registries /\ DOMAIN agents \subseteq 1..nextId /\ spawned \subseteq 1..nextId
    /\ snapshot \in Registries /\ \A i \in DOMAIN snapshot : snapshot[i].status # "drained"
    /\ call \in [Calls -> [op : Operations \cup {"none"}, on : Nat, todo : AnyLeft,
                           answer : Answers]]
    /\ conn \in [Calls -> [lines : Seq(Requests \cup {setup.token}), reply : AnyReply,
                           closed : BOOLEAN]]
    /\ served \in [Calls -> Seq(Requests)]

(* What comes back is the reply to the request the call is at.               *)
Replied(c) ==
    \/ /\ conn[c].reply = <<"NotFound">>
       /\ Doing(c) \notin {"list", "spawn"}
    \/ /\ Head(conn[c].reply) # "NotFound"
       /\ Did(c, Doing(c))
       /\ Doing(c) = "list" => conn[c].reply[2] \in Registries /\ StillTrue(conn[c].reply[2])
       /\ Doing(c) = "spawn" => conn[c].reply[2] \in 1..nextId

(* A call follows its program, and its connection belongs to the request it  *)
(* is at: written and not yet read, or read, with the reply to that request. *)
OnItsWay(c) ==
    /\ Open(c) => call[c].op \in Operations /\ call[c].todo \in LeftOver(call[c].op)
    /\ call[c].op = "none" => call[c].answer = "ok"
    /\ Dialed(c) =>
          /\ Open(c) /\ Doing(c) \in Requests
          /\ conn[c].lines \in {<<>>, Written(c).lines}
          /\ conn[c].lines # <<>> => conn[c].reply = NoReply /\ ~ conn[c].closed
          /\ conn[c].reply # NoReply => Replied(c)

(* A request that is yet to be read has not been carried out.                *)
NotYet(c) ==
    /\ IsInjective(served[c])
    /\ \A req : Did(c, req) /\ Open(c) =>
             \/ \A i \in 1..Len(call[c].todo) : call[c].todo[i] # req
             \/ req = Doing(c) /\ Dialed(c) /\ conn[c].lines = <<>>

(* A change of the registry is the last thing a call does.                   *)
LastChange(c) ==
    \A req \in Mutations : Did(c, req) =>
        IF Open(c) THEN Doing(c) = req /\ Dialed(c) /\ conn[c].lines = <<>>
                        /\ conn[c].reply # <<"NotFound">>
        ELSE call[c].answer \notin {"not_found", "invalid_state"}

Honest(c) ==
    Over(c) /\ call[c].answer = "ok" =>
        IF LastStep(call[c].op) \in Requests THEN Did(c, LastStep(call[c].op))
        ELSE <<LastStep(call[c].op), call[c].on, c>> \in inbox

StopsIt(c) == call[c].op = "drain" /\ Did(c, "kill") => Stopped(call[c].on)

(* Past the gate, and until its frame is written.                            *)
Addresses(c) ==
    Open(c) /\ call[c].todo \in {<<"attach", "UserMessage">>, <<"UserMessage">>,
                                 <<"attach", "EndInput", "linger", "find", "kill">>,
                                 <<"EndInput", "linger", "find", "kill">>}
        => Talks(call[c].on)

KeptOut(c) ==
    Stranger =>
        /\ served[c] = <<>> /\ conn[c].reply = NoReply
        /\ Open(c) => call[c].todo # <<"UserMessage">>
        /\ Over(c) => call[c].answer # "ok"

SessionInv ==
    /\ SessionShape
    /\ StillTrue(snapshot)
    /\ \A f \in inbox : Talks(f[2])
    /\ \A c \in Calls : /\ OnItsWay(c) /\ NotYet(c) /\ LastChange(c) /\ Honest(c)
                        /\ StopsIt(c) /\ Addresses(c) /\ KeptOut(c)

Own(c) ==
    /\ OnItsWay(c) /\ NotYet(c) /\ LastChange(c) /\ Honest(c)
    /\ StopsIt(c) /\ Addresses(c) /\ KeptOut(c)

(* What a call can have left, and what is left after its next step.          *)
LEMMA StepsLeft ==
    ASSUME NEW op \in Operations, NEW todo \in LeftOver(op)
    PROVE  /\ Len(todo) \in 1..6 /\ Head(todo) = todo[1]
           /\ Len(todo) = 1 => Head(todo) = LastStep(op) /\ Tail(todo) = <<>>
           /\ Len(todo) # 1 => Tail(todo) \in LeftOver(op)
           /\ Head(todo) \in Mutations \cup {"list", "UserMessage"} => Len(todo) = 1
           /\ \A i \in 1..Len(Tail(todo)) : /\ Tail(todo)[i] # Head(todo)
                                            /\ i + 1 \in 1..Len(todo) /\ Tail(todo)[i] = todo[i + 1]
<1>. DEFINE Fits(t, o) ==
           /\ Len(t) \in 1..6 /\ Head(t) = t[1]
           /\ Len(t) = 1 => Head(t) = LastStep(o) /\ Tail(t) = <<>>
           /\ Len(t) # 1 => Tail(t) \in LeftOver(o)
           /\ Head(t) \in Mutations \cup {"list", "UserMessage"} => Len(t) = 1
           /\ \A i \in 1..Len(Tail(t)) : /\ Tail(t)[i] # Head(t)
                                         /\ i + 1 \in 1..Len(t) /\ Tail(t)[i] = t[i + 1]
<1>1. Fits(<<"spawn">>, "spawn")
  BY DEF LastStep, Mutations
<1>2. Fits(<<"list">>, "list")
  BY DEF LastStep, Mutations
<1>3. Fits(<<"find", "kill">>, "kill")
  <2>1. Tail(<<"find", "kill">>) = <<"kill">>
    OBVIOUS
  <2>2. \A i \in 1..1 : <<"kill">>[i] # "find" /\ <<"kill">>[i] = <<"find", "kill">>[i + 1]
    OBVIOUS
  <2>. QED BY <2>1, <2>2 DEF LeftOver, Mutations
<1>4. Fits(<<"kill">>, "kill")
  BY DEF LastStep, Mutations
<1>5. Fits(<<"find", "respawn">>, "respawn")
  <2>1. Tail(<<"find", "respawn">>) = <<"respawn">>
    OBVIOUS
  <2>2. \A i \in 1..1 :
           /\ <<"respawn">>[i] # "find"
           /\ <<"respawn">>[i] = <<"find", "respawn">>[i + 1]
    OBVIOUS
  <2>. QED BY <2>1, <2>2 DEF LeftOver, Mutations
<1>6. Fits(<<"respawn">>, "respawn")
  BY DEF LastStep, Mutations
<1>7. Fits(<<"find", "rm">>, "rm")
  <2>1. Tail(<<"find", "rm">>) = <<"rm">>
    OBVIOUS
  <2>2. \A i \in 1..1 : <<"rm">>[i] # "find" /\ <<"rm">>[i] = <<"find", "rm">>[i + 1]
    OBVIOUS
  <2>. QED BY <2>1, <2>2 DEF LeftOver, Mutations
<1>8. Fits(<<"rm">>, "rm")
  BY DEF LastStep, Mutations
<1>9. Fits(<<"gate", "attach", "UserMessage">>, "input")
  <2>1. Tail(<<"gate", "attach", "UserMessage">>) = <<"attach", "UserMessage">>
    OBVIOUS
  <2>2. \A i \in 1..2 :
           /\ <<"attach", "UserMessage">>[i] # "gate"
           /\ <<"attach", "UserMessage">>[i] = <<"gate", "attach", "UserMessage">>[i + 1]
    OBVIOUS
  <2>. QED BY <2>1, <2>2 DEF LeftOver, Mutations
<1>10. Fits(<<"attach", "UserMessage">>, "input")
  <2>1. Tail(<<"attach", "UserMessage">>) = <<"UserMessage">>
    OBVIOUS
  <2>2. \A i \in 1..1 :
           /\ <<"UserMessage">>[i] # "attach"
           /\ <<"UserMessage">>[i] = <<"attach", "UserMessage">>[i + 1]
    OBVIOUS
  <2>. QED BY <2>1, <2>2 DEF LeftOver, Mutations
<1>11. Fits(<<"UserMessage">>, "input")
  BY DEF LastStep, Mutations
<1>12. Fits(<<"gate", "attach", "EndInput", "linger", "find", "kill">>, "drain")
  <2>1. Tail(<<"gate", "attach", "EndInput", "linger", "find", "kill">>)
           = <<"attach", "EndInput", "linger", "find", "kill">>
    OBVIOUS
  <2>2. \A i \in 1..5 :
           /\ <<"attach", "EndInput", "linger", "find", "kill">>[i] # "gate"
           /\ <<"attach", "EndInput", "linger", "find", "kill">>[i]
                 = <<"gate", "attach", "EndInput", "linger", "find", "kill">>[i + 1]
    OBVIOUS
  <2>. QED BY <2>1, <2>2 DEF LeftOver, Mutations
<1>13. Fits(<<"attach", "EndInput", "linger", "find", "kill">>, "drain")
  <2>1. Tail(<<"attach", "EndInput", "linger", "find", "kill">>)
           = <<"EndInput", "linger", "find", "kill">>
    OBVIOUS
  <2>2. \A i \in 1..4 :
           /\ <<"EndInput", "linger", "find", "kill">>[i] # "attach"
           /\ <<"EndInput", "linger", "find", "kill">>[i]
                 = <<"attach", "EndInput", "linger", "find", "kill">>[i + 1]
    OBVIOUS
  <2>. QED BY <2>1, <2>2 DEF LeftOver, Mutations
<1>14. Fits(<<"EndInput", "linger", "find", "kill">>, "drain")
  <2>1. Tail(<<"EndInput", "linger", "find", "kill">>) = <<"linger", "find", "kill">>
    OBVIOUS
  <2>2. \A i \in 1..3 :
           /\ <<"linger", "find", "kill">>[i] # "EndInput"
           /\ <<"linger", "find", "kill">>[i]
                 = <<"EndInput", "linger", "find", "kill">>[i + 1]
    OBVIOUS
  <2>. QED BY <2>1, <2>2 DEF LeftOver, Mutations
<1>15. Fits(<<"linger", "find", "kill">>, "drain")
  <2>1. Tail(<<"linger", "find", "kill">>) = <<"find", "kill">>
    OBVIOUS
  <2>2. \A i \in 1..2 :
           /\ <<"find", "kill">>[i] # "linger"
           /\ <<"find", "kill">>[i] = <<"linger", "find", "kill">>[i + 1]
    OBVIOUS
  <2>. QED BY <2>1, <2>2 DEF LeftOver, Mutations
<1>16. Fits(<<"find", "kill">>, "drain")
  <2>1. Tail(<<"find", "kill">>) = <<"kill">>
    OBVIOUS
  <2>2. \A i \in 1..1 : <<"kill">>[i] # "find" /\ <<"kill">>[i] = <<"find", "kill">>[i + 1]
    OBVIOUS
  <2>. QED BY <2>1, <2>2 DEF LeftOver, Mutations
<1>17. Fits(<<"kill">>, "drain")
  BY DEF LastStep, Mutations
<1>18. Fits(<<"shutdown">>, "restart")
  BY DEF LastStep, Mutations
<1>. HIDE DEF Fits
<1>19. Fits(todo, op)
  BY <1>1, <1>2, <1>3, <1>4, <1>5, <1>6, <1>7, <1>8, <1>9, <1>10, <1>11, <1>12, <1>13,
     <1>14, <1>15, <1>16, <1>17, <1>18 DEF Operations, LeftOver
<1>. QED BY <1>19 DEF Fits

(* A program begins with all of itself left.                                 *)
LEMMA ProgramLeft == ASSUME NEW op \in Operations PROVE Program(op) \in LeftOver(op)
  BY DEF Operations, Program, LeftOver

(* The last step of a program is the one the property names.                 *)
LEMMA ProgramEnds ==
    ASSUME NEW op \in Operations PROVE Program(op)[Len(Program(op))] = LastStep(op)
  BY DEF Operations, Program, LastStep

(* The effect of Advance and of Fail on the call itself.                     *)
LEMMA Advanced ==
    ASSUME SessionShape, NEW c \in Calls, OnItsWay(c), Open(c), Advance(c)
    PROVE  /\ call'[c].op = call[c].op /\ call'[c].on = call[c].on
           /\ call'[c].todo = Tail(call[c].todo)
           /\ call'[c].answer = IF Len(call[c].todo) = 1 THEN "ok" ELSE Pending
           /\ \A d \in Calls : d # c => call'[d] = call[d]
           /\ call' \in [Calls -> [op : Operations \cup {"none"}, on : Nat, todo : AnyLeft,
                                   answer : Answers]]
<1>1. Tail(call[c].todo) \in AnyLeft
  BY StepsLeft DEF OnItsWay, AnyLeft
<1>2. call \in [Calls -> [op : Operations \cup {"none"}, on : Nat, todo : AnyLeft,
                         answer : Answers]]
  BY DEF SessionShape
<1>3. (IF Len(call[c].todo) = 1 THEN "ok" ELSE Pending) \in Answers
  BY DEF Answers
<1>4. call' = [call EXCEPT ![c].todo = Tail(call[c].todo),
                          ![c].answer = IF Len(call[c].todo) = 1 THEN "ok" ELSE Pending]
  BY DEF Advance
<1>. DEFINE O == Operations \cup {"none"}
<1>5. call \in [Calls -> [op : O, on : Nat, todo : AnyLeft, answer : Answers]]
  BY <1>2
<1>. HIDE DEF O
<1>. DEFINE t == Tail(call[c].todo)
            a == IF Len(call[c].todo) = 1 THEN "ok" ELSE Pending
<1>6. t \in AnyLeft /\ a \in Answers /\ call' = [call EXCEPT ![c].todo = t, ![c].answer = a]
  BY <1>1, <1>3, <1>4
<1>. HIDE DEF t, a
<1>7. /\ call'[c].op = call[c].op /\ call'[c].on = call[c].on
      /\ call'[c].todo = t /\ call'[c].answer = a
      /\ \A d \in Calls : d # c => call'[d] = call[d]
      /\ call' \in [Calls -> [op : O, on : Nat, todo : AnyLeft, answer : Answers]]
  BY <1>5, <1>6
<1>. QED BY <1>7 DEF t, a, O

(* A failure ends a call, but for a drain before its frame is written.       *)
LEMMA Failed ==
    ASSUME SessionShape, NEW c \in Calls, NEW why \in Answers, Fail(c, why)
    PROVE  /\ call'[c].op = call[c].op /\ call'[c].on = call[c].on
           /\ IF call[c].op = "drain" /\ Doing(c) \in {"gate", "attach", "EndInput"}
              THEN call'[c].todo = <<"linger", "find", "kill">> /\ call'[c].answer = call[c].answer
              ELSE call'[c].todo = call[c].todo /\ call'[c].answer = why
           /\ \A d \in Calls : d # c => call'[d] = call[d]
           /\ call' \in [Calls -> [op : Operations \cup {"none"}, on : Nat, todo : AnyLeft,
                                   answer : Answers]]
<1>1. <<"linger", "find", "kill">> \in AnyLeft
  <2>1. <<"linger", "find", "kill">> \in LeftOver("drain")
    BY DEF LeftOver
  <2>. QED BY <2>1 DEF AnyLeft, Operations
<1>2. call \in [Calls -> [op : Operations \cup {"none"}, on : Nat, todo : AnyLeft,
                         answer : Answers]]
  BY DEF SessionShape
<1>. DEFINE O == Operations \cup {"none"}
<1>. HIDE DEF O
<1>3. call \in [Calls -> [op : O, on : Nat, todo : AnyLeft, answer : Answers]]
  BY <1>2 DEF O
<1>4. CASE call[c].op = "drain" /\ Doing(c) \in {"gate", "attach", "EndInput"}
  <2>1. call' = [call EXCEPT ![c].todo = <<"linger", "find", "kill">>]
    BY <1>4 DEF Fail
  <2>2. /\ call'[c].op = call[c].op /\ call'[c].on = call[c].on
        /\ call'[c].todo = <<"linger", "find", "kill">> /\ call'[c].answer = call[c].answer
        /\ \A d \in Calls : d # c => call'[d] = call[d]
        /\ call' \in [Calls -> [op : O, on : Nat, todo : AnyLeft, answer : Answers]]
    BY <1>1, <1>3, <2>1
  <2>. QED BY <1>4, <2>2 DEF O
<1>5. CASE ~ (call[c].op = "drain" /\ Doing(c) \in {"gate", "attach", "EndInput"})
  <2>1. call' = [call EXCEPT ![c].answer = why]
    BY <1>5 DEF Fail
  <2>2. /\ call'[c].op = call[c].op /\ call'[c].on = call[c].on
        /\ call'[c].todo = call[c].todo /\ call'[c].answer = why
        /\ \A d \in Calls : d # c => call'[d] = call[d]
        /\ call' \in [Calls -> [op : O, on : Nat, todo : AnyLeft, answer : Answers]]
    BY <1>3, <2>1
  <2>. QED BY <1>5, <2>2 DEF O
<1>. QED BY <1>4, <1>5

(* The registry only goes on: an id is given once, an agent keeps its kind,  *)
(* and one that has ended stays so.                                          *)
GoesOn ==
    /\ nextId' \in 0..MaxId /\ nextId <= nextId'
    /\ \A i \in 1..nextId : i \in DOMAIN agents' =>
          /\ i \in DOMAIN agents /\ agents'[i].interactive = agents[i].interactive
          /\ Ended(agents, i) => Ended(agents', i)

(* A step is about one call.                                                 *)
OnlyOf(c) ==
    /\ \A d \in Calls : d # c => /\ call'[d] = call[d] /\ conn'[d] = conn[d]
                                 /\ served'[d] = served[d]
    /\ setup' = setup /\ inbox \subseteq inbox'

(* What is still true of the registry stays so while the registry goes on.   *)
LEMMA StillTrueGoesOn ==
    ASSUME SessionShape, GoesOn, NEW a, StillTrue(a)
    PROVE  /\ DOMAIN a \subseteq 1..nextId'
           /\ \A i \in DOMAIN a \cap DOMAIN agents' :
                 /\ a[i].interactive = agents'[i].interactive
                 /\ Ended(a, i) => Ended(agents', i)
<1>1. DOMAIN a \subseteq 1..nextId /\ nextId \in Nat /\ nextId' \in Nat /\ nextId <= nextId'
  BY MaxIdAssumption DEF StillTrue, GoesOn, SessionShape
<1>2. ASSUME NEW i \in DOMAIN a \cap DOMAIN agents'
      PROVE  a[i].interactive = agents'[i].interactive /\ (Ended(a, i) => Ended(agents', i))
  <2>1. i \in 1..nextId /\ i \in DOMAIN agents'
    BY <1>1, <1>2
  <2>2. /\ i \in DOMAIN agents /\ agents'[i].interactive = agents[i].interactive
        /\ Ended(agents, i) => Ended(agents', i)
    BY <2>1 DEF GoesOn
  <2>. QED BY <1>2, <2>2 DEF StillTrue
<1>. QED BY <1>1, <1>2

LEMMA TalksGoesOn ==
    ASSUME SessionShape, GoesOn, NEW id, Talks(id)
    PROVE  id \in 1..nextId' /\ (id \in DOMAIN agents' => agents'[id].interactive)
  BY MaxIdAssumption DEF Talks, GoesOn, SessionShape

LEMMA StoppedGoesOn ==
    ASSUME SessionShape, GoesOn, NEW id, Stopped(id)
    PROVE  id \in 1..nextId' /\ (id \in DOMAIN agents' => Ended(agents', id))
  BY MaxIdAssumption DEF Stopped, GoesOn, SessionShape

(* A reply that came back keeps its sense while the registry goes on.        *)
LEMMA ReplyKeeps ==
    ASSUME SessionShape, GoesOn, NEW c \in Calls, Replied(c),
           conn'[c] = conn[c], call'[c].todo = call[c].todo, served'[c] = served[c]
    PROVE  Replied(c)'
<1>1. Doing(c)' = Doing(c) /\ \A req : Did(c, req)' = Did(c, req)
  BY DEF Doing, Did
<1>2. CASE conn[c].reply = <<"NotFound">> /\ Doing(c) \notin {"list", "spawn"}
  BY <1>1, <1>2 DEF Replied
<1>3. CASE Head(conn[c].reply) # "NotFound" /\ Did(c, Doing(c))
  <2>1. Doing(c) = "spawn" => conn[c].reply[2] \in 1..nextId'
    BY <1>3, MaxIdAssumption DEF Replied, SessionShape, GoesOn
  <2>2. Doing(c) = "list" => /\ conn[c].reply[2] \in Registries
                             /\ StillTrue(conn[c].reply[2])
    BY <1>3 DEF Replied
  <2>3. Doing(c) = "list" => StillTrue(conn[c].reply[2])'
    BY <2>2, StillTrueGoesOn DEF StillTrue
  <2>. QED BY <1>1, <1>3, <2>1, <2>2, <2>3 DEF Replied
<1>. QED BY <1>2, <1>3 DEF Replied

(* A call that no step is about keeps what is known of it.                   *)
LEMMA OthersKeep ==
    ASSUME SessionShape, GoesOn, NEW c \in Calls, Own(c), setup' = setup, inbox \subseteq inbox',
           call'[c] = call[c], conn'[c] = conn[c], served'[c] = served[c]
    PROVE  Own(c)'
<1>1. /\ Open(c)' = Open(c) /\ Doing(c)' = Doing(c) /\ Over(c)' = Over(c)
      /\ Dialed(c)' = Dialed(c) /\ \A req : Did(c, req)' = Did(c, req)
      /\ Written(c)' = Written(c) /\ Stranger' = Stranger
  BY DEF Open, Doing, Over, Dialed, Did, Written, Stranger, Tcp, HasToken
<1>2. OnItsWay(c)'
  BY <1>1, ReplyKeeps DEF OnItsWay, Own
<1>3. NotYet(c)' /\ LastChange(c)'
  BY <1>1 DEF NotYet, LastChange, Own
<1>4. Honest(c)' /\ KeptOut(c)'
  BY <1>1 DEF Honest, KeptOut, Own
<1>5. StopsIt(c)'
  BY <1>1, StoppedGoesOn DEF StopsIt, Stopped, Own
<1>6. Addresses(c)'
  BY <1>1, TalksGoesOn DEF Addresses, Talks, Own
<1>. QED BY <1>2, <1>3, <1>4, <1>5, <1>6 DEF Own

(* What is left before a frame is written, and before the last step.         *)
LEMMA BeforeAFrame ==
    ASSUME NEW op \in Operations, NEW todo \in LeftOver(op), Len(todo) # 1
    PROVE  /\ Tail(todo) \in {<<"attach", "UserMessage">>, <<"UserMessage">>,
                              <<"attach", "EndInput", "linger", "find", "kill">>,
                              <<"EndInput", "linger", "find", "kill">>}
                => \/ Head(todo) = "gate"
                   \/ todo \in {<<"attach", "UserMessage">>,
                                <<"attach", "EndInput", "linger", "find", "kill">>}
           /\ Tail(todo) = <<"UserMessage">> => Head(todo) = "attach"
<1>. DEFINE Begins(t, s) == t = s => t[1] = s[1]
<1>0. /\ Begins(Tail(todo), <<"attach", "UserMessage">>) /\ Begins(Tail(todo), <<"UserMessage">>)
      /\ Begins(Tail(todo), <<"attach", "EndInput", "linger", "find", "kill">>)
      /\ Begins(Tail(todo), <<"EndInput", "linger", "find", "kill">>)
      /\ <<"attach", "UserMessage">>[1] = "attach" /\ <<"UserMessage">>[1] = "UserMessage"
      /\ <<"attach", "EndInput", "linger", "find", "kill">>[1] = "attach"
      /\ <<"EndInput", "linger", "find", "kill">>[1] = "EndInput"
  OBVIOUS
<1>1. CASE op \in {"spawn", "list", "restart"}
  BY <1>1 DEF LeftOver
<1>2. CASE op \in {"kill", "respawn", "rm"}
  <2>1. PICK last \in {"kill", "respawn", "rm"} : todo = <<"find", last>>
    <3>1. CASE op = "kill"
      BY <3>1 DEF LeftOver
    <3>2. CASE op = "respawn"
      BY <3>2 DEF LeftOver
    <3>3. CASE op = "rm"
      BY <3>3 DEF LeftOver
    <3>. QED BY <1>2, <3>1, <3>2, <3>3
  <2>2. CASE todo = <<"find", "kill">>
    <3>1. Tail(todo)[1] = "kill"
      BY <2>2
    <3>. QED BY <1>0, <3>1
  <2>3. CASE todo = <<"find", "respawn">>
    <3>1. Tail(todo)[1] = "respawn"
      BY <2>3
    <3>. QED BY <1>0, <3>1
  <2>4. CASE todo = <<"find", "rm">>
    <3>1. Tail(todo)[1] = "rm"
      BY <2>4
    <3>. QED BY <1>0, <3>1
  <2>. QED BY <2>1, <2>2, <2>3, <2>4
<1>3. CASE todo = <<"gate", "attach", "UserMessage">>
  <2>1. Tail(todo)[1] = "attach" /\ Head(todo) = "gate"
    BY <1>3
  <2>. QED BY <1>0, <2>1
<1>4. CASE todo = <<"attach", "UserMessage">>
  BY <1>4
<1>5. CASE op = "drain"
  <2>1. CASE todo = <<"gate", "attach", "EndInput", "linger", "find", "kill">>
    <3>1. Tail(todo)[1] = "attach" /\ Head(todo) = "gate"
      BY <2>1
    <3>. QED BY <1>0, <3>1
  <2>2. CASE todo = <<"attach", "EndInput", "linger", "find", "kill">>
    <3>1. Tail(todo)[1] = "EndInput"
      BY <2>2
    <3>. QED BY <1>0, <2>2, <3>1
  <2>3. CASE todo \in {<<"EndInput", "linger", "find", "kill">>, <<"linger", "find", "kill">>,
                      <<"find", "kill">>}
    <3>1. Tail(todo)[1] \in {"linger", "find", "kill"}
      BY <2>3
    <3>. QED BY <1>0, <3>1
  <2>. QED BY <1>5, <2>1, <2>2, <2>3 DEF LeftOver
<1>. QED BY <1>1, <1>2, <1>3, <1>4, <1>5 DEF Operations, LeftOver

(* A call that has done its step goes on.                                    *)
LEMMA MovesOn ==
    ASSUME SessionShape, GoesOn, NEW c \in Calls, Own(c), Open(c), Advance(c),
           setup' = setup, inbox \subseteq inbox', served'[c] = served[c], conn'[c] = NoConn,
           Doing(c) \in Requests => Did(c, Doing(c)) /\ ~ Stranger,
           Doing(c) = "UserMessage" => <<"UserMessage", call[c].on, c>> \in inbox',
           Doing(c) = "gate" => Talks(call[c].on)
    PROVE  Own(c)'
<1>. DEFINE op == call[c].op
            todo == call[c].todo
<1>1. /\ call'[c].op = op /\ call'[c].on = call[c].on /\ call'[c].todo = Tail(todo)
      /\ call'[c].answer = IF Len(todo) = 1 THEN "ok" ELSE Pending
  BY Advanced DEF Own
<1>2. op \in Operations /\ todo \in LeftOver(op)
  BY DEF Own, OnItsWay
<1>3. /\ Len(todo) \in 1..6 /\ Head(todo) = todo[1] /\ Doing(c) = Head(todo)
      /\ Len(todo) = 1 => Head(todo) = LastStep(op) /\ Tail(todo) = <<>>
      /\ Len(todo) # 1 => Tail(todo) \in LeftOver(op)
      /\ Head(todo) \in Mutations \cup {"list", "UserMessage"} => Len(todo) = 1
      /\ \A i \in 1..Len(Tail(todo)) : /\ Tail(todo)[i] # Head(todo)
                                       /\ i + 1 \in 1..Len(todo) /\ Tail(todo)[i] = todo[i + 1]
  BY <1>2, StepsLeft DEF Doing
<1>4. /\ Open(c)' <=> Len(todo) # 1
      /\ ~ Dialed(c)' /\ \A req : Did(c, req)' = Did(c, req)
      /\ Stranger' = Stranger
  BY <1>1 DEF Open, Dialed, Did, Stranger, Tcp, Pending
<1>5. OnItsWay(c)'
  BY <1>1, <1>2, <1>3, <1>4 DEF OnItsWay, Operations
<1>6. NotYet(c)'
  <2>1. IsInjective(served'[c])
    BY DEF Own, NotYet
  <2>2. ASSUME NEW req, Did(c, req), Len(todo) # 1, NEW i \in 1..Len(Tail(todo))
        PROVE  Tail(todo)[i] # req
    BY <1>3, <2>2 DEF Own, NotYet
  <2>. QED BY <1>1, <1>4, <2>1, <2>2 DEF NotYet
<1>7. LastChange(c)'
  <2>1. ASSUME NEW req \in Mutations, Did(c, req) PROVE Len(todo) = 1
    BY <1>3, <2>1 DEF Own, LastChange
  <2>. QED BY <1>1, <1>4, <2>1 DEF LastChange, Pending
<1>8. Honest(c)'
  <2>1. CASE Len(todo) = 1
    <3>1. LastStep(op) = Doing(c) /\ LastStep(op) \in Requests \cup {"UserMessage"}
      BY <1>2, <1>3, <2>1 DEF Operations, LastStep, Requests
    <3>. QED BY <1>1, <1>4, <3>1 DEF Honest
  <2>. QED BY <1>1, <1>4, <2>1 DEF Honest, Over
<1>9. StopsIt(c)'
  BY <1>1, <1>4, StoppedGoesOn DEF StopsIt, Stopped, Own
<1>10. Addresses(c)'
  <2>1. SUFFICES ASSUME Len(todo) # 1,
                        Tail(todo) \in {<<"attach", "UserMessage">>, <<"UserMessage">>,
                                        <<"attach", "EndInput", "linger", "find", "kill">>,
                                        <<"EndInput", "linger", "find", "kill">>}
                 PROVE  Talks(call[c].on)
    BY <1>1, <1>4, TalksGoesOn DEF Addresses, Talks
  <2>2. CASE Doing(c) = "gate"
    BY <2>2
  <2>3. CASE Doing(c) # "gate"
    <3>1. todo \in {<<"attach", "UserMessage">>, <<"UserMessage">>,
                    <<"attach", "EndInput", "linger", "find", "kill">>,
                    <<"EndInput", "linger", "find", "kill">>}
      BY <1>2, <1>3, <2>1, <2>3, BeforeAFrame
    <3>. QED BY <3>1 DEF Own, Addresses
  <2>. QED BY <2>2, <2>3
<1>11. KeptOut(c)'
  <2>1. SUFFICES ASSUME Stranger
                 PROVE  /\ served[c] = <<>>
                        /\ Len(todo) # 1 => Tail(todo) # <<"UserMessage">>
                        /\ Len(todo) # 1
    BY <1>1, <1>4 DEF KeptOut, NoConn, Over
  <2>2. Doing(c) \notin Requests /\ todo # <<"UserMessage">>
    BY <2>1 DEF Own, KeptOut
  <2>3. todo \notin {<<"spawn">>, <<"list">>, <<"kill">>, <<"respawn">>, <<"rm">>,
                     <<"shutdown">>, <<"attach", "UserMessage">>, <<"UserMessage">>}
    BY <1>3, <2>2 DEF Requests
  <2>4. Len(todo) # 1 /\ Tail(todo) # <<"UserMessage">>
    <3>1. Len(todo) # 1
      <4>1. ASSUME Len(todo) = 1 PROVE op = "input"
        BY <1>2, <1>3, <2>2, <4>1 DEF Operations, LastStep, Requests
      <4>2. ASSUME op = "input", Len(todo) = 1 PROVE todo = <<"UserMessage">>
        BY <1>2, <4>2 DEF LeftOver
      <4>. QED BY <2>2, <4>1, <4>2
    <3>. QED BY <1>2, <1>3, <2>2, <3>1, BeforeAFrame DEF Requests
  <2>. QED BY <2>1, <2>4 DEF Own, KeptOut
<1>. QED BY <1>5, <1>6, <1>7, <1>8, <1>9, <1>10, <1>11 DEF Own

(* A call that fails is over, or, being a drain, goes on to wait and kill.   *)
LEMMA FailsOn ==
    ASSUME SessionShape, GoesOn, NEW c \in Calls, Own(c), Open(c),
           NEW why \in Answers \ {Pending, "ok"}, Fail(c, why),
           setup' = setup, inbox \subseteq inbox', served'[c] = served[c], conn'[c] = NoConn,
           why \in {"not_found", "invalid_state"} => \A req \in Mutations : ~ Did(c, req)
    PROVE  Own(c)'
<1>. DEFINE op == call[c].op
            todo == call[c].todo
            skips == op = "drain" /\ Doing(c) \in {"gate", "attach", "EndInput"}
<1>1. /\ call'[c].op = op /\ call'[c].on = call[c].on
      /\ IF skips THEN call'[c].todo = <<"linger", "find", "kill">> /\ call'[c].answer = Pending
         ELSE call'[c].todo = todo /\ call'[c].answer = why
  BY Failed DEF Open
<1>2. op \in Operations /\ todo \in LeftOver(op)
  BY DEF Own, OnItsWay
<1>3. /\ Open(c)' <=> skips
      /\ ~ Dialed(c)' /\ \A req : Did(c, req)' = Did(c, req)
      /\ Stranger' = Stranger
  BY <1>1 DEF Open, Dialed, Did, Stranger, Tcp, Pending
<1>4. skips => todo \in {<<"gate", "attach", "EndInput", "linger", "find", "kill">>,
                         <<"attach", "EndInput", "linger", "find", "kill">>,
                         <<"EndInput", "linger", "find", "kill">>}
  BY <1>2 DEF LeftOver, Doing
<1>5. OnItsWay(c)'
  <2>1. <<"linger", "find", "kill">> \in LeftOver("drain")
    BY DEF LeftOver
  <2>. QED BY <1>1, <1>2, <1>3, <2>1 DEF OnItsWay, Operations
<1>6. NotYet(c)'
  <2>1. IsInjective(served'[c])
    BY DEF Own, NotYet
  <2>2. ASSUME NEW req, Did(c, req), skips, NEW i \in 1..3
        PROVE  <<"linger", "find", "kill">>[i] # req
    <3>1. Doing(c) \notin {"linger", "find", "kill"}
      BY <2>2
    <3>2. <<"linger", "find", "kill">>[i] \in {"linger", "find", "kill"}
      BY <2>2
    <3>3. CASE req = Doing(c)
      BY <3>1, <3>2, <3>3
    <3>4. CASE \A j \in 1..Len(todo) : todo[j] # req
      <4>1. {"linger", "find", "kill"} \subseteq {todo[j] : j \in 1..Len(todo)}
        <5>1. CASE todo = <<"gate", "attach", "EndInput", "linger", "find", "kill">>
          BY <5>1
        <5>2. CASE todo = <<"attach", "EndInput", "linger", "find", "kill">>
          BY <5>2
        <5>3. CASE todo = <<"EndInput", "linger", "find", "kill">>
          BY <5>3
        <5>. QED BY <1>4, <2>2, <5>1, <5>2, <5>3
      <4>. QED BY <3>2, <3>4, <4>1
    <3>. QED BY <2>2, <3>3, <3>4 DEF Own, NotYet
  <2>. QED BY <1>1, <1>3, <2>1, <2>2 DEF NotYet
<1>7. LastChange(c)'
  <2>1. ASSUME NEW req \in Mutations, Did(c, req)
        PROVE  ~ skips /\ why \notin {"not_found", "invalid_state"}
    BY <2>1 DEF Own, LastChange, Mutations
  <2>. QED BY <1>1, <1>3, <2>1 DEF LastChange
<1>8. Honest(c)'
  BY <1>1, <1>3 DEF Honest, Over
<1>9. StopsIt(c)'
  BY <1>1, <1>3, StoppedGoesOn DEF StopsIt, Stopped, Own
<1>10. Addresses(c)'
  BY <1>1, <1>3 DEF Addresses
<1>11. KeptOut(c)'
  BY <1>1, <1>3 DEF KeptOut, Own, NoConn, Over
<1>. QED BY <1>5, <1>6, <1>7, <1>8, <1>9, <1>10, <1>11 DEF Own

(* What a step about one call has to show.                                   *)
Kept(c) ==
    /\ SessionShape' /\ GoesOn /\ OnlyOf(c) /\ Own(c)'
    /\ StillTrue(snapshot)' /\ \A f \in inbox' : Talks(f[2])'

(* A step about one call keeps the invariant if it keeps it for that call.   *)
LEMMA KeptIsEnough == ASSUME SessionInv, NEW c \in Calls, Kept(c) PROVE SessionInv'
<1>1. ASSUME NEW d \in Calls PROVE Own(d)'
  <2>1. Own(d)
    BY DEF SessionInv, Own
  <2>2. CASE d # c
    BY <2>1, <2>2, OthersKeep DEF Kept, OnlyOf, SessionInv
  <2>. QED BY <2>2 DEF Kept
<1>2. \A d \in Calls : Own(d)'
  BY <1>1
<1>3. \A d \in Calls : (OnItsWay(d) /\ NotYet(d) /\ LastChange(d) /\ Honest(d)
                        /\ StopsIt(d) /\ Addresses(d) /\ KeptOut(d))'
  BY <1>2 DEF Own
<1>. QED BY <1>3 DEF Kept, SessionInv

LEMMA StandsStill == ASSUME SessionShape, nextId' = nextId, agents' = agents PROVE GoesOn
  BY DEF GoesOn, SessionShape, Ended

(* A line after a line.                                                      *)
LEMMA TwoLines ==
    ASSUME NEW T, NEW s \in Seq(T), NEW t \in Seq(T), Len(s) = 1, Len(t) = 1
    PROVE  /\ s \o t \in Seq(T) /\ Len(s \o t) = 2
           /\ (s \o t)[1] = s[1] /\ (s \o t)[2] = t[1]
<1>1. 1 \in 1..Len(s) + Len(t) /\ 2 \in 1..Len(s) + Len(t) /\ Len(s) + Len(t) = 2
  OBVIOUS
<1>2. /\ s \o t \in Seq(T) /\ Len(s \o t) = Len(s) + Len(t)
      /\ \A i \in 1..Len(s) + Len(t) : (s \o t)[i] = IF i <= Len(s) THEN s[i] ELSE t[i - Len(s)]
  BY ConcatProperties, Zenon
<1>. QED BY <1>1, <1>2

(* The lines a request is written in.                                        *)
LEMMA WrittenLines ==
    ASSUME SessionShape, NEW c \in Calls, Doing(c) \in Requests
    PROVE  /\ Written(c).lines \in Seq(Requests \cup {setup.token}) /\ Written(c).lines # <<>>
           /\ HasToken => /\ Head(Written(c).lines) = setup.token
                          /\ Written(c).lines[1] = setup.token /\ Written(c).lines[2] = Doing(c)
           /\ ~ HasToken => Head(Written(c).lines) = Doing(c) /\ Written(c).lines[1] = Doing(c)
<1>. DEFINE Lines == Requests \cup {setup.token}
<1>1. Doing(c) \in Lines /\ setup.token \in Lines
  OBVIOUS
<1>3. CASE HasToken
  <2>. DEFINE s == <<setup.token>>
              t == <<Doing(c)>>
  <2>1. s \in Seq(Lines) /\ t \in Seq(Lines) /\ Len(s) = 1 /\ Len(t) = 1
        /\ s[1] = setup.token /\ t[1] = Doing(c)
    BY <1>1
  <2>. HIDE DEF s, t
  <2>2. s \o t \in Seq(Lines) /\ Len(s \o t) = 2 /\ (s \o t)[1] = s[1] /\ (s \o t)[2] = t[1]
    BY <2>1, TwoLines
  <2>3. s \o t # <<>> /\ Head(s \o t) = s[1]
    BY <2>2
  <2>4. Written(c).lines = s \o t
    BY <1>3 DEF Written, s, t
  <2>. QED BY <1>3, <2>1, <2>2, <2>3, <2>4
<1>4. CASE ~ HasToken
  <2>1. <<>> \o <<Doing(c)>> = <<Doing(c)>> /\ <<Doing(c)>> \in Seq(Lines)
    BY <1>1
  <2>. QED BY <1>4, <2>1 DEF Written
<1>. QED BY <1>3, <1>4

(* Who is admitted has the token, and is read from the right line.           *)
LEMMA Admitted ==
    ASSUME SessionShape, NEW c \in Calls, OnItsWay(c), Dialed(c), conn[c].lines # <<>>,
           Admits(conn[c].lines), Asked(conn[c].lines) \in Requests
    PROVE  Asked(conn[c].lines) = Doing(c) /\ ~ Stranger
<1>1. Doing(c) \in Requests /\ conn[c].lines = Written(c).lines
  BY DEF OnItsWay
<1>2. setup.token \notin Requests /\ setup.demands.token \notin Requests
  BY DEF SessionShape
<1>3. CASE Tcp /\ setup.demands.token # "none"
  <2>1. Head(conn[c].lines) = setup.demands.token
    BY <1>3 DEF Admits
  <2>. QED BY <1>1, <1>2, <1>3, <2>1, WrittenLines DEF Asked, Stranger, HasToken
<1>4. CASE ~ (Tcp /\ setup.demands.token # "none")
  BY <1>1, <1>2, <1>4, WrittenLines DEF Asked, Stranger
<1>. QED BY <1>3, <1>4

(* A request that has been read, answered or lost leaves the call where it is. *)
LEMMA Unanswered ==
    ASSUME SessionShape, NEW c \in Calls, Own(c), Dialed(c), UNCHANGED <<setup, agents, nextId>>,
           UNCHANGED <<call, served, inbox>>, conn'[c].lines = <<>>, conn'[c] # NoConn,
           conn'[c].reply = NoReply
    PROVE  Own(c)'
<1>1. /\ Open(c)' = Open(c) /\ Doing(c)' = Doing(c) /\ Over(c)' = Over(c)
      /\ Dialed(c)' /\ \A req : Did(c, req)' = Did(c, req)
      /\ Stranger' = Stranger
  BY DEF Open, Doing, Over, Dialed, Did, Stranger, Tcp
<1>2. OnItsWay(c)'
  BY <1>1 DEF OnItsWay, Own
<1>3. NotYet(c)' /\ LastChange(c)'
  BY <1>1 DEF NotYet, LastChange, Own, NoReply
<1>4. Honest(c)' /\ KeptOut(c)' /\ StopsIt(c)' /\ Addresses(c)'
  BY <1>1 DEF Honest, KeptOut, StopsIt, Addresses, Stopped, Talks, Ended, Own
<1>. QED BY <1>2, <1>3, <1>4 DEF Own

(* A request that names nobody is answered so, and changes nothing.          *)
LEMMA NobodyThere ==
    ASSUME SessionShape, NEW c \in Calls, Own(c), Dialed(c), conn[c].lines # <<>>, ~ Stranger,
           UNCHANGED <<setup, agents, nextId>>, UNCHANGED <<call, served, inbox>>,
           conn'[c].lines = <<>>, conn'[c].reply = <<"NotFound">>,
           Doing(c) \notin {"list", "spawn"}
    PROVE  Own(c)'
<1>1. /\ Open(c)' = Open(c) /\ Doing(c)' = Doing(c) /\ Over(c)' = Over(c)
      /\ Dialed(c)' /\ \A req : Did(c, req)' = Did(c, req)
      /\ Stranger' = Stranger
  BY DEF Open, Doing, Over, Dialed, Did, Stranger, Tcp, NoConn, NoReply
<1>2. OnItsWay(c)'
  BY <1>1 DEF OnItsWay, Own, Replied
<1>3. NotYet(c)' /\ LastChange(c)'
  BY <1>1 DEF NotYet, LastChange, Own, OnItsWay
<1>4. Honest(c)' /\ KeptOut(c)' /\ StopsIt(c)' /\ Addresses(c)'
  BY <1>1 DEF Honest, KeptOut, StopsIt, Addresses, Stopped, Talks, Ended, Own
<1>. QED BY <1>2, <1>3, <1>4 DEF Own

(* A request that is carried out is carried out for the first time.          *)
LEMMA CarriedOut ==
    ASSUME SessionShape, GoesOn, NEW c \in Calls, Own(c), Dialed(c), conn[c].lines # <<>>,
           ~ Stranger, UNCHANGED <<setup, call, inbox>>, Carried(c, Doing(c)),
           conn'[c].lines = <<>>, conn'[c].reply # NoReply, Head(conn'[c].reply) # "NotFound",
           Doing(c) = "list" => /\ conn'[c].reply[2] \in Registries
                                /\ StillTrue(conn[c].reply[2])',
           Doing(c) = "spawn" => conn'[c].reply[2] \in 1..nextId',
           Doing(c) = "kill" => Stopped(call[c].on)'
    PROVE  Own(c)'
<1>1. Open(c) /\ Doing(c) \in Requests 
      /\ call[c].op \in Operations /\ call[c].todo \in LeftOver(call[c].op)
  BY DEF Own, OnItsWay
<1>2. ~ Did(c, Doing(c))
  <2>1. Len(call[c].todo) \in 1..6 /\ call[c].todo[1] = Doing(c)
    BY <1>1, StepsLeft DEF Doing
  <2>. QED BY <1>1, <2>1 DEF Own, NotYet
<1>3. /\ served[c] \in Seq(Requests) /\ served'[c] = Append(served[c], Doing(c))
  BY DEF Carried, SessionShape
<1>4. /\ Len(served'[c]) = Len(served[c]) + 1 /\ Len(served[c]) \in Nat
      /\ DOMAIN served'[c] = 1..Len(served[c]) + 1 /\ DOMAIN served[c] = 1..Len(served[c])
      /\ served'[c][Len(served[c]) + 1] = Doing(c)
      /\ \A i \in 1..Len(served[c]) : served'[c][i] = served[c][i]
  BY <1>1, <1>3
<1>5. \A req : Did(c, req)' <=> Did(c, req) \/ req = Doing(c)
  <2>1. ASSUME NEW req, Did(c, req) PROVE Did(c, req)'
    <3>1. PICK k \in 1..Len(served[c]) : served[c][k] = req
      BY <1>4, <2>1 DEF Did
    <3>2. k \in DOMAIN served'[c] /\ served'[c][k] = req
      BY <1>4, <3>1
    <3>. QED BY <3>2 DEF Did
  <2>2. Did(c, Doing(c))'
    <3>1. Len(served[c]) + 1 \in DOMAIN served'[c]
      BY <1>4
    <3>. QED BY <1>4, <3>1 DEF Did, Doing
  <2>3. ASSUME NEW req, Did(c, req)' PROVE Did(c, req) \/ req = Doing(c)
    <3>1. PICK k \in 1..Len(served[c]) + 1 : served'[c][k] = req
      BY <1>4, <2>3 DEF Did
    <3>2. k \in 1..Len(served[c]) \/ k = Len(served[c]) + 1
      BY <1>4, <3>1
    <3>. QED BY <1>4, <3>1, <3>2 DEF Did
  <2>. QED BY <2>1, <2>2, <2>3 DEF Doing
<1>6. /\ Open(c)' = Open(c) /\ Doing(c)' = Doing(c) /\ Over(c)' = Over(c)
      /\ Dialed(c)' /\ Stranger' = Stranger
  BY DEF Open, Doing, Over, Dialed, Stranger, Tcp, NoConn
<1>7. Replied(c)'
  BY <1>5, <1>6 DEF Replied
<1>8. OnItsWay(c)'
  BY <1>6, <1>7 DEF OnItsWay, Own
<1>9. NotYet(c)'
  <2>1. IsInjective(served'[c])
    <3>1. \A i, j \in 1..Len(served[c]) : served[c][i] = served[c][j] => i = j
      BY <1>4 DEF Own, NotYet, IsInjective
    <3>2. \A i \in 1..Len(served[c]) : served[c][i] # Doing(c)
      BY <1>2, <1>4 DEF Did
    <3>3. ASSUME NEW i \in 1..Len(served[c]) + 1, NEW j \in 1..Len(served[c]) + 1,
                 served'[c][i] = served'[c][j]
          PROVE  i = j
      <4>1. i \in 1..Len(served[c]) \/ i = Len(served[c]) + 1
        BY <1>4
      <4>2. j \in 1..Len(served[c]) \/ j = Len(served[c]) + 1
        BY <1>4
      <4>. QED BY <1>4, <3>1, <3>2, <3>3, <4>1, <4>2
    <3>. QED BY <1>4, <3>3 DEF IsInjective
  <2>. QED BY <1>5, <1>6, <2>1 DEF Own, NotYet
<1>10. LastChange(c)'
  BY <1>1, <1>5, <1>6 DEF Own, LastChange
<1>11. Honest(c)' /\ KeptOut(c)'
  BY <1>1, <1>6 DEF Honest, KeptOut, Over
<1>12. StopsIt(c)'
  <2>1. SUFFICES ASSUME call[c].op = "drain", Did(c, "kill") \/ Doing(c) = "kill"
                 PROVE  Stopped(call[c].on)'
    BY <1>5 DEF StopsIt
  <2>2. CASE Did(c, "kill")
    BY <2>1, <2>2, StoppedGoesOn DEF Own, StopsIt, Stopped
  <2>. QED BY <2>1, <2>2
<1>13. Addresses(c)'
  BY <1>6, TalksGoesOn DEF Addresses, Talks, Own
<1>. QED BY <1>8, <1>9, <1>10, <1>11, <1>12, <1>13 DEF Own

(***************************************************************************)
(* The steps.                                                               *)
(***************************************************************************)
(* What the registry, the snapshot and the frames are while none changes.    *)
LEMMA NothingSeen ==
    ASSUME SessionInv, nextId' = nextId, agents' = agents, snapshot' = snapshot,
           spawned' = spawned, inbox' = inbox
    PROVE  GoesOn /\ StillTrue(snapshot)' /\ \A f \in inbox' : Talks(f[2])'
<1>1. GoesOn
  BY StandsStill DEF SessionInv
<1>. QED BY <1>1 DEF SessionInv, StillTrue, Talks, Ended

(* What the invariant says of one call.                                      *)
LEMMA OwnBefore ==
    ASSUME SessionInv, NEW c \in Calls PROVE SessionShape /\ Own(c) /\ OnItsWay(c)
  BY DEF SessionInv, Own

(* A call that is not at a request has no connection.                        *)
LEMMA NotDialed ==
    ASSUME NEW c \in Calls, OnItsWay(c), Doing(c) \notin Requests
    PROVE  conn[c] = NoConn
  BY DEF OnItsWay, Dialed

(* Nothing has been changed for a call that is not at a change.              *)
LEMMA NoChangeYet ==
    ASSUME NEW c \in Calls, LastChange(c), Open(c), Doing(c) \notin Mutations
    PROVE  \A req \in Mutations : ~ Did(c, req)
  BY DEF LastChange

(* repo_of, the gate and the wait are about a call that has no connection.   *)
LEMMA FindStep == ASSUME SessionInv, NEW c \in Calls, Find(c) PROVE Kept(c)
<1>1. /\ Open(c) /\ Doing(c) = "find" /\ Doing(c) \notin Requests /\ Doing(c) \notin Mutations
      /\ Advance(c) \/ Fail(c, "not_found")
      /\ setup' = setup /\ agents' = agents /\ nextId' = nextId /\ serving' = serving
      /\ snapshot' = snapshot /\ spawned' = spawned /\ conn' = conn /\ inbox' = inbox
      /\ served' = served
  BY DEF Find, caliband, Requests, Mutations
<1>2. SessionShape /\ Own(c) /\ OnItsWay(c)
  BY OwnBefore
<1>3. GoesOn /\ StillTrue(snapshot)' /\ \A f \in inbox' : Talks(f[2])'
  BY <1>1, NothingSeen
<1>4. conn'[c] = NoConn
  BY <1>1, <1>2, NotDialed
<1>5. CASE Advance(c)
  <2>1. Own(c)'
    BY <1>1, <1>2, <1>3, <1>4, <1>5, MovesOn
  <2>2. SessionShape' /\ OnlyOf(c)
    BY <1>1, <1>2, <1>5, Advanced DEF SessionShape, OnlyOf
  <2>. QED BY <1>3, <2>1, <2>2 DEF Kept
<1>6. CASE Fail(c, "not_found")
  <2>1. "not_found" \in Answers \ {Pending, "ok"}
    BY DEF Answers, Pending
  <2>2. \A req \in Mutations : ~ Did(c, req)
    BY <1>1, <1>2, NoChangeYet DEF Own
  <2>3. Own(c)'
    BY <1>1, <1>2, <1>3, <1>4, <1>6, <2>1, <2>2, FailsOn
  <2>4. SessionShape' /\ OnlyOf(c)
    BY <1>1, <1>2, <1>6, <2>1, Failed DEF SessionShape, OnlyOf
  <2>. QED BY <1>3, <2>3, <2>4 DEF Kept
<1>. QED BY <1>1, <1>5, <1>6

LEMMA GateStep == ASSUME SessionInv, NEW c \in Calls, Gate(c) PROVE Kept(c)
<1>1. /\ Open(c) /\ Doing(c) = "gate" /\ Doing(c) \notin Requests /\ Doing(c) \notin Mutations
      /\ \/ /\ Advance(c)
            /\ call[c].on \in DOMAIN snapshot /\ snapshot[call[c].on].interactive
         \/ Fail(c, "not_found") \/ Fail(c, "invalid_state")
      /\ setup' = setup /\ agents' = agents /\ nextId' = nextId /\ serving' = serving
      /\ snapshot' = snapshot /\ spawned' = spawned /\ conn' = conn /\ inbox' = inbox
      /\ served' = served
  BY DEF Gate, caliband, Requests, Mutations
<1>2. SessionShape /\ Own(c) /\ OnItsWay(c)
  BY OwnBefore
<1>3. GoesOn /\ StillTrue(snapshot)' /\ \A f \in inbox' : Talks(f[2])'
  BY <1>1, NothingSeen
<1>4. conn'[c] = NoConn
  BY <1>1, <1>2, NotDialed
<1>5. CASE Advance(c) /\ call[c].on \in DOMAIN snapshot /\ snapshot[call[c].on].interactive
  <2>1. Talks(call[c].on)
    BY <1>5 DEF SessionInv, StillTrue, Talks
  <2>2. Own(c)'
    BY <1>1, <1>2, <1>3, <1>4, <1>5, <2>1, MovesOn
  <2>3. SessionShape' /\ OnlyOf(c)
    BY <1>1, <1>2, <1>5, Advanced DEF SessionShape, OnlyOf
  <2>. QED BY <1>3, <2>2, <2>3 DEF Kept
<1>6. ASSUME NEW why \in {"not_found", "invalid_state"}, Fail(c, why) PROVE Kept(c)
  <2>1. why \in Answers \ {Pending, "ok"}
    BY <1>6 DEF Answers, Pending
  <2>2. \A req \in Mutations : ~ Did(c, req)
    BY <1>1, <1>2, NoChangeYet DEF Own
  <2>3. Own(c)'
    BY <1>1, <1>2, <1>3, <1>4, <1>6, <2>1, <2>2, FailsOn
  <2>4. SessionShape' /\ OnlyOf(c)
    BY <1>1, <1>2, <1>6, <2>1, Failed DEF SessionShape, OnlyOf
  <2>. QED BY <1>3, <2>3, <2>4 DEF Kept
<1>. QED BY <1>1, <1>5, <1>6

LEMMA LingerStep == ASSUME SessionInv, NEW c \in Calls, Linger(c) PROVE Kept(c)
<1>1. /\ Open(c) /\ Doing(c) = "linger" /\ Doing(c) \notin Requests /\ Advance(c)
      /\ setup' = setup /\ agents' = agents /\ nextId' = nextId /\ serving' = serving
      /\ snapshot' = snapshot /\ spawned' = spawned /\ conn' = conn /\ inbox' = inbox
      /\ served' = served
  BY DEF Linger, caliband, Requests
<1>2. SessionShape /\ Own(c) /\ OnItsWay(c)
  BY OwnBefore
<1>3. GoesOn /\ StillTrue(snapshot)' /\ \A f \in inbox' : Talks(f[2])'
  BY <1>1, NothingSeen
<1>4. conn'[c] = NoConn
  BY <1>1, <1>2, NotDialed
<1>5. Own(c)'
  BY <1>1, <1>2, <1>3, <1>4, MovesOn
<1>6. SessionShape' /\ OnlyOf(c)
  BY <1>1, <1>2, Advanced DEF SessionShape, OnlyOf
<1>. QED BY <1>3, <1>5, <1>6 DEF Kept

(* transport::connect writes the whole request, or fails the call.           *)
LEMMA DialStep == ASSUME SessionInv, NEW c \in Calls, DialRequest(c) PROVE Kept(c)
<1>1. /\ Open(c) /\ Doing(c) \in Requests /\ ~ Dialed(c)
      /\ \/ (Fail(c, "io") \/ Fail(c, "unreachable")) /\ conn' = conn
         \/ conn' = [conn EXCEPT ![c] = Written(c)] /\ call' = call
      /\ setup' = setup /\ agents' = agents /\ nextId' = nextId /\ serving' = serving
      /\ snapshot' = snapshot /\ spawned' = spawned /\ inbox' = inbox /\ served' = served
  BY DEF DialRequest, caliband
<1>2. SessionShape /\ Own(c) /\ OnItsWay(c)
  BY OwnBefore
<1>3. GoesOn /\ StillTrue(snapshot)' /\ \A f \in inbox' : Talks(f[2])'
  BY <1>1, NothingSeen
<1>4. ASSUME NEW why \in {"io", "unreachable"}, Fail(c, why), conn' = conn PROVE Kept(c)
  <2>1. why \in Answers \ {Pending, "ok"} /\ why \notin {"not_found", "invalid_state"}
    BY <1>4 DEF Answers, Pending
  <2>2. conn'[c] = NoConn
    BY <1>1, <1>4 DEF Dialed
  <2>3. Own(c)'
    BY <1>1, <1>2, <1>3, <1>4, <2>1, <2>2, FailsOn
  <2>4. SessionShape' /\ OnlyOf(c)
    BY <1>1, <1>2, <1>4, <2>1, Failed DEF SessionShape, OnlyOf
  <2>. QED BY <1>3, <2>3, <2>4 DEF Kept
<1>5. CASE conn' = [conn EXCEPT ![c] = Written(c)] /\ call' = call
  <2>1. /\ Written(c).lines \in Seq(Requests \cup {setup.token}) /\ Written(c).lines # <<>>
        /\ Written(c).reply = NoReply /\ Written(c).closed = FALSE
    BY <1>1, <1>2, WrittenLines DEF Written
  <2>2. conn'[c] = Written(c) /\ \A d \in Calls : d # c => conn'[d] = conn[d]
    BY <1>2, <1>5 DEF SessionShape
  <2>3. conn' \in [Calls -> [lines : Seq(Requests \cup {setup.token}), reply : AnyReply,
                             closed : BOOLEAN]]
    <3>1. Written(c) \in [lines : Seq(Requests \cup {setup.token}), reply : AnyReply,
                          closed : BOOLEAN]
      <4>1. NoReply \in AnyReply
        BY DEF AnyReply
      <4>. QED BY <2>1, <4>1 DEF Written
    <3>. QED BY <1>2, <1>5, <3>1 DEF SessionShape
  <2>4. SessionShape' /\ OnlyOf(c)
    BY <1>1, <1>2, <1>5, <2>2, <2>3 DEF SessionShape, OnlyOf
  <2>5. /\ Open(c)' = Open(c) /\ Doing(c)' = Doing(c) /\ Over(c)' = Over(c)
        /\ \A req : Did(c, req)' = Did(c, req)
        /\ Written(c)' = Written(c) /\ Stranger' = Stranger
    BY <1>1, <1>5 DEF Open, Doing, Over, Did, Written, Stranger, Tcp, HasToken
  <2>6. OnItsWay(c)'
    BY <1>1, <1>2, <1>5, <2>1, <2>2, <2>5 DEF OnItsWay
  <2>7. NotYet(c)' /\ LastChange(c)'
    BY <1>1, <1>2, <1>5, <2>5 DEF NotYet, LastChange, Own
  <2>8. Honest(c)' /\ KeptOut(c)' /\ StopsIt(c)' /\ Addresses(c)'
    BY <1>1, <1>2, <1>5, <2>1, <2>2, <2>5
    DEF Honest, KeptOut, StopsIt, Addresses, Stopped, Talks, Ended, Own
  <2>. QED BY <1>3, <2>4, <2>6, <2>7, <2>8 DEF Kept, Own
<1>. QED BY <1>1, <1>4, <1>5

(* send_inbound writes to an agent that was let through the gate.            *)
LEMMA SendStep == ASSUME SessionInv, NEW c \in Calls, SendInbound(c) PROVE Kept(c)
<1>1. /\ Open(c) /\ Doing(c) \in Inbound /\ Doing(c) \notin Requests /\ Doing(c) \notin Mutations
      /\ \/ Advance(c) /\ inbox' = inbox \cup {<<Doing(c), call[c].on, c>>}
         \/ Fail(c, "unreachable") /\ inbox' = inbox
      /\ setup' = setup /\ agents' = agents /\ nextId' = nextId /\ serving' = serving
      /\ snapshot' = snapshot /\ spawned' = spawned /\ conn' = conn /\ served' = served
  BY DEF SendInbound, caliband, Requests, Mutations, Inbound
<1>2. SessionShape /\ Own(c) /\ OnItsWay(c)
  BY OwnBefore
<1>3. GoesOn /\ StillTrue(snapshot)'
  BY <1>1, <1>2, StandsStill DEF SessionInv, StillTrue, Ended
<1>4. conn'[c] = NoConn
  BY <1>1, <1>2, NotDialed
<1>5. CASE Advance(c) /\ inbox' = inbox \cup {<<Doing(c), call[c].on, c>>}
  <2>1. Talks(call[c].on)
    <3>1. call[c].op \in Operations /\ call[c].todo \in LeftOver(call[c].op)
      BY <1>1, <1>2 DEF OnItsWay
    <3>2. call[c].todo \in {<<"UserMessage">>, <<"EndInput", "linger", "find", "kill">>}
      BY <1>1, <3>1 DEF LeftOver, Operations, Doing, Inbound
    <3>. QED BY <1>1, <1>2, <3>2 DEF Own, Addresses
  <2>2. \A f \in inbox' : Talks(f[2])'
    BY <1>1, <1>5, <2>1 DEF SessionInv, Talks
  <2>3. Own(c)'
    BY <1>1, <1>2, <1>3, <1>4, <1>5, MovesOn DEF Inbound
  <2>4. SessionShape' /\ OnlyOf(c)
    BY <1>1, <1>2, <1>5, Advanced DEF SessionShape, OnlyOf
  <2>. QED BY <1>3, <2>2, <2>3, <2>4 DEF Kept
<1>6. CASE Fail(c, "unreachable") /\ inbox' = inbox
  <2>1. "unreachable" \in Answers \ {Pending, "ok"}
    BY DEF Answers, Pending
  <2>2. Own(c)'
    BY <1>1, <1>2, <1>3, <1>4, <1>6, <2>1, FailsOn
  <2>3. SessionShape' /\ OnlyOf(c)
    BY <1>1, <1>2, <1>6, <2>1, Failed DEF SessionShape, OnlyOf
  <2>4. \A f \in inbox' : Talks(f[2])'
    BY <1>1, <1>6 DEF SessionInv, Talks
  <2>. QED BY <1>3, <2>2, <2>3, <2>4 DEF Kept
<1>. QED BY <1>1, <1>5, <1>6

(* What a reply teaches prospero is still true of the registry.              *)
LEMMA Learned ==
    ASSUME SessionInv, NEW c \in Calls, conn[c].reply # NoReply, Dialed(c),
           Head(conn[c].reply) # "NotFound", Learns(c, conn[c].reply)
    PROVE  /\ snapshot' \in Registries
           /\ \A i \in DOMAIN snapshot' : snapshot'[i].status # "drained"
           /\ StillTrue(snapshot') /\ spawned' \subseteq 1..nextId
<1>. DEFINE reply == conn[c].reply
<1>1. /\ snapshot \in Registries /\ \A i \in DOMAIN snapshot : snapshot[i].status # "drained"
      /\ StillTrue(snapshot) /\ spawned \subseteq 1..nextId
  BY DEF SessionInv, SessionShape
<1>2. Replied(c) /\ Head(reply) # "NotFound"
  BY DEF SessionInv, OnItsWay
<1>2a. Head(<<"NotFound">>) = "NotFound"
  OBVIOUS
<1>3. CASE Doing(c) = "list"
  <2>. DEFINE a == reply[2]
  <2>1. a \in Registries /\ StillTrue(a)
    BY <1>2, <1>2a, <1>3 DEF Replied
  <2>2. snapshot' = [i \in DOMAIN a |-> [a[i] EXCEPT !.status = domain_status(a[i].status)]]
        /\ spawned' \subseteq spawned
    BY <1>3 DEF Learns
  <2>. HIDE DEF a
  <2>3. PICK S \in SUBSET Ids : a \in [S -> [status : WireStatus, interactive : BOOLEAN]]
    BY <2>1 DEF Registries
  <2>4. DOMAIN snapshot' = S /\ DOMAIN a = S
    BY <2>2, <2>3
  <2>5. ASSUME NEW i \in S
        PROVE  /\ snapshot'[i] \in [status : WireStatus, interactive : BOOLEAN]
               /\ snapshot'[i].status # "drained" /\ snapshot'[i].interactive = a[i].interactive
               /\ snapshot'[i].status \in WireEnded <=> a[i].status \in WireEnded
    <3>1. a[i] \in [status : WireStatus, interactive : BOOLEAN]
      BY <2>3, <2>5
    <3>2. snapshot'[i] = [a[i] EXCEPT !.status = domain_status(a[i].status)]
      BY <2>2, <2>4, <2>5
    <3>3. /\ domain_status(a[i].status) \in WireStatus \ {"drained"}
          /\ domain_status(a[i].status) \in WireEnded <=> a[i].status \in WireEnded
      BY <3>1 DEF domain_status, WireStatus, WireEnded
    <3>. HIDE DEF WireStatus, WireEnded
    <3>. QED BY <3>1, <3>2, <3>3
  <2>6. snapshot' \in [S -> [status : WireStatus, interactive : BOOLEAN]]
    BY <2>2, <2>3, <2>4, <2>5
  <2>7. StillTrue(snapshot')
    BY <2>1, <2>4, <2>5 DEF StillTrue, Ended
  <2>. QED BY <1>1, <2>2, <2>3, <2>4, <2>5, <2>6, <2>7 DEF Registries
<1>4. CASE Doing(c) = "rm"
  <2>1. /\ snapshot' = [i \in DOMAIN snapshot \ {call[c].on} |-> snapshot[i]]
        /\ spawned' \subseteq spawned
    BY <1>4 DEF Learns
  <2>2. PICK S \in SUBSET Ids : snapshot \in [S -> [status : WireStatus, interactive : BOOLEAN]]
    BY <1>1 DEF Registries
  <2>3. snapshot' \in [S \ {call[c].on} -> [status : WireStatus, interactive : BOOLEAN]]
    BY <2>1, <2>2
  <2>4. DOMAIN snapshot' \subseteq DOMAIN snapshot
        /\ \A i \in DOMAIN snapshot' : snapshot'[i] = snapshot[i]
    BY <2>1
  <2>5. StillTrue(snapshot')
    BY <1>1, <2>4 DEF StillTrue, Ended
  <2>. QED BY <1>1, <2>1, <2>3, <2>4, <2>5 DEF Registries
<1>5. CASE Doing(c) \notin {"list", "rm"}
  <2>1. snapshot' = snapshot
    BY <1>5 DEF Learns
  <2>2. spawned' = spawned \/ (Doing(c) = "spawn" /\ spawned' = spawned \cup {reply[2]})
    BY <1>5 DEF Learns
  <2>3. Doing(c) = "spawn" => reply[2] \in 1..nextId
    BY <1>2, <1>2a DEF Replied
  <2>. QED BY <1>1, <2>1, <2>2, <2>3
<1>. QED BY <1>3, <1>4, <1>5

(* A reply is read once; the call goes on, or ends with the refusal.         *)
LEMMA ReadReplyStep == ASSUME SessionInv, NEW c \in Calls, ReadReply(c) PROVE Kept(c)
<1>1. /\ Dialed(c) /\ conn[c].reply # NoReply /\ conn' = [conn EXCEPT ![c] = NoConn]
      /\ \/ /\ Head(conn[c].reply) = "NotFound" /\ Fail(c, "not_found")
            /\ snapshot' = snapshot /\ spawned' = spawned
         \/ /\ Head(conn[c].reply) # "NotFound" /\ Advance(c) /\ Learns(c, conn[c].reply)
      /\ setup' = setup /\ agents' = agents /\ nextId' = nextId /\ serving' = serving
      /\ inbox' = inbox /\ served' = served
  BY DEF ReadReply, caliband
<1>2. SessionShape /\ Own(c) /\ OnItsWay(c)
  BY OwnBefore
<1>3. Open(c) /\ Doing(c) \in Requests /\ Replied(c)
  BY <1>1, <1>2 DEF OnItsWay
<1>4. GoesOn
  BY <1>1, <1>2, StandsStill
<1>5. conn'[c] = NoConn /\ \A d \in Calls : d # c => conn'[d] = conn[d]
  BY <1>1, <1>2 DEF SessionShape
<1>6. conn' \in [Calls -> [lines : Seq(Requests \cup {setup.token}), reply : AnyReply,
                           closed : BOOLEAN]]
  <2>1. NoReply \in AnyReply /\ <<>> \in Seq(Requests \cup {setup.token})
    BY DEF AnyReply
  <2>2. NoConn \in [lines : Seq(Requests \cup {setup.token}), reply : AnyReply, closed : BOOLEAN]
    BY <2>1 DEF NoConn
  <2>. QED BY <1>1, <1>2, <2>2 DEF SessionShape
<1>7. \A f \in inbox' : Talks(f[2])'
  BY <1>1 DEF SessionInv, Talks
<1>8. Head(<<"NotFound">>) = "NotFound"
  OBVIOUS
<1>9. CASE Head(conn[c].reply) = "NotFound" /\ Fail(c, "not_found")
           /\ snapshot' = snapshot /\ spawned' = spawned
  <2>1. "not_found" \in Answers \ {Pending, "ok"}
    BY DEF Answers, Pending
  <2>2. conn[c].reply = <<"NotFound">>
    BY <1>3, <1>9 DEF Replied
  <2>3. \A req \in Mutations : ~ Did(c, req)
    BY <1>2, <1>3, <2>2 DEF Own, LastChange
  <2>4. Own(c)'
    BY <1>1, <1>2, <1>3, <1>4, <1>5, <1>9, <2>1, <2>3, FailsOn
  <2>5. SessionShape' /\ OnlyOf(c)
    BY <1>1, <1>2, <1>5, <1>6, <1>9, <2>1, Failed DEF SessionShape, OnlyOf
  <2>6. StillTrue(snapshot)'
    BY <1>1, <1>9 DEF SessionInv, StillTrue, Ended
  <2>. QED BY <1>4, <1>7, <2>4, <2>5, <2>6 DEF Kept
<1>10. CASE Head(conn[c].reply) # "NotFound" /\ Advance(c) /\ Learns(c, conn[c].reply)
  <2>1. Did(c, Doing(c)) /\ ~ Stranger /\ Doing(c) # "gate" /\ Doing(c) # "UserMessage"
    BY <1>1, <1>2, <1>3, <1>8, <1>10 DEF Replied, Own, KeptOut, Requests
  <2>2. Own(c)'
    BY <1>1, <1>2, <1>3, <1>4, <1>5, <1>10, <2>1, MovesOn
  <2>3. /\ snapshot' \in Registries
           /\ \A i \in DOMAIN snapshot' : snapshot'[i].status # "drained"
        /\ StillTrue(snapshot') /\ spawned' \subseteq 1..nextId
    BY <1>1, <1>10, Learned
  <2>4. SessionShape' /\ OnlyOf(c)
    BY <1>1, <1>2, <1>3, <1>5, <1>6, <1>10, <2>3, Advanced DEF SessionShape, OnlyOf
  <2>5. StillTrue(snapshot)'
    BY <1>1, <2>3 DEF StillTrue, Ended
  <2>. QED BY <1>4, <1>7, <2>2, <2>4, <2>5 DEF Kept
<1>. QED BY <1>1, <1>9, <1>10

(* The end of the stream before a reply fails the call.                      *)
LEMMA ReadEofStep == ASSUME SessionInv, NEW c \in Calls, ReadEof(c) PROVE Kept(c)
<1>1. /\ Dialed(c) /\ conn' = [conn EXCEPT ![c] = NoConn]
      /\ \E why \in {"protocol", "io"} : Fail(c, why)
      /\ setup' = setup /\ agents' = agents /\ nextId' = nextId /\ serving' = serving
      /\ snapshot' = snapshot /\ spawned' = spawned /\ inbox' = inbox /\ served' = served
  BY DEF ReadEof, caliband
<1>2. SessionShape /\ Own(c) /\ OnItsWay(c)
  BY OwnBefore
<1>3. GoesOn /\ StillTrue(snapshot)' /\ \A f \in inbox' : Talks(f[2])'
  BY <1>1, NothingSeen
<1>4. Open(c)
  BY <1>1, <1>2 DEF OnItsWay
<1>5. conn'[c] = NoConn /\ \A d \in Calls : d # c => conn'[d] = conn[d]
  BY <1>1, <1>2 DEF SessionShape
<1>6. conn' \in [Calls -> [lines : Seq(Requests \cup {setup.token}), reply : AnyReply,
                           closed : BOOLEAN]]
  <2>1. NoReply \in AnyReply /\ <<>> \in Seq(Requests \cup {setup.token})
    BY DEF AnyReply
  <2>2. NoConn \in [lines : Seq(Requests \cup {setup.token}), reply : AnyReply, closed : BOOLEAN]
    BY <2>1 DEF NoConn
  <2>. QED BY <1>1, <1>2, <2>2 DEF SessionShape
<1>7. PICK why \in {"protocol", "io"} : Fail(c, why)
  BY <1>1
<1>8. why \in Answers \ {Pending, "ok"} /\ why \notin {"not_found", "invalid_state"}
  BY DEF Answers, Pending
<1>9. Own(c)'
  BY <1>1, <1>2, <1>3, <1>4, <1>5, <1>7, <1>8, FailsOn
<1>10. /\ \A d \in Calls : d # c => call'[d] = call[d]
       /\ call' \in [Calls -> [op : Operations \cup {"none"}, on : Nat, todo : AnyLeft,
                               answer : Answers]]
  BY <1>2, <1>7, <1>8, Failed
<1>11. OnlyOf(c)
  BY <1>1, <1>5, <1>10 DEF OnlyOf
<1>12. SessionShape'
  BY <1>1, <1>2, <1>6, <1>10 DEF SessionShape
<1>. QED BY <1>3, <1>9, <1>11, <1>12 DEF Kept

(* The effect of a reply on the connections.                                 *)
LEMMA Answered ==
    ASSUME SessionShape, NEW c \in Calls, NEW r \in AnyReply, Replies(c, r), setup' = setup
    PROVE  /\ conn'[c].lines = <<>> /\ conn'[c].reply = r
           /\ \A d \in Calls : d # c => conn'[d] = conn[d]
           /\ conn' \in [Calls -> [lines : Seq(Requests \cup {setup'.token}), reply : AnyReply,
                                   closed : BOOLEAN]]
<1>. DEFINE Lines == Seq(Requests \cup {setup.token})
<1>1. conn \in [Calls -> [lines : Lines, reply : AnyReply, closed : BOOLEAN]]
  BY DEF SessionShape
<1>2. <<>> \in Lines
  OBVIOUS
<1>. HIDE DEF Lines
<1>3. conn' = [conn EXCEPT ![c].lines = <<>>, ![c].reply = r]
  BY DEF Replies
<1>4. /\ conn'[c].lines = <<>> /\ conn'[c].reply = r
      /\ \A d \in Calls : d # c => conn'[d] = conn[d]
      /\ conn' \in [Calls -> [lines : Lines, reply : AnyReply, closed : BOOLEAN]]
  BY <1>1, <1>2, <1>3
<1>. QED BY <1>4 DEF Lines

(* A request that is carried out keeps the invariant.                        *)
LEMMA CarriedKept ==
    ASSUME SessionInv, NEW c \in Calls, Dialed(c), conn[c].lines # <<>>, ~ Stranger,
           UNCHANGED <<setup, snapshot, spawned, call, inbox>>,
           NEW r \in AnyReply, r # NoReply, Head(r) # "NotFound",
           Replies(c, r), Carried(c, Doing(c)),
           GoesOn, agents' \in Registries, DOMAIN agents' \subseteq 1..nextId',
           serving' \in BOOLEAN,
           Doing(c) = "list" => /\ conn'[c].reply[2] \in Registries
                                /\ StillTrue(conn[c].reply[2])',
           Doing(c) = "spawn" => r[2] \in 1..nextId',
           Doing(c) = "kill" => Stopped(call[c].on)'
    PROVE  Kept(c)
<1>1. SessionShape /\ Own(c) /\ OnItsWay(c) /\ Doing(c) \in Requests
  BY OwnBefore DEF OnItsWay
<1>2. /\ conn'[c].lines = <<>> /\ conn'[c].reply = r
      /\ \A d \in Calls : d # c => conn'[d] = conn[d]
      /\ conn' \in [Calls -> [lines : Seq(Requests \cup {setup'.token}), reply : AnyReply,
                              closed : BOOLEAN]]
  BY <1>1, Answered
<1>3. Own(c)'
  BY <1>1, <1>2, CarriedOut
<1>4. /\ served' \in [Calls -> Seq(Requests)]
      /\ \A d \in Calls : d # c => served'[d] = served[d]
  BY <1>1 DEF Carried, SessionShape
<1>5. OnlyOf(c)
  BY <1>2, <1>4 DEF OnlyOf
<1>6. spawned' \subseteq 1..nextId'
  BY <1>1, MaxIdAssumption DEF SessionShape, GoesOn
<1>7. SessionShape'
  BY <1>1, <1>2, <1>4, <1>6 DEF SessionShape, GoesOn
<1>8. StillTrue(snapshot)'
  <2>1. StillTrue(snapshot)
    BY DEF SessionInv
  <2>. QED BY <1>1, <2>1, StillTrueGoesOn DEF StillTrue
<1>9. ASSUME NEW f \in inbox' PROVE Talks(f[2])'
  <2>1. Talks(f[2])
    BY DEF SessionInv
  <2>. QED BY <1>1, <2>1, TalksGoesOn DEF Talks
<1>. QED BY <1>3, <1>5, <1>7, <1>8, <1>9 DEF Kept

(* A line that is no request, or comes from a client caliband does not admit, *)
(* or is on a connection that is lost, is answered by the end of the stream. *)
LEMMA HungUp ==
    ASSUME SessionInv, NEW c \in Calls, Dialed(c),
           conn[c].lines # <<>> \/ conn'[c].reply = NoReply,
           \/ conn' = [conn EXCEPT ![c].lines = <<>>, ![c].closed = TRUE]
           \/ conn' = [conn EXCEPT ![c].lines = <<>>, ![c].reply = NoReply, ![c].closed = TRUE],
           UNCHANGED <<setup, agents, nextId, serving, snapshot, spawned>>,
           UNCHANGED <<call, inbox, served>>
    PROVE  Kept(c)
<1>1. SessionShape /\ Own(c) /\ OnItsWay(c)
  BY OwnBefore
<1>2. GoesOn /\ StillTrue(snapshot)' /\ \A f \in inbox' : Talks(f[2])'
  BY NothingSeen
<1>. DEFINE Lines == Seq(Requests \cup {setup.token})
<1>3. conn \in [Calls -> [lines : Lines, reply : AnyReply, closed : BOOLEAN]]
  BY <1>1 DEF SessionShape
<1>4. <<>> \in Lines /\ NoReply \in AnyReply
  BY DEF AnyReply
<1>. HIDE DEF Lines
<1>5. /\ conn'[c].lines = <<>> /\ conn'[c].closed = TRUE
      /\ conn'[c].reply \in {conn[c].reply, NoReply}
      /\ \A d \in Calls : d # c => conn'[d] = conn[d]
      /\ conn' \in [Calls -> [lines : Lines, reply : AnyReply, closed : BOOLEAN]]
  BY <1>3, <1>4
<1>6. conn'[c].reply = NoReply
  BY <1>1, <1>5 DEF OnItsWay
<1>7. conn'[c] # NoConn
  BY <1>5 DEF NoConn
<1>8. Own(c)'
  BY <1>1, <1>5, <1>6, <1>7, Unanswered
<1>9. SessionShape'
  BY <1>1, <1>5 DEF SessionShape, Lines
<1>10. OnlyOf(c)
  BY <1>5 DEF OnlyOf
<1>. QED BY <1>2, <1>8, <1>9, <1>10 DEF Kept

(* A caliband that has stopped, and a lost connection, hang up.              *)
LEMMA ResetsStep == ASSUME SessionInv, NEW c \in Calls, Resets(c) PROVE Kept(c)
  BY HungUp DEF Resets, caliband

LEMMA LostStep == ASSUME SessionInv, NEW c \in Calls, Lost(c) PROVE Kept(c)
<1>1. conn' = [conn EXCEPT ![c].lines = <<>>, ![c].reply = NoReply, ![c].closed = TRUE]
  BY DEF Lost
<1>2. conn'[c].reply = NoReply
  BY <1>1 DEF SessionInv, SessionShape
<1>. QED BY <1>1, <1>2, HungUp DEF Lost, caliband

(* Registries that caliband makes of its registry.                           *)
LEMMA NewAgent ==
    ASSUME NEW a \in Registries, NEW n \in Ids, n \notin DOMAIN a,
           NEW w \in [status : WireStatus, interactive : BOOLEAN]
    PROVE  /\ With(a, n, w) \in Registries /\ DOMAIN With(a, n, w) = DOMAIN a \cup {n}
           /\ \A i \in DOMAIN a : With(a, n, w)[i] = a[i]
<1>. DEFINE W == [status : WireStatus, interactive : BOOLEAN]
<1>1. PICK S \in SUBSET Ids : a \in [S -> W]
  BY DEF Registries
<1>2. w \in W /\ DOMAIN a = S
  BY <1>1
<1>. HIDE DEF W
<1>3. With(a, n, w) \in [S \cup {n} -> W] /\ S \cup {n} \in SUBSET Ids
  BY <1>1, <1>2 DEF With
<1>4. With(a, n, w) \in Registries
  BY <1>3 DEF Registries, W
<1>. QED BY <1>2, <1>3, <1>4 DEF With

LEMMA FewerAgents ==
    ASSUME agents \in Registries, NEW id
    PROVE  /\ Removed(id) \in Registries /\ DOMAIN Removed(id) = DOMAIN agents \ {id}
           /\ \A i \in DOMAIN Removed(id) : Removed(id)[i] = agents[i]
<1>1. PICK S \in SUBSET Ids : agents \in [S -> [status : WireStatus, interactive : BOOLEAN]]
  BY DEF Registries
<1>2. Removed(id) = [i \in S \ {id} |-> agents[i]]
  BY <1>1 DEF Removed
<1>3. Removed(id) \in [S \ {id} -> [status : WireStatus, interactive : BOOLEAN]]
  BY <1>1, <1>2
<1>4. S \ {id} \in SUBSET Ids
  OBVIOUS
<1>5. Removed(id) \in Registries
  BY <1>3, <1>4 DEF Registries
<1>. QED BY <1>1, <1>2, <1>5

LEMMA OneEnds ==
    ASSUME NEW a \in Registries, NEW id \in DOMAIN a, NEW s \in WireStatus
    PROVE  /\ [a EXCEPT ![id].status = s] \in Registries
           /\ DOMAIN [a EXCEPT ![id].status = s] = DOMAIN a
           /\ \A i \in DOMAIN a :
                 /\ [a EXCEPT ![id].status = s][i].interactive = a[i].interactive
                 /\ i # id => [a EXCEPT ![id].status = s][i] = a[i]
           /\ [a EXCEPT ![id].status = s][id].status = s
<1>1. PICK S \in SUBSET Ids : a \in [S -> [status : WireStatus, interactive : BOOLEAN]]
  BY DEF Registries
<1>. DEFINE b == [a EXCEPT ![id].status = s]
<1>2. S = DOMAIN a /\ a \in [S -> [status : WireStatus, interactive : BOOLEAN]]
  BY <1>1
<1>. HIDE DEF WireStatus
<1>3. /\ b \in [S -> [status : WireStatus, interactive : BOOLEAN]] /\ DOMAIN b = S
      /\ \A i \in S : b[i].interactive = a[i].interactive /\ (i # id => b[i] = a[i])
      /\ b[id].status = s
  BY <1>2
<1>4. b \in Registries
  BY <1>3 DEF Registries
<1>. QED BY <1>2, <1>3, <1>4

(* Listing, and what starts an agent, stops one or stops caliband.           *)
LEMMA ServeStep == ASSUME SessionInv, NEW c \in Calls, Serve(c) PROVE Kept(c)
<1>. DEFINE lines == conn[c].lines
<1>1. /\ serving /\ Dialed(c) /\ lines # <<>>
      /\ setup' = setup /\ snapshot' = snapshot /\ spawned' = spawned /\ call' = call
      /\ inbox' = inbox
  BY DEF Serve
<1>2. SessionShape /\ Own(c) /\ OnItsWay(c)
  BY OwnBefore
<1>3. /\ agents \in Registries /\ DOMAIN agents \subseteq 1..nextId /\ nextId \in 0..MaxId
      /\ nextId \in Nat /\ MaxId \in Nat /\ serving \in BOOLEAN /\ call[c].on \in Nat
  BY <1>2, MaxIdAssumption DEF SessionShape
<1>4. CASE ~ (Admits(lines) /\ Asked(lines) \in Requests)
  <2>1. conn' = [conn EXCEPT ![c].lines = <<>>, ![c].closed = TRUE]
        /\ UNCHANGED <<agents, nextId, serving, served>>
    BY <1>4 DEF Serve, caliband
  <2>. QED BY <1>1, <2>1, HungUp
<1>5. CASE Admits(lines) /\ Asked(lines) \in Requests
  <2>. DEFINE req == Doing(c)
  <2>1. Asked(lines) = req /\ ~ Stranger /\ req \in Requests
    BY <1>1, <1>2, <1>5, Admitted
  <2>2. CASE ServeList(c) /\ req = "list"
    <3>1. /\ Carried(c, "list") /\ Replies(c, <<"Listed", agents>>)
          /\ agents' = agents /\ nextId' = nextId /\ serving' = serving
      BY <2>2 DEF ServeList, caliband
    <3>2. <<"Listed", agents>> \in AnyReply
      BY <1>3 DEF AnyReply
    <3>3. conn'[c].reply = <<"Listed", agents>>
      BY <1>1, <1>2, <3>1, <3>2, Answered
    <3>4. conn'[c].reply[2] \in Registries /\ StillTrue(conn[c].reply[2])'
      BY <1>3, <3>1, <3>3 DEF StillTrue
    <3>5. GoesOn
      BY <1>2, <3>1, StandsStill
    <3>6. <<"Listed", agents>> # NoReply /\ Head(<<"Listed", agents>>) # "NotFound"
      BY DEF NoReply
    <3>. QED BY <1>1, <1>3, <2>1, <2>2, <3>1, <3>2, <3>4, <3>5, <3>6, CarriedKept
  <2>3. CASE ServeSpawn(c) /\ req = "spawn"
    <3>. DEFINE n == nextId + 1
    <3>1. PICK talks \in BOOLEAN :
             /\ n \in Ids /\ nextId' = n
             /\ agents' = With(agents, n, [status |-> "running", interactive |-> talks])
             /\ Carried(c, "spawn") /\ Replies(c, <<"Spawned", n>>) /\ serving' = serving
      BY <2>3 DEF ServeSpawn
    <3>2. /\ <<"Spawned", n>> \in AnyReply /\ <<"Spawned", n>>[2] = n
          /\ <<"Spawned", n>> # NoReply /\ Head(<<"Spawned", n>>) # "NotFound"
      BY <3>1 DEF AnyReply, NoReply
    <3>3. [status |-> "running", interactive |-> talks]
             \in [status : WireStatus, interactive : BOOLEAN]
      BY DEF WireStatus
    <3>4. n \notin DOMAIN agents
      BY <1>3
    <3>5. /\ agents' \in Registries /\ DOMAIN agents' = DOMAIN agents \cup {n}
          /\ \A i \in DOMAIN agents : agents'[i] = agents[i]
      <4>. DEFINE w == [status |-> "running", interactive |-> talks]
                  b == With(agents, n, w)
      <4>1. w \in [status : WireStatus, interactive : BOOLEAN] /\ n \in Ids /\ agents' = b
        BY <3>1, <3>3
      <4>. HIDE DEF w, n
      <4>2. /\ b \in Registries /\ DOMAIN b = DOMAIN agents \cup {n}
            /\ \A i \in DOMAIN agents : b[i] = agents[i]
        BY <1>3, <3>4, <4>1, NewAgent
      <4>. HIDE DEF b
      <4>. QED BY <4>1, <4>2
    <3>6. GoesOn
      BY <1>3, <3>1, <3>5 DEF GoesOn, Ended, Ids
    <3>7. DOMAIN agents' \subseteq 1..nextId' /\ n \in 1..nextId'
      BY <1>3, <3>1, <3>5
    <3>. QED BY <1>1, <1>3, <2>1, <2>3, <3>1, <3>2, <3>5, <3>6, <3>7, CarriedKept
  <2>4. CASE ServeShutdown(c) /\ req = "shutdown"
    <3>1. /\ Carried(c, "shutdown") /\ Replies(c, <<"ShutdownAck">>)
          /\ agents' = agents /\ nextId' = nextId /\ serving' = FALSE
      BY <2>4 DEF ServeShutdown
    <3>2. <<"ShutdownAck">> \in AnyReply
      BY DEF AnyReply
    <3>3. GoesOn
      BY <1>2, <3>1, StandsStill
    <3>4. <<"ShutdownAck">> # NoReply /\ Head(<<"ShutdownAck">>) # "NotFound"
      BY DEF NoReply
    <3>. QED BY <1>1, <1>3, <2>1, <2>4, <3>1, <3>2, <3>3, <3>4, CarriedKept
  <2>5. CASE ServeOnAgent(c, req) /\ req \in {"attach", "kill", "respawn", "rm"}
    <3>. DEFINE id == call[c].on
    <3>1. CASE id \notin DOMAIN agents
      <4>1. /\ Replies(c, <<"NotFound">>)
            /\ UNCHANGED <<agents, nextId, serving, served>>
        BY <2>5, <3>1 DEF ServeOnAgent, caliband
      <4>2. <<"NotFound">> \in AnyReply
        BY DEF AnyReply
      <4>3. /\ conn'[c].lines = <<>> /\ conn'[c].reply = <<"NotFound">>
            /\ \A d \in Calls : d # c => conn'[d] = conn[d]
            /\ conn' \in [Calls -> [lines : Seq(Requests \cup {setup'.token}), reply : AnyReply,
                                    closed : BOOLEAN]]
        BY <1>1, <1>2, <4>1, <4>2, Answered
      <4>4. Own(c)'
        BY <1>1, <1>2, <2>1, <2>5, <4>1, <4>3, NobodyThere
      <4>5. GoesOn /\ StillTrue(snapshot)' /\ \A f \in inbox' : Talks(f[2])'
        BY <1>1, <4>1, NothingSeen
      <4>6. SessionShape' /\ OnlyOf(c)
        BY <1>1, <1>2, <4>1, <4>3 DEF SessionShape, OnlyOf
      <4>. QED BY <4>4, <4>5, <4>6 DEF Kept
    <3>2. CASE id \in DOMAIN agents /\ req = "attach"
      <4>1. /\ Carried(c, req) /\ Replies(c, <<"AttachAck">>)
            /\ agents' = agents /\ nextId' = nextId /\ serving' = serving
        BY <2>5, <3>2 DEF ServeOnAgent, caliband
      <4>2. <<"AttachAck">> \in AnyReply
        BY DEF AnyReply
      <4>3. GoesOn
        BY <1>2, <4>1, StandsStill
      <4>4. <<"AttachAck">> # NoReply /\ Head(<<"AttachAck">>) # "NotFound"
        BY DEF NoReply
      <4>. QED BY <1>1, <1>3, <2>1, <3>2, <4>1, <4>2, <4>3, <4>4, CarriedKept
    <3>3. CASE id \in DOMAIN agents /\ req = "kill"
      <4>1. /\ Carried(c, req) /\ Replies(c, <<"Killed">>)
            /\ agents' = [agents EXCEPT ![id].status = "killed"]
            /\ nextId' = nextId /\ serving' = serving
        BY <2>5, <3>3 DEF ServeOnAgent
      <4>2. <<"Killed">> \in AnyReply /\ "killed" \in WireStatus /\ "killed" \in WireEnded
        BY DEF AnyReply, WireStatus, WireEnded
      <4>3. /\ agents' \in Registries /\ DOMAIN agents' = DOMAIN agents
            /\ \A i \in DOMAIN agents : agents'[i].interactive = agents[i].interactive
                                        /\ (i # id => agents'[i] = agents[i])
            /\ agents'[id].status = "killed"
        <5>. DEFINE b == [agents EXCEPT ![id].status = "killed"]
        <5>1. /\ b \in Registries /\ DOMAIN b = DOMAIN agents
              /\ \A i \in DOMAIN agents : b[i].interactive = agents[i].interactive
                                          /\ (i # id => b[i] = agents[i])
              /\ b[id].status = "killed"
          <6>. HIDE DEF WireStatus
          <6>. QED BY <1>3, <3>3, <4>2, OneEnds
        <5>2. agents' = b
          BY <4>1
        <5>. HIDE DEF b
        <5>. QED BY <5>1, <5>2
      <4>4. GoesOn
        BY <1>3, <4>1, <4>2, <4>3 DEF GoesOn, Ended
      <4>5. Stopped(id)'
        BY <1>1, <1>3, <3>3, <4>1, <4>2, <4>3 DEF Stopped, Ended
      <4>6. <<"Killed">> # NoReply /\ Head(<<"Killed">>) # "NotFound"
        BY DEF NoReply
      <4>. QED BY <1>1, <1>3, <2>1, <3>3, <4>1, <4>2, <4>3, <4>4, <4>5, <4>6, CarriedKept
    <3>4. CASE id \in DOMAIN agents /\ req = "rm"
      <4>1. /\ Carried(c, req) /\ Replies(c, <<"Removed">>) /\ agents' = Removed(id)
            /\ nextId' = nextId /\ serving' = serving
        BY <2>5, <3>4 DEF ServeOnAgent
      <4>2. <<"Removed">> \in AnyReply
        BY DEF AnyReply
      <4>3. /\ agents' \in Registries /\ DOMAIN agents' = DOMAIN agents \ {id}
            /\ \A i \in DOMAIN agents' : agents'[i] = agents[i]
        BY <1>3, <4>1, FewerAgents
      <4>4. GoesOn
        BY <1>3, <4>1, <4>3 DEF GoesOn, Ended
      <4>5. <<"Removed">> # NoReply /\ Head(<<"Removed">>) # "NotFound"
        BY DEF NoReply
      <4>. QED BY <1>1, <1>3, <2>1, <3>4, <4>1, <4>2, <4>3, <4>4, <4>5, CarriedKept
    <3>5. CASE id \in DOMAIN agents /\ req = "respawn"
      <4>. DEFINE n == nextId + 1
      <4>1. /\ n \in Ids /\ nextId' = n /\ Carried(c, req) /\ Replies(c, <<"Respawned", n>>)
            /\ agents' = Removed(id) \/ agents' = With(Removed(id), n, agents[id])
            /\ serving' = serving
        BY <2>5, <3>5 DEF ServeOnAgent
      <4>2. <<"Respawned", n>> \in AnyReply
        BY <4>1 DEF AnyReply
      <4>3. /\ Removed(id) \in Registries /\ DOMAIN Removed(id) = DOMAIN agents \ {id}
            /\ \A i \in DOMAIN Removed(id) : Removed(id)[i] = agents[i]
        BY <1>3, FewerAgents
      <4>4. agents[id] \in [status : WireStatus, interactive : BOOLEAN]
        BY <1>3, <3>5 DEF Registries
      <4>5. n \notin DOMAIN agents
        BY <1>3
      <4>6. /\ agents' \in Registries
            /\ DOMAIN agents' \subseteq (DOMAIN agents \ {id}) \cup {n}
            /\ \A i \in DOMAIN agents' : i # n => agents'[i] = agents[i]
        <5>. DEFINE b == With(Removed(id), n, agents[id])
        <5>1. Removed(id) \in Registries /\ n \notin DOMAIN Removed(id)
          BY <4>3, <4>5
        <5>2. /\ b \in Registries /\ DOMAIN b = DOMAIN Removed(id) \cup {n}
              /\ \A i \in DOMAIN Removed(id) : b[i] = Removed(id)[i]
          BY <4>1, <4>4, <5>1, NewAgent
        <5>3. CASE agents' = Removed(id)
          BY <4>3, <5>3
        <5>4. CASE agents' = b
          <6>. HIDE DEF b
          <6>1. DOMAIN agents' = (DOMAIN agents \ {id}) \cup {n}
            BY <4>3, <5>2, <5>4
          <6>2. ASSUME NEW i \in DOMAIN agents', i # n PROVE agents'[i] = agents[i]
            BY <4>3, <5>2, <5>4, <6>1, <6>2
          <6>. QED BY <5>2, <5>4, <6>1, <6>2
        <5>. QED BY <4>1, <5>3, <5>4
      <4>7. GoesOn
        BY <1>3, <4>1, <4>6 DEF GoesOn, Ended, Ids
      <4>8. DOMAIN agents' \subseteq 1..nextId'
        BY <1>3, <4>1, <4>6
      <4>9. <<"Respawned", n>> # NoReply /\ Head(<<"Respawned", n>>) # "NotFound"
        BY DEF NoReply
      <4>. QED BY <1>1, <1>3, <2>1, <3>5, <4>1, <4>2, <4>6, <4>7, <4>8, <4>9, CarriedKept
    <3>. QED BY <2>5, <3>1, <3>2, <3>3, <3>4, <3>5
  <2>. QED BY <1>5, <2>1, <2>2, <2>3, <2>4, <2>5 DEF Serve, Requests
<1>. QED BY <1>4, <1>5

(* The next poll is a new call.                                              *)
LEMMA PollAgainStep == ASSUME SessionInv, NEW c \in Calls, PollAgain(c) PROVE Kept(c)
<1>1. /\ call[c].op = "list" /\ ~ Open(c)
      /\ call' = [call EXCEPT ![c].todo = Program("list"), ![c].answer = Pending]
      /\ served' = [served EXCEPT ![c] = <<>>]
      /\ setup' = setup /\ agents' = agents /\ nextId' = nextId /\ serving' = serving
      /\ snapshot' = snapshot /\ spawned' = spawned /\ conn' = conn /\ inbox' = inbox
  BY DEF PollAgain, caliband
<1>2. SessionShape /\ Own(c) /\ OnItsWay(c)
  BY OwnBefore
<1>3. GoesOn /\ StillTrue(snapshot)' /\ \A f \in inbox' : Talks(f[2])'
  BY <1>1, NothingSeen
<1>4. conn[c] = NoConn
  BY <1>1, <1>2 DEF OnItsWay, Dialed
<1>5. "list" \in Operations /\ Program("list") \in LeftOver("list") /\ Program("list") = <<"list">>
      /\ Program("list") \in AnyLeft /\ Pending \in Answers
  BY DEF Operations, Program, LeftOver, AnyLeft, Answers, Pending
<1>. DEFINE O == Operations \cup {"none"}
<1>6. call \in [Calls -> [op : O, on : Nat, todo : AnyLeft, answer : Answers]]
  BY <1>2 DEF SessionShape
<1>. HIDE DEF O
<1>7. /\ call'[c].op = "list" /\ call'[c].todo = <<"list">> /\ call'[c].answer = Pending
      /\ \A d \in Calls : d # c => call'[d] = call[d]
      /\ call' \in [Calls -> [op : O, on : Nat, todo : AnyLeft, answer : Answers]]
  BY <1>1, <1>5, <1>6
<1>8. /\ served'[c] = <<>> /\ \A d \in Calls : d # c => served'[d] = served[d]
      /\ served' \in [Calls -> Seq(Requests)]
  BY <1>1, <1>2 DEF SessionShape
<1>9. SessionShape' /\ OnlyOf(c)
  BY <1>1, <1>2, <1>7, <1>8 DEF SessionShape, OnlyOf, O
<1>10. Open(c)' /\ ~ Over(c)' /\ ~ Dialed(c)' /\ \A req : ~ Did(c, req)'
  BY <1>1, <1>4, <1>7, <1>8 DEF Open, Over, Dialed, Did
<1>11. OnItsWay(c)'
  BY <1>5, <1>7, <1>10 DEF OnItsWay
<1>12. NotYet(c)' /\ LastChange(c)' /\ Honest(c)' /\ StopsIt(c)'
  BY <1>8, <1>10 DEF NotYet, LastChange, Honest, StopsIt, IsInjective
<1>13. Addresses(c)'
  <2>1. /\ <<"list">> # <<"attach", "UserMessage">> /\ <<"list">> # <<"UserMessage">>
        /\ <<"list">> # <<"attach", "EndInput", "linger", "find", "kill">>
        /\ <<"list">> # <<"EndInput", "linger", "find", "kill">>
    OBVIOUS
  <2>. QED BY <1>7, <2>1 DEF Addresses
<1>14. KeptOut(c)'
  BY <1>1, <1>4, <1>7, <1>8, <1>10 DEF KeptOut, NoConn
<1>. QED BY <1>3, <1>9, <1>11, <1>12, <1>13, <1>14 DEF Kept, Own

(* An agent moves on its own, and never back from an end.                    *)
LEMMA AgentMovesStep == ASSUME SessionInv, AgentMoves PROVE SessionInv'
<1>1. PICK i \in DOMAIN agents, s \in {"idle", "done", "drained"} :
         /\ agents[i].status \notin WireEnded
         /\ agents' = [agents EXCEPT ![i].status = s]
  BY DEF AgentMoves
<1>2. /\ setup' = setup /\ nextId' = nextId /\ serving' = serving /\ snapshot' = snapshot
      /\ spawned' = spawned /\ call' = call /\ conn' = conn /\ inbox' = inbox /\ served' = served
  BY DEF AgentMoves
<1>3. SessionShape
  BY DEF SessionInv
<1>4. /\ agents' \in Registries /\ DOMAIN agents' = DOMAIN agents
      /\ \A j \in DOMAIN agents : agents'[j].interactive = agents[j].interactive
                                  /\ (j # i => agents'[j] = agents[j])
  <2>. DEFINE b == [agents EXCEPT ![i].status = s]
  <2>1. s \in WireStatus
    BY <1>1 DEF WireStatus, WireEnded
  <2>2. /\ b \in Registries /\ DOMAIN b = DOMAIN agents
        /\ \A j \in DOMAIN agents : b[j].interactive = agents[j].interactive
                                    /\ (j # i => b[j] = agents[j])
    <3>1. agents \in Registries
      BY <1>3 DEF SessionShape
    <3>. HIDE DEF WireStatus
    <3>. QED BY <2>1, <3>1, OneEnds
  <2>3. agents' = b
    BY <1>1
  <2>. HIDE DEF b
  <2>. QED BY <2>2, <2>3
<1>5. GoesOn
  BY <1>1, <1>2, <1>3, <1>4 DEF GoesOn, Ended, SessionShape
<1>6. SessionShape'
  BY <1>2, <1>3, <1>4 DEF SessionShape
<1>7. ASSUME NEW c \in Calls PROVE Own(c)'
  BY <1>2, <1>3, <1>5, OthersKeep DEF SessionInv, Own
<1>8. StillTrue(snapshot)'
  BY <1>2, <1>3, <1>5, StillTrueGoesOn DEF SessionInv, StillTrue
<1>9. \A f \in inbox' : Talks(f[2])'
  BY <1>2, <1>3, <1>5, TalksGoesOn DEF SessionInv, Talks
<1>. QED BY <1>6, <1>7, <1>8, <1>9 DEF SessionInv, Own

(* The initial states satisfy the invariant.                                 *)
LEMMA SessionBegins == SessionInit => SessionInv
<1>. SUFFICES ASSUME SessionInit PROVE SessionInv
  OBVIOUS
<1>1. PICK s \in Scenarios :
        /\ setup = s.setup
        /\ agents = s.made /\ nextId = Cardinality(DOMAIN s.made) /\ serving = TRUE
        /\ snapshot = s.made /\ spawned = {}
        /\ call = [c \in Calls |->
                     IF c \in DOMAIN s.does
                     THEN [op |-> s.does[c].op, on |-> s.does[c].on,
                           todo |-> Program(s.does[c].op), answer |-> Pending]
                     ELSE [op |-> "none", on |-> 0, todo |-> <<>>, answer |-> "ok"]]
        /\ conn = [c \in Calls |-> NoConn]
        /\ inbox = {} /\ served = [c \in Calls |-> <<>>]
  BY DEF SessionInit
<1>2. PICK n \in 0..MaxId :
         s.made \in [1..n -> [status : WireStatus \ {"drained"}, interactive : BOOLEAN]]
  BY ScenariosAssumption
<1>3. /\ DOMAIN s.made = 1..n
      /\ \A i \in DOMAIN s.made :
            s.made[i] \in [status : WireStatus \ {"drained"}, interactive : BOOLEAN]
  BY <1>2
<1>4. nextId = n /\ DOMAIN agents = 1..nextId /\ n \in Nat
  <2>1. n \in Nat /\ 1 \in Int /\ n \in Int
    BY <1>2, MaxIdAssumption
  <2>2. Cardinality(1..n) = n
    BY <2>1, FS_Interval
  <2>. QED BY <1>1, <1>2, <1>3, <2>1, <2>2
<1>5. agents \in Registries /\ snapshot = agents
      /\ \A i \in DOMAIN snapshot : snapshot[i].status # "drained"
  <2>1. s.made \in [1..n -> [status : WireStatus, interactive : BOOLEAN]]
    BY <1>2
  <2>2. 1..n \in SUBSET Ids
    BY <1>2, <1>4, MaxIdAssumption DEF Ids
  <2>3. \A i \in DOMAIN snapshot : snapshot[i].status # "drained"
    BY <1>1, <1>3
  <2>. QED BY <1>1, <2>1, <2>2, <2>3 DEF Registries
<1>6. {setup.token, setup.demands.token} \cap Requests = {}
  BY <1>1, ScenariosAssumption
<1>7. ASSUME NEW c \in Calls
      PROVE  /\ call[c] \in [op : Operations \cup {"none"}, on : Nat, todo : AnyLeft,
                             answer : Answers]
             /\ Own(c)
  <2>1. conn[c] = NoConn /\ served[c] = <<>> /\ ~ Dialed(c) /\ \A req : ~ Did(c, req)
    BY <1>1 DEF Dialed, Did
  <2>2. IsInjective(served[c])
    BY <2>1 DEF IsInjective
  <2>3. CASE c \in DOMAIN s.does
    <3>. DEFINE op == s.does[c].op
    <3>1. op \in Operations /\ s.does[c].on \in Nat
      BY <2>3, ScenariosAssumption
    <3>2. call[c] = [op |-> op, on |-> s.does[c].on, todo |-> Program(op), answer |-> Pending]
      BY <1>1, <2>3
    <3>3. Program(op) \in LeftOver(op) /\ Program(op) \in AnyLeft
      BY <3>1, ProgramLeft DEF AnyLeft
    <3>4. /\ Program(op)[1] \notin {"attach", "UserMessage", "EndInput"}
          /\ <<"attach", "UserMessage">>[1] = "attach" /\ <<"UserMessage">>[1] = "UserMessage"
          /\ <<"attach", "EndInput", "linger", "find", "kill">>[1] = "attach"
          /\ <<"EndInput", "linger", "find", "kill">>[1] = "EndInput"
      BY <3>1 DEF Program, Operations
    <3>. HIDE DEF op
    <3>5. Open(c) /\ ~ Over(c) /\ call[c].op = op /\ call[c].todo = Program(op) /\ op # "none"
      BY <3>1, <3>2 DEF Open, Over, Operations
    <3>6. OnItsWay(c) /\ NotYet(c) /\ LastChange(c) /\ Honest(c) /\ StopsIt(c)
      BY <2>1, <2>2, <3>1, <3>3, <3>5 DEF OnItsWay, NotYet, LastChange, Honest, StopsIt
    <3>7. Addresses(c)
      BY <3>4, <3>5 DEF Addresses
    <3>8. KeptOut(c)
      BY <2>1, <3>4, <3>5 DEF KeptOut, NoConn
    <3>9. call[c] \in [op : Operations \cup {"none"}, on : Nat, todo : AnyLeft, answer : Answers]
      <4>1. Pending \in Answers
        BY DEF Answers
      <4>. QED BY <3>1, <3>2, <3>3, <4>1
    <3>. QED BY <3>6, <3>7, <3>8, <3>9 DEF Own
  <2>4. CASE c \notin DOMAIN s.does
    <3>1. call[c] = [op |-> "none", on |-> 0, todo |-> <<>>, answer |-> "ok"]
      BY <1>1, <2>4
    <3>2. <<>> \in AnyLeft /\ "ok" \in Answers
      BY DEF AnyLeft, Answers
    <3>3. ~ Open(c) /\ ~ Over(c) /\ call[c].op = "none" /\ call[c].answer = "ok"
      BY <3>1 DEF Open, Over, Pending
    <3>4. OnItsWay(c) /\ NotYet(c) /\ LastChange(c) /\ Honest(c) /\ StopsIt(c) /\ Addresses(c)
      BY <2>1, <2>2, <3>3 DEF OnItsWay, NotYet, LastChange, Honest, StopsIt, Addresses
    <3>5. KeptOut(c)
      BY <2>1, <3>3 DEF KeptOut, NoConn
    <3>. QED BY <3>1, <3>2, <3>4, <3>5 DEF Own
  <2>. QED BY <2>3, <2>4
<1>8. call \in [Calls -> [op : Operations \cup {"none"}, on : Nat, todo : AnyLeft,
                          answer : Answers]]
  BY <1>1, <1>7
<1>9. /\ conn \in [Calls -> [lines : Seq(Requests \cup {setup.token}), reply : AnyReply,
                             closed : BOOLEAN]]
      /\ served \in [Calls -> Seq(Requests)]
  <2>1. NoReply \in AnyReply /\ <<>> \in Seq(Requests \cup {setup.token})
    BY DEF AnyReply
  <2>2. NoConn \in [lines : Seq(Requests \cup {setup.token}), reply : AnyReply, closed : BOOLEAN]
    BY <2>1 DEF NoConn
  <2>. QED BY <1>1, <2>2
<1>10. SessionShape
  BY <1>1, <1>2, <1>3, <1>4, <1>5, <1>6, <1>8, <1>9 DEF SessionShape
<1>11. StillTrue(snapshot)
  BY <1>4, <1>5 DEF StillTrue
<1>. QED BY <1>1, <1>7, <1>10, <1>11 DEF SessionInv, Own

(***************************************************************************)
(* What the invariant gives.                                                *)
(***************************************************************************)
LEMMA SessionInvTypes == SessionInv => SessionTypeOK
<1>. SUFFICES ASSUME SessionInv PROVE SessionTypeOK
  OBVIOUS
<1>1. SessionShape /\ MaxId \in Nat
  BY MaxIdAssumption DEF SessionInv
<1>2. /\ nextId \in Ids \cup {0} /\ spawned \subseteq Ids
  BY <1>1 DEF SessionShape, Ids
<1>3. PICK S \in SUBSET Ids : agents \in [S -> [status : WireStatus, interactive : BOOLEAN]]
  BY <1>1 DEF SessionShape, Registries
<1>4. PICK T \in SUBSET Ids : snapshot \in [T -> [status : WireStatus, interactive : BOOLEAN]]
  BY <1>1 DEF SessionShape, Registries
<1>5. /\ DOMAIN agents \subseteq Ids /\ DOMAIN snapshot \subseteq Ids
      /\ \A i \in DOMAIN agents : agents[i] \in [status : WireStatus, interactive : BOOLEAN]
  BY <1>3, <1>4
<1>6. \A c \in Calls : call[c].answer \in Answers
  BY <1>1 DEF SessionShape
<1>. QED BY <1>1, <1>2, <1>5, <1>6 DEF SessionTypeOK, SessionShape, Answers

(* StrangersChangeNothing, from KeptOut.                                     *)
LEMMA SessionInvStrangers == SessionInv => StrangersChangeNothing
<1>. SUFFICES ASSUME SessionInv, Stranger, NEW c \in Calls
              PROVE  served[c] = <<>> /\ (Over(c) => StatusOf(call[c].answer) >= 404)
  BY DEF StrangersChangeNothing, Stranger
<1>1. served[c] = <<>> /\ (Over(c) => call[c].answer # "ok")
  BY DEF SessionInv, KeptOut
<1>2. call[c].answer \in Answers
  BY DEF SessionInv, SessionShape
<1>3. ASSUME NEW a \in Answers, a # "ok", a # Pending PROVE StatusOf(a) >= 404
  BY <1>3 DEF Answers, StatusOf, Pending
<1>. QED BY <1>1, <1>2, <1>3 DEF Over, Open

(* AnswersHonestly, from Honest and LastChange.                              *)
LEMMA SessionInvHonest == SessionInv => AnswersHonestly
<1>. SUFFICES ASSUME SessionInv, NEW c \in Calls, Over(c)
              PROVE  /\ call[c].answer = "ok" =>
                          LET last == Program(call[c].op)[Len(Program(call[c].op))]
                          IN  IF last \in Requests THEN Did(c, last)
                              ELSE <<last, call[c].on, c>> \in inbox
                     /\ StatusOf(call[c].answer) \in {404, 409} =>
                          \A req \in Mutations : ~ Did(c, req)
  BY DEF AnswersHonestly
<1>1. call[c].answer \in Answers /\ call[c].op \in Operations /\ ~ Open(c)
  BY DEF SessionInv, SessionShape, Over
<1>2. call[c].answer = "ok" =>
         LET last == Program(call[c].op)[Len(Program(call[c].op))]
         IN  IF last \in Requests THEN Did(c, last) ELSE <<last, call[c].on, c>> \in inbox
  BY <1>1, ProgramEnds DEF SessionInv, Honest
<1>3. ASSUME StatusOf(call[c].answer) \in {404, 409}, NEW req \in Mutations, Did(c, req)
      PROVE  FALSE
  <2>1. call[c].answer \notin {"not_found", "invalid_state"}
    BY <1>1, <1>3 DEF SessionInv, LastChange
  <2>2. ASSUME NEW a \in Answers, a # Pending, a \notin {"not_found", "invalid_state"}
        PROVE  StatusOf(a) \notin {404, 409}
    BY <2>2 DEF Answers, StatusOf, Pending
  <2>. QED BY <1>1, <1>3, <2>1, <2>2 DEF Open
<1>. QED BY <1>2, <1>3

(* DrainStops, from Honest and StopsIt.                                      *)
LEMMA SessionInvDrain == SessionInv => DrainStops
<1>. SUFFICES ASSUME SessionInv, NEW c \in Calls, call[c].op = "drain", call[c].answer = "ok"
              PROVE  \/ call[c].on \notin DOMAIN agents
                     \/ agents[call[c].on].status \in WireEnded
  BY DEF DrainStops
<1>1. Over(c) /\ LastStep("drain") = "kill" /\ "kill" \in Requests
  BY DEF Over, Open, Pending, LastStep, Requests
<1>2. Did(c, "kill")
  BY <1>1 DEF SessionInv, Honest
<1>. QED BY <1>2 DEF SessionInv, StopsIt, Stopped, Ended

(* The other properties, from NotYet and StillTrue.                          *)
LEMMA SessionInvRest ==
    SessionInv => CarriedOutOnce /\ InputOnlyToTalkers /\ EndsAgree /\ DomainTotal
<1>. SUFFICES ASSUME SessionInv
              PROVE  CarriedOutOnce /\ InputOnlyToTalkers /\ EndsAgree /\ DomainTotal
  OBVIOUS
<1>1. CarriedOutOnce
  BY DEF SessionInv, NotYet, CarriedOutOnce
<1>2. InputOnlyToTalkers
  BY DEF SessionInv, Talks, InputOnlyToTalkers
<1>3. DomainEnded \subseteq WireEnded
  BY DEF DomainEnded, WireEnded
<1>4. EndsAgree
  BY <1>3 DEF SessionInv, StillTrue, Ended, EndsAgree
<1>5. DomainTotal
  <2>1. snapshot \in Registries /\ \A i \in DOMAIN snapshot : snapshot[i].status # "drained"
    BY DEF SessionInv, SessionShape
  <2>2. PICK T \in SUBSET Ids : snapshot \in [T -> [status : WireStatus, interactive : BOOLEAN]]
    BY <2>1 DEF Registries
  <2>. QED BY <2>1, <2>2 DEF DomainTotal
<1>. QED BY <1>1, <1>2, <1>4, <1>5

(* Every step keeps the invariant.                                           *)
LEMMA SessionStep == SessionInv /\ [SessionNext]_sessionVars => SessionInv'
<1>. SUFFICES ASSUME SessionInv, [SessionNext]_sessionVars PROVE SessionInv'
  OBVIOUS
<1>1. ASSUME NEW c \in Calls, CallStep(c) \/ Serve(c) \/ Resets(c) \/ Lost(c) \/ PollAgain(c)
      PROVE  SessionInv'
  <2>1. Kept(c)
    BY <1>1, FindStep, GateStep, LingerStep, DialStep, SendStep, ReadReplyStep, ReadEofStep,
       ServeStep, ResetsStep, LostStep, PollAgainStep DEF CallStep
  <2>. QED BY <2>1, KeptIsEnough
<1>2. CASE AgentMoves
  BY <1>2, AgentMovesStep
<1>3. CASE UNCHANGED sessionVars
  <2>1. \A c \in Calls : Own(c)' = Own(c)
    BY <1>3 DEF sessionVars, Own, OnItsWay, NotYet, LastChange, Honest, StopsIt, Addresses,
       KeptOut, Open, Doing, Over, Dialed, Did, Written, Replied, StillTrue, Talks, Stopped,
       Stranger, Tcp, HasToken, Ended
  <2>2. SessionShape' /\ StillTrue(snapshot)' /\ \A f \in inbox' : Talks(f[2])'
    BY <1>3 DEF sessionVars, SessionInv, SessionShape, StillTrue, Talks, Ended
  <2>. QED BY <2>1, <2>2 DEF SessionInv, Own
<1>. QED BY <1>1, <1>2, <1>3 DEF SessionNext

(* What holds of every deployment of the client and of a caliband, whatever is *)
(* lost between them: a stranger changes nothing, a request is carried out at *)
(* most once, answers are honest, a drain that answers ok leaves no agent     *)
(* running, frames go to agents that hold a conversation, and the ends        *)
(* prospero knows of are ends (CalibandClient, transport, FleetManager).      *)
THEOREM SessionSoundHolds == SessionSpec => []SessionSound
<1>1. SessionInv => SessionSound
  BY SessionInvTypes, SessionInvStrangers, SessionInvHonest, SessionInvDrain, SessionInvRest
  DEF SessionSound
<1>. QED BY <1>1, SessionBegins, SessionStep, PTL DEF SessionSpec

=============================================================================
