----------------------------- MODULE AttachLoop -----------------------------
(***************************************************************************)
(* attach_loop and attach_once (crates/core/src/fleet.rs): one task reads   *)
(* an agent's NDJSON stream from caliband, emits an event per frame, and    *)
(* reconnects with a bounded budget when the connection drops. caliband     *)
(* replays the stream from its start on every connection, so the task skips *)
(* the `frames_seen` lines it has already processed.                        *)
(*                                                                          *)
(* A frame is known by its position in the agent's stream. Blank lines are  *)
(* not counted by the code and are left out.                                *)
(***************************************************************************)
EXTENDS Integers, Sequences, FiniteSets

CONSTANTS
    Frames,         \* what normalize_frame makes of each frame of the run
    MaxRetries,     \* AttachBackoff::max_retries
    MaxDrops,       \* bound: failed or dropped connections
    MaxTorn,        \* bound: connections that end in the middle of a line
    MaxShutdowns,   \* bound: begin_shutdown (0 or 1)
    MaxLateStarts   \* bound: tasks the poll cycle in flight at shutdown starts

(* An event, the terminal AgentFinished, or nothing (Dropped and Unknown). *)
FrameKinds == {"event", "finished", "quiet"}

ASSUME FramesAssumption == Frames \in Seq(FrameKinds)
ASSUME AttachBoundsAssumption ==
    /\ MaxRetries \in Nat /\ MaxDrops \in Nat /\ MaxTorn \in Nat /\ MaxShutdowns \in 0..1
    /\ MaxLateStarts \in Nat

VARIABLES
    written,        \* frames the agent has written so far
    status,         \* caliband's status of the agent: "live" or "terminal"
    stage,             \* the attach task: "off" when there is none
    frames_seen,    \* lines processed, over all connections of this task
    before,         \* frames_seen when this connection was opened
    idx,            \* lines read on this connection
    saw_terminal,   \* terminal frames emitted on this connection
    attempt,        \* consecutive reconnects without progress
    sent,            \* the frames emitted, in order
    base,           \* history variable: Len(sent) when this task started
    deaf,           \* 1: this task subscribed to shutdown after the signal
    lateStarts, drops, torn, shutdown

attachVars == <<written, status, stage, frames_seen, before, idx, saw_terminal, attempt,
                sent, base, deaf, lateStarts, drops, torn, shutdown>>

AttachInit ==
    /\ written = 0 /\ status = "live"
    /\ stage = "off"
    /\ frames_seen = 0 /\ before = 0 /\ idx = 0 /\ saw_terminal = 0 /\ attempt = 0
    /\ sent = <<>> /\ base = 0
    /\ deaf = 0 /\ lateStarts = 0 /\ drops = 0 /\ torn = 0 /\ shutdown = 0

(***************************************************************************)
(* The agent (external): it writes its frames, then caliband reports it as  *)
(* terminal.                                                                *)
(***************************************************************************)
AgentWrites ==
    /\ written < Len(Frames)
    /\ written' = written + 1
    /\ UNCHANGED <<status, stage, frames_seen, before, idx, saw_terminal, attempt, sent, base,
                   drops, torn, shutdown, deaf, lateStarts>>

AgentEnds ==
    /\ written = Len(Frames) /\ status = "live"
    /\ status' = "terminal"
    /\ UNCHANGED <<written, stage, frames_seen, before, idx, saw_terminal, attempt, sent, base,
                   drops, torn, shutdown, deaf, lateStarts>>

(* The poll loop starts a task for an agent that is not terminal and has    *)
(* none. The cycle in flight when shutdown is signalled is completed, and a *)
(* task it starts subscribes too late to be woken by the signal.            *)
StartAttach ==
    /\ stage = "off" /\ status = "live"
    /\ shutdown = 1 => lateStarts < MaxLateStarts
    /\ stage' = "connect"
    /\ frames_seen' = 0 /\ attempt' = 0
    /\ base' = Len(sent)
    /\ deaf' = shutdown /\ lateStarts' = lateStarts + shutdown
    /\ UNCHANGED <<written, status, before, idx, saw_terminal, sent, drops, torn, shutdown>>

(***************************************************************************)
(* attach_once.                                                             *)
(***************************************************************************)
Connect ==
    /\ stage = "connect"
    /\ stage' = "reading"
    /\ before' = frames_seen
    /\ idx' = 0 /\ saw_terminal' = 0
    /\ UNCHANGED <<written, status, frames_seen, attempt, sent, base, drops, torn, shutdown,
                   deaf, lateStarts>>

(* attach_loop once a connection has ended without Finished: drain on       *)
(* shutdown, reset the budget on progress, give up or back off.             *)
Reconnect(progress) ==
    LET tries == IF progress THEN 0 ELSE attempt
    IN  /\ attempt' = tries
        /\ stage' = IF shutdown = 1 \/ tries >= MaxRetries THEN "off" ELSE "backoff"

(* Resolving the endpoint or dialling it fails. *)
ConnectFails ==
    /\ stage = "connect"
    /\ drops < MaxDrops
    /\ drops' = drops + 1
    /\ Reconnect(FALSE)
    /\ UNCHANGED <<written, status, frames_seen, before, idx, saw_terminal, sent, base,
                   torn, shutdown, deaf, lateStarts>>

(* Mutant: the last line already processed is processed again. *)
ReadFrameAgain ==
    /\ stage = "reading"
    /\ idx < written
    /\ idx' = idx + 1
    /\ IF idx' < frames_seen
       THEN UNCHANGED <<frames_seen, sent, saw_terminal>>
       ELSE /\ frames_seen' = idx'
            /\ sent' = IF Frames[idx'] = "quiet" THEN sent ELSE Append(sent, idx')
            /\ saw_terminal' = IF Frames[idx'] = "finished" THEN saw_terminal + 1
                                                            ELSE saw_terminal
    /\ UNCHANGED <<written, status, stage, before, attempt, base, drops, torn, shutdown,
                   deaf, lateStarts>>

(* A whole line: skip the prefix already processed, else emit its event. *)
ReadFrame ==
    /\ stage = "reading"
    /\ idx < written
    /\ idx' = idx + 1
    /\ IF idx' <= frames_seen
       THEN UNCHANGED <<frames_seen, sent, saw_terminal>>
       ELSE /\ frames_seen' = idx'
            /\ sent' = IF Frames[idx'] = "quiet" THEN sent ELSE Append(sent, idx')
            /\ saw_terminal' = IF Frames[idx'] = "finished" THEN saw_terminal + 1
                                                            ELSE saw_terminal
    /\ UNCHANGED <<written, status, stage, before, attempt, base, drops, torn, shutdown, deaf,
                   lateStarts>>

(* The peer goes away in the middle of a line: read_line returns the part   *)
(* there is, which counts as a line and does not parse. EOF is next.        *)
ReadTornFrame ==
    /\ stage = "reading"
    /\ idx < Len(Frames) /\ idx <= written
    /\ torn < MaxTorn
    /\ torn' = torn + 1
    /\ idx' = idx + 1
    /\ frames_seen' = IF idx' <= frames_seen THEN frames_seen ELSE idx'
    /\ stage' = "eof"
    /\ UNCHANGED <<written, status, before, saw_terminal, attempt, sent, base, drops, shutdown,
                   deaf, lateStarts>>

(* Mutant: every EOF is the end of the run. *)
EndOfStreamIsFinished == stage' = "off" /\ UNCHANGED attempt

(* EOF: Finished after the terminal frame, else a premature drop. *)
EndOfStream ==
    IF saw_terminal > 0 THEN stage' = "off" /\ UNCHANGED attempt
                        ELSE Reconnect(frames_seen > before)

(* The agent has exited and its whole stream was read, or the rest of a torn line. *)
Eof ==
    /\ \/ stage = "eof"
       \/ stage = "reading" /\ status = "terminal" /\ idx = Len(Frames)
    /\ EndOfStream
    /\ UNCHANGED <<written, status, frames_seen, before, idx, saw_terminal, sent, base,
                   drops, torn, shutdown, deaf, lateStarts>>

(* The connection is closed early. *)
PrematureEof ==
    /\ stage = "reading"
    /\ drops < MaxDrops
    /\ drops' = drops + 1
    /\ EndOfStream
    /\ UNCHANGED <<written, status, frames_seen, before, idx, saw_terminal, sent, base,
                   torn, shutdown, deaf, lateStarts>>

(* read_line fails: an error, whether or not the terminal frame was seen. *)
ReadError ==
    /\ stage = "reading"
    /\ drops < MaxDrops
    /\ drops' = drops + 1
    /\ Reconnect(frames_seen > before)
    /\ UNCHANGED <<written, status, frames_seen, before, idx, saw_terminal, sent, base,
                   torn, shutdown, deaf, lateStarts>>

Backoff ==
    /\ stage = "backoff"
    /\ attempt' = attempt + 1
    /\ stage' = "connect"
    /\ UNCHANGED <<written, status, frames_seen, before, idx, saw_terminal, sent, base,
                   drops, torn, shutdown, deaf, lateStarts>>

(* begin_shutdown: a task that is reading or backing off stops between frames. *)
BeginShutdown ==
    /\ shutdown < MaxShutdowns
    /\ shutdown' = 1
    /\ UNCHANGED <<written, status, stage, frames_seen, before, idx, saw_terminal, attempt,
                   sent, base, drops, torn, deaf, lateStarts>>

ShutdownSeen ==
    /\ shutdown = 1 /\ deaf = 0
    /\ stage \in {"reading", "eof", "backoff"}
    /\ stage' = "off"
    /\ UNCHANGED <<written, status, frames_seen, before, idx, saw_terminal, attempt,
                   sent, base, drops, torn, shutdown, deaf, lateStarts>>

Task ==
    \/ Connect \/ ConnectFails
    \/ ReadFrame \/ ReadTornFrame \/ Eof \/ PrematureEof \/ ReadError
    \/ Backoff \/ ShutdownSeen

AttachNext == AgentWrites \/ AgentEnds \/ StartAttach \/ Task \/ BeginShutdown

(***************************************************************************)
(* The poll loop polls and the task is scheduled. The agent owes nothing:   *)
(* it may stay idle for ever.                                               *)
(***************************************************************************)
AttachFairness == WF_attachVars(StartAttach) /\ WF_attachVars(Task)

AttachSpec == AttachInit /\ [][AttachNext]_attachVars /\ AttachFairness
----------------------------------------------------------------------------
(***************************************************************************)
(* Types.                                                                   *)
(***************************************************************************)
AttachTypeOK ==
    /\ written \in 0..Len(Frames) /\ status \in {"live", "terminal"}
    /\ stage \in {"off", "connect", "reading", "eof", "backoff"}
    /\ frames_seen \in 0..Len(Frames) /\ before \in 0..Len(Frames)
    /\ idx \in 0..Len(Frames) /\ saw_terminal \in Nat
    /\ attempt \in 0..MaxRetries
    /\ sent \in Seq(1..Len(Frames)) /\ base \in 0..Len(sent)
    /\ drops \in 0..MaxDrops /\ torn \in 0..MaxTorn /\ shutdown \in 0..1
    /\ deaf \in 0..1 /\ lateStarts \in 0..MaxLateStarts

(* What the current task, or the last one, has emitted. *)
Emitted == {sent[i] : i \in base + 1..Len(sent)}

(***************************************************************************)
(* Across all of its connections a task emits each frame once and in order, *)
(* and, unless a line was torn, has skipped none of the frames it counts:   *)
(* the frames_seen mark makes every reconnect resume exactly where the last *)
(* one stopped.                                                             *)
(***************************************************************************)
ResumesExactly ==
    /\ \A i, j \in base + 1..Len(sent) : i < j => sent[i] < sent[j]
    /\ torn = 0 => Emitted = {k \in 1..frames_seen : Frames[k] # "quiet"}

(***************************************************************************)
(* The outcome of a run that was being streamed is emitted, unless more     *)
(* connections fail than the retry budget allows, a line is torn or the     *)
(* daemon shuts down: the task is not given up before the terminal frame.   *)
(***************************************************************************)
OutcomeEmitted ==
    status = "terminal" /\ frames_seen > 0 =>
        \/ \E i \in 1..Len(sent) : Frames[sent[i]] = "finished"
        \/ drops > MaxRetries \/ torn > 0 \/ shutdown = 1

(***************************************************************************)
(* A task does not outlive its agent: it ends on the terminal frame or when *)
(* its budget is spent, also when the connection fails after that frame.    *)
(***************************************************************************)
TaskEnded == status = "terminal" => stage = "off"

(***************************************************************************)
(* After begin_shutdown a task stops reading, wherever its connection is    *)
(* and however idle its agent. One that the last poll cycle starts after    *)
(* the signal is not woken by it.                                           *)
(***************************************************************************)
ShutdownDrained == shutdown = 1 /\ deaf = 0 => stage = "off"

(* How a run ends for the task that streams it, once nothing moves. *)
AttachSettled == OutcomeEmitted /\ TaskEnded /\ ShutdownDrained

(***************************************************************************)
(* No frame is emitted twice: "transient socket failures don't lose or      *)
(* duplicate events" (attach_loop).                                         *)
(***************************************************************************)
EmittedOnce ==
    \A i, j \in 1..Len(sent) : sent[i] = sent[j] => i = j

(* A task's emissions over all its connections, with the state well typed   *)
(* and the reconnect counter within its budget (attach_loop).                *)
AttachSound == AttachTypeOK /\ ResumesExactly

============================================================================
