---------------------------- MODULE AgentStream ----------------------------
(***************************************************************************)
(* GET /api/agents/{id}/stream on a standalone daemon: the Emitter writes   *)
(* the store and the InProcessBus (crates/core/src/bus.rs, a bounded        *)
(* broadcast channel), and each SSE subscriber replays history and then     *)
(* tails the bus (crates/api/src/sse.rs, sse/tail.rs).                      *)
(***************************************************************************)
EXTENDS Emitter, Tailer

CONSTANTS
    Subs,           \* SSE connections
    SubHome,        \* SubHome[s]: the replica s is connected to
    From,           \* From[s]: the `?from=` of the request
    Capacity,       \* FleetConfig::event_buffer: slots of the broadcast channel
    MaxReplayFaults \* bound: store errors of replay

ASSUME SubHomeAssumption == SubHome \in [Subs -> Replicas]
ASSUME FromAssumption == From \in [Subs -> Nat]
ASSUME CapacityAssumption == Capacity \in Nat \ {0}
ASSUME ReplayFaultsAssumption == MaxReplayFaults \in Nat

VARIABLES
    phase,      \* phase[s]: where the connection is
    pos,        \* pos[s]: what its broadcast receiver has consumed of the bus
    tail,       \* tail[s]: the Tailer's state and what the client was sent
    blind,      \* history variable: the connections a store read failed for
    replayFaults

subVars == <<phase, pos, tail, blind, replayFaults>>
streamVars == <<vars, subVars>>

Phases == {"off", "subscribed", "tailing", "lagged", "closed"}

NoTail == [last |-> 0, out |-> <<>>, gap |-> FALSE, open |-> FALSE]

(* InProcessBus has one ring for all streams of a replica. Here it holds the *)
(* events of this stream: those of others only bring the lag about sooner,   *)
(* and a lag is possible here for every receiver that is a ring behind.      *)
Channel(s) == bus[SubHome[s]]

StreamInit ==
    /\ Init
    /\ phase = [s \in Subs |-> "off"]
    /\ pos = [s \in Subs |-> 0]
    /\ tail = [s \in Subs |-> NoTail]
    /\ blind = {}
    /\ replayFaults \in 0..MaxReplayFaults

(* The receiver is registered eagerly, before history is read. *)
Subscribe(s) ==
    /\ phase[s] = "off"
    /\ phase' = [phase EXCEPT ![s] = "subscribed"]
    /\ pos' = [pos EXCEPT ![s] = Len(Channel(s))]
    /\ UNCHANGED <<vars, tail, blind, replayFaults>>

(* Adopt tail tl; the connection closes once the terminal event was sent. *)
Continue(s, tl) ==
    /\ tail' = [tail EXCEPT ![s] = tl]
    /\ phase' = [phase EXCEPT ![s] = IF tl.open THEN "tailing" ELSE "closed"]

(* Mutant: the first live event is awaited before history is read. *)
ReadHistoryAfterEvent(s) ==
    /\ phase[s] = "subscribed"
    /\ pos[s] < Len(Channel(s))
    /\ Continue(s, Opened(Replay(log, From[s]), From[s]))
    /\ UNCHANGED <<vars, pos, blind, replayFaults>>

ReadHistory(s) ==
    /\ phase[s] = "subscribed"
    /\ Continue(s, Opened(Replay(log, From[s]), From[s]))
    /\ UNCHANGED <<vars, pos, blind, replayFaults>>

(* replay(..).await.unwrap_or_default(): a store error reads as no history. *)
ReadHistoryFails(s) ==
    /\ phase[s] = "subscribed"
    /\ replayFaults < MaxReplayFaults
    /\ replayFaults' = replayFaults + 1
    /\ blind' = blind \cup {s}
    /\ Continue(s, Opened(<<>>, From[s]))
    /\ UNCHANGED <<vars, pos>>

Lagging(s) == Len(Channel(s)) - pos[s] > Capacity

(* recv: the next buffered event, through the Tailer's dedup. *)
Recv(s) ==
    /\ phase[s] = "tailing"
    /\ pos[s] < Len(Channel(s))
    /\ ~ Lagging(s)
    /\ pos' = [pos EXCEPT ![s] = @ + 1]
    /\ Continue(s, OnEvent(tail[s], Channel(s)[pos[s] + 1]))
    /\ UNCHANGED <<vars, blind, replayFaults>>

(* recv: the channel overwrote events; the receiver moves to the oldest kept. *)
RecvLagged(s) ==
    /\ phase[s] = "tailing"
    /\ Lagging(s)
    /\ pos' = [pos EXCEPT ![s] = Len(Channel(s)) - Capacity]
    /\ phase' = [phase EXCEPT ![s] = "lagged"]
    /\ UNCHANGED <<vars, tail, blind, replayFaults>>

(* The rest of on_recv(Lagged), after the store read it awaits. *)
Heal(s) ==
    /\ phase[s] = "lagged"
    /\ Continue(s, OnLagged(tail[s], Replay(log, tail[s].last + 1)))
    /\ UNCHANGED <<vars, pos, blind, replayFaults>>

HealFails(s) ==
    /\ phase[s] = "lagged"
    /\ replayFaults < MaxReplayFaults
    /\ replayFaults' = replayFaults + 1
    /\ blind' = blind \cup {s}
    /\ Continue(s, OnLagged(tail[s], <<>>))
    /\ UNCHANGED <<vars, pos>>

(* A crash also cuts the connections of the replica; clients start over. *)
CrashCuts(r) ==
    /\ Crash(r)
    /\ phase' = [s \in Subs |-> IF SubHome[s] = r THEN "off" ELSE phase[s]]
    /\ pos' = [s \in Subs |-> IF SubHome[s] = r THEN 0 ELSE pos[s]]
    /\ tail' = [s \in Subs |-> IF SubHome[s] = r THEN NoTail ELSE tail[s]]
    /\ blind' = {s \in blind : SubHome[s] # r}
    /\ UNCHANGED replayFaults

SubStep(s) ==
    \/ ReadHistory(s) \/ ReadHistoryFails(s)
    \/ Recv(s) \/ RecvLagged(s)
    \/ Heal(s) \/ HealFails(s)

StreamNext ==
    \/ \E t \in Tasks : (Emit(t) \/ Step(t)) /\ UNCHANGED subVars
    \/ \E s \in Subs : Subscribe(s) \/ SubStep(s)
    \/ \E r \in Replicas : CrashCuts(r)
    \/ Prune /\ UNCHANGED subVars

(* The runtime polls tasks and connections; the client keeps reading. *)
StreamFairness ==
    /\ \A t \in Tasks : WF_streamVars(Step(t) /\ UNCHANGED subVars)
    /\ \A s \in Subs : WF_streamVars(SubStep(s))

StreamSpec == StreamInit /\ [][StreamNext]_streamVars /\ StreamFairness
----------------------------------------------------------------------------
Out(s) == tail[s].out

StreamTypeOK ==
    /\ phase \in [Subs -> Phases]
    /\ \A s \in Subs : pos[s] \in 0..Len(Channel(s))
    /\ \A s \in Subs :
          /\ tail[s].last \in Nat /\ tail[s].out \in Seq(Event)
          /\ tail[s].gap \in BOOLEAN /\ tail[s].open \in BOOLEAN
    /\ blind \subseteq Subs
    /\ replayFaults \in 0..MaxReplayFaults

(***************************************************************************)
(* "No dup": what one connection is sent has strictly increasing seqs, from *)
(* the client's floor up, across the history/live join and every self-heal. *)
(***************************************************************************)
NoDuplicate ==
    \A s \in Subs :
        /\ \A i, j \in 1..Len(Out(s)) : i < j => Out(s)[i].seq < Out(s)[j].seq
        /\ \A i \in 1..Len(Out(s)) : Out(s)[i].seq >= From[s]

(***************************************************************************)
(* "No gap": a connection that has consumed all of its channel was sent      *)
(* every durable event of the stream that has been published, from its      *)
(* floor up to the terminal event, even after the channel overwrote some.   *)
(***************************************************************************)
NoGap ==
    \A s \in Subs :
        phase[s] = "tailing" /\ pos[s] = Len(Channel(s)) =>
            \A e \in log \cap Range(Channel(s)) :
                e.seq >= From[s] => e \in Range(Out(s))

(* One task alone has written the stream. *)
OneWriter == \A t, u \in Tasks : emitted[t] > 0 /\ emitted[u] > 0 => t = u

(***************************************************************************)
(* With one writer "no gap" holds, whatever the store and the channel lose: *)
(* failed appends, retention, lag and restarts leave no hole in what the    *)
(* client was sent. Two things do. A connection is blind when the store     *)
(* failed to answer its read of history or of a self-heal: it takes the     *)
(* error for an empty answer. And high_water is the highest seq of the      *)
(* rows that are left, so after retention took them all and the daemon      *)
(* restarted the stream counts from 1 again, and the events up to the seq   *)
(* retention reached are below the mark of a client that saw the old ones.  *)
(* A failed high_water read starts anew likewise.                           *)
(***************************************************************************)
NoGapOneWriter ==
    readFaults = 0 =>
        \A s \in Subs :
            (/\ OneWriter /\ s \notin blind
             /\ phase[s] = "tailing" /\ pos[s] = Len(Channel(s))) =>
                \A e \in log \cap Range(Channel(s)) :
                    e.seq >= From[s] /\ e.seq > prunedTo => e \in Range(Out(s))

(***************************************************************************)
(* Nothing is sent after the terminal AgentFinished event.                  *)
(***************************************************************************)
ClosesAtTerminal ==
    \A s \in Subs : \A i \in 1..Len(Out(s)) :
        IsTerminal(Out(s)[i]) => i = Len(Out(s)) /\ phase[s] = "closed"

(* The terminal event of the stream is durable and asked for by s. *)
Ended(s) == phase[s] # "off" /\ \E e \in log : IsTerminal(e) /\ e.seq >= From[s]

(***************************************************************************)
(* "The stream closes right after the agent's terminal AgentFinished event  *)
(* ... (rather than hanging forever)" (sse.rs), whatever it lagged behind.  *)
(* The promise is of every connection, and the code breaks it for those     *)
(* whose read of the history or heal failed, which are excused here: a      *)
(* failed read is taken for an empty one (`unwrap_or_default`), and a blind *)
(* connection to an agent that has finished waits for an event that nobody  *)
(* will publish. Nor does a stream close by its terminal event when the     *)
(* replica dies, when retention takes the event, or when a second task      *)
(* writes the stream (NoGap).                                               *)
(***************************************************************************)
StreamCloses ==
    \A s \in Subs :
        Ended(s) ~> (\/ phase[s] \in {"closed", "off"} \/ s \in blind
                    \/ ~ OneWriter \/ prunedTo > 0)

(* What one connection is sent: ascending, from its floor up, ending with    *)
(* the terminal event (Tailer, agent_stream).                                *)
StreamSound == StreamTypeOK /\ NoDuplicate /\ ClosesAtTerminal

============================================================================
