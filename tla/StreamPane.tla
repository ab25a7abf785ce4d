----------------------------- MODULE StreamPane -----------------------------
(***************************************************************************)
(* The pane that follows one agent (crates/dashboard/src/stream.rs, sse.rs, *)
(* timeline.rs, and StreamPane in ui.rs): a session that resumes after the  *)
(* last event it has shown, the connection under it, and the grouping of    *)
(* what arrived into a timeline. The agent's log is a script of event kinds, *)
(* numbered from 1; the server sends it from the position asked for and     *)
(* closes after the terminal event (module AgentStream).                    *)
(***************************************************************************)
EXTENDS Naturals, Sequences, FiniteSets, Functions

CONSTANTS
    Scripts,    \* runs: a log (sequence of [kind, tool]) and the positions whose
                \* frame the page cannot decode
    MaxDrops,   \* connections lost
    MaxGaps     \* lag signals sent

ASSUME PaneAssumption == MaxDrops \in Nat /\ MaxGaps \in Nat

Those(log, kind) == {n \in 1..Len(log) : log[n].kind = kind}

(* caliban names every tool call, no two alike, and a finish names a call     *)
(* that was made and that no other finish names ...                         *)
Named(log) ==
    /\ \A n \in Those(log, "tool") \cup Those(log, "end") : log[n].tool # ""
    /\ \A m, n \in Those(log, "tool") : log[m].tool = log[n].tool => m = n
    /\ \A m, n \in Those(log, "end") : log[m].tool = log[n].tool => m = n
    /\ \A n \in Those(log, "end") : \E m \in Those(log, "tool") :
          m < n /\ log[m].tool = log[n].tool

(* ... but finishes recorded before #106 carry no id.                         *)
Nameless(log) == \A n \in Those(log, "end") : log[n].tool = ""

ASSUME ScriptsAssumption ==
    \A s \in Scripts :
        /\ s.log \in Seq([kind : STRING, tool : STRING]) /\ s.bad \subseteq 1..Len(s.log)
        /\ Named(s.log) \/ Nameless(s.log)

VARIABLES
    script,   \* the run followed
    emitted,  \* how much of it the agent has emitted
    conn,     \* the EventSource: open, the next event the server sends, and
              \* the two subscriptions' queues
    pane,     \* StreamSession: entries, last_seq, state
    faults    \* drops and gaps so far

paneVars == <<script, emitted, conn, pane, faults>>

(* An entry: an event with its position, or a notice. *)
Event(n) == [n |-> n, kind |-> script.log[n].kind, tool |-> script.log[n].tool]
Gap == [n |-> 0, kind |-> "gap", tool |-> ""]
Undecodable == [n |-> 0, kind |-> "undecodable", tool |-> ""]

Closed == [open |-> FALSE, next |-> 0, events |-> <<>>, gaps |-> 0]

PaneInit ==
    /\ script \in Scripts
    /\ emitted = 0 /\ conn = Closed
    /\ pane = [entries |-> <<>>, last |-> 0, state |-> "connecting"]
    /\ faults = [drops |-> 0, gaps |-> 0]

Ended(n) == script.log[n].kind = "finished"

(* Mutant: resume at the last event shown, and one further. *)
ResumeSkips == IF pane.last = 0 THEN 1 ELSE pane.last + 2

(* resume_from; the server's `from` is inclusive. *)
ResumeFrom == pane.last + 1

(* push: what was already shown is ignored. *)
Push(p, n) ==
    IF n <= p.last THEN p
    ELSE [entries |-> Append(p.entries, Event(n)), last |-> n,
          state |-> IF Ended(n) THEN "closed" ELSE "live"]

(* push_gap: noted, and the mark stays. *)
PushGap(p) == [p EXCEPT !.entries = Append(@, Gap)]

PushUndecodable(p) == [p EXCEPT !.entries = Append(@, Undecodable)]

(* disconnected: a finished run is finished. *)
Disconnected(p) == IF p.state = "closed" THEN p ELSE [p EXCEPT !.state = "reconnecting"]

(***************************************************************************)
(* The agent, the server and the network.                                   *)
(***************************************************************************)
AgentEmits ==
    /\ emitted < Len(script.log)
    /\ emitted' = emitted + 1
    /\ UNCHANGED <<script, conn, pane, faults>>

(* The server's next event, queued in the browser. *)
ServerSends ==
    /\ conn.open /\ conn.next <= emitted
    /\ conn.next > 1 => ~ Ended(conn.next - 1)
    /\ conn' = [conn EXCEPT !.next = @ + 1, !.events = Append(@, conn.next)]
    /\ UNCHANGED <<script, emitted, pane, faults>>

(* The subscriber lagged: a gap frame, then the replay goes on from where    *)
(* the stream was.                                                           *)
ServerLags ==
    /\ conn.open /\ faults.gaps < MaxGaps /\ conn.next <= emitted
    /\ conn' = [conn EXCEPT !.gaps = @ + 1]
    /\ faults' = [faults EXCEPT !.gaps = @ + 1]
    /\ UNCHANGED <<script, emitted, pane>>

(***************************************************************************)
(* follow, and the loop of StreamPane around it.                            *)
(***************************************************************************)
(* should_retry. *)
ShouldRetry(state) == state # "closed"

(* EventSource::new with from, after the backoff. *)
Connect ==
    /\ ~ conn.open /\ ShouldRetry(pane.state)
    /\ conn' = [open |-> TRUE, next |-> ResumeFrom, events |-> <<>>, gaps |-> 0]
    /\ UNCHANGED <<script, emitted, pane, faults>>

(* A message of the event subscription, parsed or not. *)
MessageArrives ==
    /\ conn.open /\ conn.events # <<>>
    /\ LET n == Head(conn.events)
       IN  pane' = IF n \in script.bad THEN PushUndecodable(pane) ELSE Push(pane, n)
    /\ conn' = [conn EXCEPT !.events = Tail(@)]
    /\ UNCHANGED <<script, emitted, faults>>

(* One of the gap subscription; `select` takes from either. *)
GapArrives ==
    /\ conn.open /\ conn.gaps > 0
    /\ pane' = PushGap(pane)
    /\ conn' = [conn EXCEPT !.gaps = @ - 1]
    /\ UNCHANGED <<script, emitted, faults>>

(* The server closes after the terminal event: the source ends once what it  *)
(* sent is read.                                                             *)
ServerCloses ==
    /\ conn.open /\ conn.events = <<>> /\ conn.gaps = 0
    /\ conn.next > 1 /\ Ended(conn.next - 1)
    /\ conn' = Closed
    /\ pane' = Disconnected(pane)
    /\ UNCHANGED <<script, emitted, faults>>

(* The connection is lost, with what was queued on it. *)
ConnectionLost ==
    /\ conn.open /\ faults.drops < MaxDrops
    /\ conn' = Closed
    /\ pane' = Disconnected(pane)
    /\ faults' = [faults EXCEPT !.drops = @ + 1]
    /\ UNCHANGED <<script, emitted>>

PaneNext ==
    \/ AgentEmits \/ ServerSends \/ ServerLags
    \/ Connect \/ MessageArrives \/ GapArrives \/ ServerCloses \/ ConnectionLost

(* The agent runs to its end, the server sends what it has, the page takes  *)
(* what arrives and reconnects.                                             *)
PaneFairness ==
    /\ WF_paneVars(AgentEmits) /\ WF_paneVars(ServerSends) /\ WF_paneVars(Connect)
    /\ WF_paneVars(MessageArrives) /\ WF_paneVars(GapArrives) /\ WF_paneVars(ServerCloses)

(***************************************************************************)
(* The timeline: `group` over the entries. A segment holds the entries it    *)
(* is made of and the event it began with; a tool segment the id of its      *)
(* call, and the finish paired with it (0 while it runs). `out` and `think`  *)
(* are the open text blocks and `calls` the open calls.                     *)
(***************************************************************************)
Segment(entry, i) ==
    [kind |-> entry.kind, of |-> <<i>>, n |-> entry.n, tool |-> entry.tool, finish |-> 0]
Nowhere == [segs |-> <<>>, out |-> 0, think |-> 0, calls |-> {}]

Opens(g, segment) ==
    [segs |-> Append(g.segs, segment), out |-> 0, think |-> 0,
     calls |-> IF segment.kind = "tool" THEN g.calls \cup {Len(g.segs) + 1} ELSE g.calls]

(* A chunk of text or of thinking: to its open block, closing the other. *)
Chunk(g, entry, i) ==
    LET block == IF entry.kind = "out" THEN g.out ELSE g.think
        at == IF block = 0 THEN Len(g.segs) + 1 ELSE block
        segs == IF block = 0 THEN Append(g.segs, Segment(entry, i))
                ELSE [g.segs EXCEPT ![block].of = Append(@, i)]
    IN  [g EXCEPT !.segs = segs, !.out = IF entry.kind = "out" THEN at ELSE 0,
                  !.think = IF entry.kind = "think" THEN at ELSE 0]

Oldest(calls) == CHOOSE i \in calls : \A j \in calls : i <= j

(* Mutant: a finish goes to the oldest open call, whatever its id. *)
PairOldest(g, entry) == IF g.calls = {} THEN 0 ELSE Oldest(g.calls)

(* The open call a finish is paired with: the one of its id, else the oldest. *)
Paired(g, entry) ==
    LET own == {i \in g.calls : entry.tool # "" /\ g.segs[i].tool = entry.tool}
    IN  IF own # {} THEN Oldest(own) ELSE IF g.calls = {} THEN 0 ELSE Oldest(g.calls)

(* A finish pairs into a segment and never opens one. *)
Finish(g, entry) ==
    LET i == Paired(g, entry)
    IN  IF i = 0 THEN g
        ELSE [g EXCEPT !.segs[i].finish = entry.n, !.calls = @ \ {i}]

GroupEntry(g, entry, i) ==
    IF entry.kind \in {"out", "think"} THEN Chunk(g, entry, i)
    ELSE IF entry.kind = "end" THEN Finish(g, entry)
    ELSE Opens(g, Segment(entry, i))

Group(entries) ==
    LET grouped[i \in 0..Len(entries)] ==
            IF i = 0 THEN Nowhere ELSE GroupEntry(grouped[i - 1], entries[i], i)
    IN  grouped[Len(entries)]

(***************************************************************************)
(* Properties.                                                              *)
(***************************************************************************)
(* The state of the pane has its type. *)
PaneTypeOK ==
    /\ emitted \in 0..Len(script.log)
    /\ pane.state \in {"connecting", "live", "reconnecting", "closed"}
    /\ pane.last \in 0..emitted
    /\ conn.next \in 0..(Len(script.log) + 1) /\ conn.gaps \in 0..MaxGaps

(* The events on screen. *)
ShownOf(entries) ==
    LET shown[i \in 0..Len(entries)] ==
            IF i = 0 THEN <<>>
            ELSE IF entries[i].n = 0 THEN shown[i - 1] ELSE Append(shown[i - 1], entries[i].n)
    IN  shown[Len(entries)]

(* The pane implements the transcript: across lost connections, queued       *)
(* frames, lag signals and frames it cannot read, it shows every readable    *)
(* event once and in order, and in the end all of them.                      *)
Reader == INSTANCE Transcript WITH
              run <- [length |-> Len(script.log), unreadable |-> script.bad],
              shown <- ShownOf(pane.entries)
FollowsTranscript == Reader!Telling

(* A run that has finished stays finished: no close, drop or late frame puts *)
(* the pane back into reconnecting.                                          *)
FinishedIsFinal == [][pane.state = "closed" => pane'.state = "closed"]_paneVars

(* Grouping moves no text: read from top to bottom, the segments give every  *)
(* entry that is no finish, in the order they came.                         *)
TimelineInOrder ==
    LET segs == Group(pane.entries).segs
    IN  /\ \A i \in 1..Len(segs) : \A a, b \in 1..Len(segs[i].of) :
              a < b => segs[i].of[a] < segs[i].of[b]
        /\ \A i, k \in 1..Len(segs) : i < k =>
              \A x \in Range(segs[i].of) : \A y \in Range(segs[k].of) : x < y
        /\ UNION {Range(segs[i].of) : i \in 1..Len(segs)}
              = {j \in 1..Len(pane.entries) : pane.entries[j].kind # "end"}

(* When every frame could be read, a tool call is shown finished by its own  *)
(* finish and no other, as soon as that is on screen.                       *)
ToolsOwnFinish ==
    script.bad = {} =>
        LET segs == Group(pane.entries).segs
        IN  \A i \in {k \in 1..Len(segs) : segs[k].kind = "tool"} :
                /\ segs[i].finish # 0 =>
                      script.log[segs[i].finish].tool \in {segs[i].tool, ""}
                /\ \A n \in Those(script.log, "end") :
                      n <= pane.last /\ script.log[n].tool # "" /\ script.log[n].tool = segs[i].tool
                        => segs[i].finish = n

(* What the pane holds is drawn without moving text or closing a call by     *)
(* another's finish (timeline.rs group).                                     *)
PaneSound == PaneTypeOK /\ TimelineInOrder /\ ToolsOwnFinish

(* What the pane receives implements the transcript, and the end of the run  *)
(* is the end of the pane's connections (sse.rs follow, apply).              *)
PaneFollows == FollowsTranscript /\ FinishedIsFinal

==============================================================================
