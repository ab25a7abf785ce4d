------------------------------- MODULE Tailer -------------------------------
(***************************************************************************)
(* The pure decisions of the per-agent SSE stream: the initial replay of    *)
(* agent_stream (crates/api/src/sse.rs) and the `Tailer` that follows it    *)
(* (crates/api/src/sse/tail.rs). A tail is a record: `last` is              *)
(* last_delivered, `out` the events forwarded to the client, `gap` whether  *)
(* a gap frame was sent, `open` whether the stream is still open.           *)
(***************************************************************************)
EXTENDS Integers, Sequences, FiniteSets, SequencesExt, FiniteSetsExt

IsTerminal(e) == e.kind = "finished"

(* Store::replay: the events at or above `from`, in seq order (by rank, seqs *)
(* being unique in a stream).                                                *)
Replay(events, from) ==
    LET S == {e \in events : e.seq >= from}
    IN  [i \in 1..Cardinality(S) |->
            CHOOSE e \in S : Cardinality({f \in S : f.seq < e.seq}) = i - 1]

(* The events forwarded from a replayed history: none past the terminal one. *)
UpToTerminal(evs) ==
    LET ends == {i \in 1..Len(evs) : IsTerminal(evs[i])}
    IN  IF ends = {} THEN evs ELSE SubSeq(evs, 1, Min(ends))

(* Forward `evs` and move the dedup mark to the last of them. *)
Forward(tl, evs) ==
    [last |-> IF evs = <<>> THEN tl.last ELSE Last(evs).seq,
     out |-> tl.out \o evs,
     gap |-> tl.gap,
     open |-> \A i \in 1..Len(evs) : ~ IsTerminal(evs[i])]

(* agent_stream's first phase: history from the client's floor. *)
Opened(history, from) ==
    Forward([last |-> IF from = 0 THEN 0 ELSE from - 1,
             out |-> <<>>, gap |-> FALSE, open |-> TRUE],
            UpToTerminal(history))

(* Mutant: the event at the mark is forwarded again. *)
OnEventAtMark(tl, e) ==
    IF e.seq >= tl.last THEN Forward(tl, <<e>>) ELSE tl

(* on_recv(Event): forward what is above the mark, skip the rest. *)
OnEvent(tl, e) ==
    IF e.seq > tl.last THEN Forward(tl, <<e>>) ELSE tl

(* Mutant: a gap frame and no self-heal. *)
OnLaggedNoHeal(tl, history) == [tl EXCEPT !.gap = TRUE]

(* on_recv(Lagged): a gap frame, then self-heal from `history`, the replay   *)
(* from tl.last + 1. It is ascending and above the mark, so the code's       *)
(* "defensive dedup" of it skips no event.                                   *)
OnLagged(tl, history) ==
    Forward([tl EXCEPT !.gap = TRUE], UpToTerminal(history))

=============================================================================
