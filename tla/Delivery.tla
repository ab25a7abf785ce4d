------------------------------ MODULE Delivery ------------------------------
(***************************************************************************)
(* Delivery out of the durable store: the fleet feed (fleet_stream in       *)
(* crates/api/src/sse.rs), which reads every stream's events by a           *)
(* fleet-wide cursor and uses the bus only as a doorbell, and the tail of   *)
(* one agent over the clustered bus (agent_stream over DistributedBus in    *)
(* crates/core/src/distributed_bus.rs). The stores differ in when a row     *)
(* gets its ordinal and when it becomes visible: sqlite does both in one    *)
(* write under its write lock, Postgres draws the ordinal from a sequence   *)
(* before the insert commits. The buses differ in when a subscription       *)
(* starts to hear: InProcessBus at the call, DistributedBus at the first    *)
(* poll of the stream it returned. An event is numbered under the writer's  *)
(* lock and appended outside it, so the events of one stream may be stored  *)
(* in another order than they are numbered.                                 *)
(***************************************************************************)
EXTENDS Naturals, Sequences, FiniteSets, Functions

CONSTANTS
    Keys,        \* stream keys
    TailKey,     \* the agent whose own stream is followed
    Sites,       \* [store, from, rows and writers per key, prunes, faults, resumes, who]
    FeedBatch    \* FLEET_BATCH

ASSUME DeliveryAssumption == TailKey \in Keys /\ FeedBatch \in Nat \ {0}
ASSUME SitesAssumption ==
    Sites \subseteq [store : {"sqlite", "postgres"}, from : {"start", "now"},
                     rows : [Keys -> Nat], writers : Nat, prunes : Nat, faults : Nat,
                     resumes : Nat, who : {"feed", "tail", "nobody"}]

VARIABLES
    site,      \* the deployment, with what is left of its budgets
    rows,      \* events visible and not pruned: [ord, key, seq, late]
    peak,      \* per key: the highest number of an event that was ever visible
    numbered,  \* per key: the last number handed out under the lock
    writes,    \* emits under way: [key, seq, ord, pc], the doorbell last
    drawn,     \* ordinals handed out
    follower,  \* one connection of the fleet feed; batch: the read not yet sent
    client,    \* its client: the events received, and where it started
    tail       \* the stream of TailKey; pending: the read not yet gone through

storeVars == <<rows, peak, numbered, drawn>>
deliveryVars == <<site, storeVars, writes, follower, client, tail>>

NoFeed == [phase |-> "off", cursor |-> 0, batch |-> {}, hears |-> FALSE,
           items |-> 0, bells |-> {}, seen |-> [k \in Keys |-> 0], deaf |-> FALSE]
NoTail == [phase |-> "off", last |-> 0, mark |-> 0, hears |-> FALSE, pending |-> {},
           bells |-> {}, got |-> <<>>, deaf |-> FALSE]

DeliveryInit ==
    /\ site \in Sites
    /\ rows = {} /\ peak = [k \in Keys |-> 0] /\ numbered = [k \in Keys |-> 0]
    /\ writes = {} /\ drawn = 0
    /\ follower = NoFeed /\ client = [got |-> <<>>, start |-> 0, fresh |-> TRUE]
    /\ tail = NoTail

Clustered == site.store = "postgres"
Ords(S) == {r.ord : r \in S}
Highest(S) == IF S = {} THEN 0 ELSE CHOOSE n \in S : \A m \in S : m <= n

-----------------------------------------------------------------------------
(* The stores. *)

(* Mutant: a plain rowid, one above the largest row that is left. *)
OrdinalReused == IF Clustered THEN drawn + 1 ELSE Highest(Ords(rows)) + 1

(* global_ordinal: AUTOINCREMENT and BIGSERIAL never hand a value out twice. *)
NextOrdinal == drawn + 1

(* next_seq, under the lock of the counters. A cluster's doorbell is a task of
   its own: its writer is done. *)
Writing(k) == {w \in writes : w.key = k /\ (Clustered => w.pc # "ring")}

Number(k) ==
    /\ numbered[k] < site.rows[k] /\ Cardinality(Writing(k)) < site.writers
    /\ numbered' = [numbered EXCEPT ![k] = @ + 1]
    /\ writes' = writes \cup {[key |-> k, seq |-> numbered[k] + 1, ord |-> 0, pc |-> "numbered"]}
    /\ UNCHANGED <<site, rows, peak, drawn, follower, client, tail>>

(* The append is over: publish is next. *)
Ringing(w) == [w EXCEPT !.ord = 0, !.pc = "ring"]
Publishes(w) == writes' = (writes \ {w}) \cup {Ringing(w)}

(* A row is late that becomes visible after one its stream numbered later. *)
BecomesVisible(w, n) ==
    /\ rows' = rows \cup {[ord |-> n, key |-> w.key, seq |-> w.seq, late |-> w.seq <= peak[w.key]]}
    /\ peak' = [peak EXCEPT ![w.key] = IF w.seq <= @ THEN @ ELSE w.seq]
    /\ Publishes(w)
    /\ UNCHANGED <<site, numbered, follower, client, tail>>

(* append on sqlite: the ordinal and the row in one write. *)
AppendLocal(w) ==
    /\ ~Clustered /\ w.pc = "numbered"
    /\ drawn' = drawn + 1
    /\ BecomesVisible(w, NextOrdinal)

(* append on Postgres: the insert has its ordinal and is not visible yet ... *)
Allocate(w) ==
    /\ Clustered /\ w.pc = "numbered"
    /\ drawn' = drawn + 1
    /\ writes' = (writes \ {w}) \cup {[w EXCEPT !.ord = NextOrdinal, !.pc = "drawn"]}
    /\ UNCHANGED <<site, rows, peak, numbered, follower, client, tail>>

(* ... until it commits. *)
Commit(w) ==
    /\ w.pc = "drawn"
    /\ UNCHANGED drawn
    /\ BecomesVisible(w, w.ord)

(* An append that fails: the event is published all the same. (Its number
   taken by another writer, and the event that marks the gap: Emitter.) *)
AppendFails(w) ==
    /\ w.pc # "ring" /\ site.faults > 0
    /\ site' = [site EXCEPT !.faults = @ - 1]
    /\ Publishes(w)
    /\ UNCHANGED <<storeVars, follower, client, tail>>

(* A key's doorbell reaches everyone who listens; the feed's clustered
   subscription then reads that key itself, in DoorbellReplay. *)
FeedRung(f, k) ==
    IF ~f.hears THEN [f EXCEPT !.deaf = Clustered]
    ELSE IF Clustered THEN [f EXCEPT !.bells = @ \cup {k}]
    ELSE [f EXCEPT !.items = @ + 1]

(* publish: in process, or a task of its own that runs pg_notify ... *)
Notify(w) ==
    /\ w.pc = "ring"
    /\ writes' = writes \ {w}
    /\ follower' = FeedRung(follower, w.key)
    /\ tail' = IF tail.hears THEN [tail EXCEPT !.bells = @ \cup {w.key}]
               ELSE IF w.key = TailKey THEN [tail EXCEPT !.deaf = TRUE] ELSE tail
    /\ UNCHANGED <<site, storeVars, client>>

(* ... and only logs that it failed. *)
NotifyFails(w) ==
    /\ Clustered /\ w.pc = "ring" /\ site.faults > 0
    /\ site' = [site EXCEPT !.faults = @ - 1]
    /\ writes' = writes \ {w}
    /\ follower' = [follower EXCEPT !.deaf = TRUE]
    /\ tail' = IF w.key = TailKey THEN [tail EXCEPT !.deaf = TRUE] ELSE tail
    /\ UNCHANGED <<storeVars, client>>

(* prune goes by the events' times, which the ordinals need not follow. *)
PruneTo(kept) ==
    /\ site.prunes > 0 /\ kept # rows
    /\ site' = [site EXCEPT !.prunes = @ - 1]
    /\ rows' = kept
    /\ UNCHANGED <<peak, numbered, writes, drawn, follower, client, tail>>

(* replay_fleet, before its ORDER BY and LIMIT. *)
After(cursor) == {r \in rows : r.ord > cursor}

ReplayFleet(cursor) ==
    {r \in After(cursor) : Cardinality({s \in After(cursor) : s.ord < r.ord}) < FeedBatch}

(* The first of a read's events in the order it was asked for. *)
First(c, batch) == c \in batch /\ \A d \in batch : c.ord <= d.ord
Least(s, seqs) == s \in seqs /\ \A t \in seqs : s <= t

(* replay: one stream from a sequence number. *)
Replay(k, from) == {r.seq : r \in {s \in rows : s.key = k /\ s.seq >= from}}

-----------------------------------------------------------------------------
(* The fleet feed. *)


(* subscribe_all, before the cursor is read. *)
ConnectFeed ==
    /\ site.who = "feed" /\ follower.phase = "off"
    /\ follower' = [NoFeed EXCEPT !.phase = "subscribed", !.hears = ~Clustered]
    /\ UNCHANGED <<site, storeVars, writes, client, tail>>

Begin(cursor) ==
    /\ follower.phase = "subscribed"
    /\ follower' = [follower EXCEPT !.phase = "draining", !.cursor = cursor]
    /\ client' = IF client.fresh THEN [client EXCEPT !.start = cursor, !.fresh = FALSE]
                 ELSE client
    /\ UNCHANGED <<storeVars, writes, tail>>

(* A client that has received something resumes after it; one that has not
   asks as it did first: from the beginning, or from now. *)
BeginFrom ==
    /\ client.got # <<>> \/ site.from = "start"
    /\ Begin(IF client.got = <<>> THEN 0 ELSE client.got[Len(client.got)].ord)
    /\ UNCHANGED site

(* latest_fleet_cursor: MAX(global_ordinal), and where this client starts. *)
BeginNow ==
    /\ client.got = <<>> /\ site.from = "now" /\ follower.phase = "subscribed"
    /\ \E n \in Ords(rows) \cup {0} :
          /\ \A m \in Ords(rows) : m <= n
          /\ follower' = [follower EXCEPT !.phase = "draining", !.cursor = n]
          /\ client' = [client EXCEPT !.start = n, !.fresh = FALSE]
    /\ UNCHANGED <<site, storeVars, writes, tail>>

(* latest_fleet_cursor().unwrap_or(0): the whole history. *)
BeginNowFails ==
    /\ client.got = <<>> /\ site.from = "now" /\ site.faults > 0
    /\ site' = [site EXCEPT !.faults = @ - 1]
    /\ Begin(0)

(* One bounded read of the inner loop ... *)
ReadBatch ==
    /\ follower.phase = "draining" /\ follower.batch = {} /\ After(follower.cursor) # {}
    /\ follower' = [follower EXCEPT !.batch = ReplayFleet(follower.cursor)]
    /\ UNCHANGED <<site, storeVars, writes, client, tail>>

(* ... which an empty one ends, with nothing missed. *)
ReadNothing ==
    /\ follower.phase = "draining" /\ follower.batch = {} /\ After(follower.cursor) = {}
    /\ follower' = [follower EXCEPT !.phase = "waiting", !.deaf = FALSE]
    /\ UNCHANGED <<site, storeVars, writes, client, tail>>

(* unwrap_or_default: a failed read is an empty one. *)
ReadFails ==
    /\ follower.phase = "draining" /\ follower.batch = {} /\ site.faults > 0
    /\ site' = [site EXCEPT !.faults = @ - 1]
    /\ follower' = [follower EXCEPT !.phase = "waiting", !.deaf = TRUE]
    /\ UNCHANGED <<storeVars, writes, client, tail>>

Yield ==
    /\ \E c \in follower.batch :
          /\ First(c, follower.batch)
          /\ follower' = [follower EXCEPT !.cursor = c.ord, !.batch = @ \ {c}]
          /\ client' = [client EXCEPT !.got = Append(@, c)]
    /\ UNCHANGED <<site, storeVars, writes, tail>>

(* doorbell.next(): the first poll of the clustered subscription listens. *)
Listen ==
    /\ follower.phase = "waiting" /\ ~follower.hears
    /\ follower' = [follower EXCEPT !.hears = TRUE]
    /\ UNCHANGED <<site, storeVars, writes, client, tail>>

(* drain_doorbell: each event of the key beyond its mark is an item. *)
DoorbellReplay(k) ==
    /\ follower.phase = "waiting" /\ follower.items = 0 /\ k \in follower.bells
    /\ follower' = [follower EXCEPT !.bells = @ \ {k},
                            !.seen[k] = Highest({@} \cup Replay(k, @ + 1)),
                            !.items = Cardinality(Replay(k, follower.seen[k] + 1))]
    /\ UNCHANGED <<site, storeVars, writes, client, tail>>

DoorbellReplayFails(k) ==
    /\ follower.phase = "waiting" /\ follower.items = 0 /\ k \in follower.bells /\ site.faults > 0
    /\ site' = [site EXCEPT !.faults = @ - 1]
    /\ follower' = [follower EXCEPT !.bells = @ \ {k}, !.deaf = TRUE]
    /\ UNCHANGED <<storeVars, writes, client, tail>>

Wake ==
    /\ follower.phase = "waiting" /\ follower.items > 0
    /\ follower' = [follower EXCEPT !.phase = "draining", !.items = @ - 1]
    /\ UNCHANGED <<site, storeVars, writes, client, tail>>

(* The client goes away, or the listener fails for good and ends the stream. *)
Disconnect ==
    /\ follower.phase # "off" /\ site.resumes > 0
    /\ site' = [site EXCEPT !.resumes = @ - 1]
    /\ follower' = NoFeed
    /\ UNCHANGED <<storeVars, writes, client, tail>>

-----------------------------------------------------------------------------
(* The tail of one agent over the clustered bus. *)

(* The agent's last event is its terminal one. *)
IsTerminal(seq) == seq = site.rows[TailKey]

(* subscribe, then the history read ... *)
OpenTail ==
    /\ Clustered /\ site.who = "tail" /\ tail.phase = "off"
    /\ tail' = [NoTail EXCEPT !.phase = "open", !.pending = Replay(TailKey, 0)]
    /\ UNCHANGED <<site, storeVars, writes, follower, client>>

(* ... whose failure is an empty history. *)
OpenTailBlind ==
    /\ Clustered /\ site.who = "tail" /\ tail.phase = "off" /\ site.faults > 0
    /\ site' = [site EXCEPT !.faults = @ - 1]
    /\ tail' = [NoTail EXCEPT !.phase = "open", !.deaf = TRUE]
    /\ UNCHANGED <<storeVars, writes, follower, client>>

(* The event s goes to the client, and the stream ends after a terminal one. *)
Forwarded(t, s) ==
    [t EXCEPT !.got = Append(@, s), !.last = s, !.pending = @ \ {s},
              !.phase = IF IsTerminal(s) THEN "closed" ELSE "open"]

SendHistory ==
    /\ tail.phase = "open" /\ ~tail.hears
    /\ \E s \in tail.pending : Least(s, tail.pending) /\ tail' = Forwarded(tail, s)
    /\ UNCHANGED <<site, storeVars, writes, follower, client>>

(* The history over, the first poll of the subscription: LISTEN, and a mark
   of 0. *)
ListenTail ==
    /\ tail.phase = "open" /\ ~tail.hears /\ tail.pending = {}
    /\ tail' = [tail EXCEPT !.hears = TRUE, !.mark = 0]
    /\ UNCHANGED <<site, storeVars, writes, follower, client>>

(* A doorbell: the delta beyond the mark is read ... *)
TailRung ==
    /\ tail.phase = "open" /\ tail.pending = {} /\ TailKey \in tail.bells
    /\ tail' = [tail EXCEPT !.bells = {}, !.deaf = FALSE,
                            !.pending = Replay(TailKey, tail.mark + 1)]
    /\ UNCHANGED <<site, storeVars, writes, follower, client>>

(* ... and yielded one by one: Tailer::on_recv forwards what is beyond the
   last event delivered and skips the rest. *)
TailStep ==
    /\ tail.phase = "open" /\ tail.hears
    /\ \E s \in tail.pending :
          /\ Least(s, tail.pending)
          /\ tail' = [(IF s > tail.last THEN Forwarded(tail, s)
                       ELSE [tail EXCEPT !.pending = @ \ {s}]) EXCEPT !.mark = s]
    /\ UNCHANGED <<site, storeVars, writes, follower, client>>

TailReplayFails ==
    /\ tail.phase = "open" /\ tail.pending = {} /\ TailKey \in tail.bells /\ site.faults > 0
    /\ site' = [site EXCEPT !.faults = @ - 1]
    /\ tail' = [tail EXCEPT !.bells = {}, !.deaf = TRUE]
    /\ UNCHANGED <<storeVars, writes, follower, client>>

(* A doorbell for another stream. *)
TailIgnores ==
    /\ tail.phase = "open" /\ tail.pending = {} /\ tail.bells # {} /\ TailKey \notin tail.bells
    /\ tail' = [tail EXCEPT !.bells = {}]
    /\ UNCHANGED <<site, storeVars, writes, follower, client>>

Delivers ==
    \/ BeginFrom \/ BeginNow \/ ReadBatch \/ ReadNothing \/ Yield \/ Listen \/ Wake
    \/ \E k \in Keys : DoorbellReplay(k)
    \/ SendHistory \/ ListenTail \/ TailRung \/ TailStep \/ TailIgnores

DeliveryNext ==
    \/ \E k \in Keys : Number(k) \/ DoorbellReplayFails(k)
    \/ \E w \in writes : AppendLocal(w) \/ Allocate(w) \/ Commit(w) \/ AppendFails(w)
                         \/ Notify(w) \/ NotifyFails(w)
    \/ \E kept \in SUBSET rows : PruneTo(kept)
    \/ ConnectFeed \/ BeginNowFails \/ ReadFails \/ Disconnect
    \/ OpenTail \/ OpenTailBlind \/ TailReplayFails
    \/ Delivers

(* The tasks run, those that ring among them. Nothing makes a client connect,
   an agent emit, an insert commit or a row age. *)
DeliveryFairness ==
    /\ WF_deliveryVars(Delivers)
    /\ WF_deliveryVars(\E w \in writes : Notify(w))

-----------------------------------------------------------------------------
DeliveryTypeOK ==
    /\ rows \subseteq [ord : 1..drawn, key : Keys, seq : Nat, late : BOOLEAN]
    /\ \A r \in rows : r.seq \in 1..site.rows[r.key]
    /\ \A r, s \in rows : r.ord = s.ord => r = s
    /\ follower.phase \in {"off", "subscribed", "draining", "waiting"}
    /\ tail.phase \in {"off", "open", "closed"}
    /\ follower.cursor <= drawn /\ tail.mark <= site.rows[TailKey]

(* What a client of the fleet feed receives, over all its connections, has   *)
(* strictly increasing cursors: no event twice, none out of order.           *)
FeedOrder == \A i \in 1..Len(client.got) - 1 : client.got[i].ord < client.got[i + 1].ord

(* What the comment on fleet_stream calls exactly-once: an event the feed's   *)
(* cursor has passed has been sent, unless it is older than the place the    *)
(* client started from.                                                     *)
FeedExactlyOnce ==
    follower.phase # "off" =>
        \A r \in rows : client.start < r.ord /\ r.ord <= follower.cursor => r \in Range(client.got)

(* On sqlite it holds: ordinals become visible in order.                     *)
FeedComplete == ~Clustered => FeedExactlyOnce

(* A connected feed with events beyond its cursor catches up with them, or   *)
(* has missed a doorbell it only makes up for at the next one. A late row in *)
(* a cluster wakes nobody: its doorbell is answered from the mark its stream *)
(* has there, which a later row has passed, so it waits for another event.   *)
Due == {r \in After(follower.cursor) : r.late => ~Clustered}
Lagging == follower.phase # "off" /\ Due # {}
FeedCatchesUp == Lagging ~> (~Lagging \/ follower.deaf)

(* The stream of one agent sends its events in order and each once, and it   *)
(* has sent every stored event up to the last one it sent, whichever of them *)
(* were appended between the history read and the LISTEN, and whichever     *)
(* doorbells were lost. Late rows are excepted, although the comments say   *)
(* "no gap": one that is stored after a later number of its stream is below *)
(* the mark of the subscription and the last event the Tailer sent, and is  *)
(* never sent (AgentStream's NoGap shows the same in process).              *)
TailExact ==
    /\ \A i \in 1..Len(tail.got) - 1 : tail.got[i] < tail.got[i + 1]
    /\ \A i \in 1..Len(tail.got) : tail.got[i] \in 1..tail.last
    /\ \A r \in rows : r.key = TailKey /\ r.seq <= tail.last /\ ~r.late
                       => r.seq \in Range(tail.got)

(* A stream that heard the agent's last doorbell ends after the terminal     *)
(* event, unless that was pruned before it was read.                        *)
TerminalStored == \E r \in rows : r.key = TailKey /\ IsTerminal(r.seq)
TerminalRung == ~\E w \in writes : w.key = TailKey /\ IsTerminal(w.seq)
TailCloses ==
    (tail.phase = "open" /\ TerminalStored /\ TerminalRung)
        ~> (tail.phase = "closed" \/ tail.deaf \/ ~TerminalStored)

(* What the feed and the tail of one agent deliver, over all reconnects:     *)
(* in order, each event once, on sqlite every one the cursor has passed, and *)
(* to the tail every one that was stored in its stream's order.             *)
FeedSound == DeliveryTypeOK /\ FeedOrder /\ FeedComplete /\ TailExact


=============================================================================
