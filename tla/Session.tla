------------------------------ MODULE Session ------------------------------
(***************************************************************************)
(* The control session with a caliband: the client's half (caliband/client, *)
(* transport and wire of crates/core), the requests FleetManager makes over *)
(* it, and caliband's half as the repository states it (testkit's           *)
(* FakeCaliband, and the server half of transport).                         *)
(*                                                                          *)
(* A connection carries one request and one reply. The client dials, writes *)
(* the token's preamble if it has one and then its request; caliband reads  *)
(* the preamble if it demands one and then a request. The lines written are *)
(* the sequence `lines`; the content of a request is its kind and an agent. *)
(***************************************************************************)
EXTENDS Integers, Sequences, FiniteSets, SequencesExt

CONSTANTS
    Calls,      \* the calls made of FleetManager
    MaxId,      \* bound: the ids caliband gives to agents, 1 to MaxId
    Scenarios   \* what a behaviour starts from: records of
                \*   does: Calls -> [op, on]; made: the agents there are;
                \*   setup: how client and caliband are configured;
                \*   losses, polls, moves: bounds on lost connections, further
                \*   polls and changes of an agent's status

ASSUME MaxIdAssumption == MaxId \in Nat
(* prosperod does not start with a token and no TLS (require_token_tls). *)
ASSUME SetupAssumption ==
    \A s \in Scenarios : s.setup.token # "none" => s.setup.tls # "none"

VARIABLES
    setup,      \* the configuration of this deployment
    agents,     \* caliband's registry: id -> [status, interactive]
    nextId,     \* the last id given
    serving,    \* caliband's accept loop runs
    snapshot,   \* the agents of the last poll: id -> [status, interactive]
    spawned,    \* recent_spawns
    call,       \* call[c]: the operation, what it has left to do, its answer
    conn,       \* conn[c]: the lines written and not read, the reply not read
    inbox,      \* the frames written to agents' endpoints: <<frame, id, c>>
    served,     \* history variable: the requests carried out for each call
    spare       \* losses, polls and moves that may still happen

sessionVars == <<setup, agents, nextId, serving, snapshot, spawned, call, conn, inbox,
                 served, spare>>
caliband == <<agents, nextId, serving>>

(***************************************************************************)
(* Vocabulary.                                                              *)
(***************************************************************************)
Ids == 1..MaxId
WireEnded == {"killed", "drained", "done", "failed", "crashed"}
WireStatus == {"spawning", "running", "idle"} \cup WireEnded
DomainEnded == {"killed", "done", "failed", "crashed"}

(* caliban's drained has no counterpart in prospero's model. *)
domain_status(s) == IF s = "drained" THEN "done" ELSE s

(* What an operation of FleetManager does, step by step. *)
Operations == {"spawn", "list", "kill", "respawn", "rm", "input", "drain", "restart"}
Program(op) ==
    CASE op = "spawn" -> <<"spawn">>
      [] op = "list" -> <<"list">>
      [] op = "kill" -> <<"find", "kill">>
      [] op = "respawn" -> <<"find", "respawn">>
      [] op = "rm" -> <<"find", "rm">>
      [] op = "input" -> <<"gate", "attach", "UserMessage">>
      [] op = "drain" -> <<"gate", "attach", "EndInput", "linger", "find", "kill">>
      [] op = "restart" -> <<"shutdown">>

Requests == {"list", "spawn", "attach", "kill", "respawn", "rm", "shutdown"}
Inbound == {"UserMessage", "EndInput"}
Mutations == {"spawn", "kill", "respawn", "rm", "shutdown"}

(* No token is a request; the agents there are have the ids given so far,    *)
(* and were listed by a poll.                                               *)
ASSUME ScenariosAssumption ==
    \A s \in Scenarios :
        /\ {s.setup.token, s.setup.demands.token} \cap Requests = {}
        /\ \A c \in DOMAIN s.does : s.does[c].op \in Operations /\ s.does[c].on \in Nat
        /\ \E n \in 0..MaxId :
              s.made \in [1..n -> [status : WireStatus \ {"drained"}, interactive : BOOLEAN]]

(* Errors of the core, and what the API answers with (error.rs). *)
StatusOf(answer) ==
    CASE answer = "ok" -> 200
      [] answer = "not_found" -> 404
      [] answer = "invalid_state" -> 409
      [] answer = "unreachable" -> 503
      [] answer = "protocol" -> 502
      [] answer = "io" -> 500

Pending == "pending"
NoReply == <<"none">>
NoConn == [lines |-> <<>>, reply |-> NoReply, closed |-> FALSE]
Dialed(c) == conn[c] # NoConn
Doing(c) == Head(call[c].todo)
Open(c) == call[c].answer = Pending

(***************************************************************************)
(* A call goes on to its next step, or is over.                             *)
(***************************************************************************)
Advance(c) ==
    call' = [call EXCEPT ![c].todo = Tail(@),
                         ![c].answer = IF Len(call[c].todo) = 1 THEN "ok" ELSE Pending]

(* A failed EndInput does not stop drain_agent; any other failure ends a call. *)
Fail(c, why) ==
    call' = IF call[c].op = "drain" /\ Doing(c) \in {"gate", "attach", "EndInput"}
            THEN [call EXCEPT ![c].todo = <<"linger", "find", "kill">>]
            ELSE [call EXCEPT ![c].answer = why]

(* repo_of: the snapshot, then the spawns no poll has seen. *)
Find(c) ==
    /\ Open(c) /\ Doing(c) = "find"
    /\ IF call[c].on \in DOMAIN snapshot \cup spawned THEN Advance(c)
                                                      ELSE Fail(c, "not_found")
    /\ UNCHANGED <<setup, caliband, snapshot, spawned, conn, inbox, served, spare>>

(* send_agent_input's gate, on the last poll. *)
Gate(c) ==
    /\ Open(c) /\ Doing(c) = "gate"
    /\ LET id == call[c].on
       IN  IF id \notin DOMAIN snapshot THEN Fail(c, "not_found")
           ELSE IF \/ snapshot[id].status \in DomainEnded
                   \/ ~ snapshot[id].interactive
                THEN Fail(c, "invalid_state")
           ELSE Advance(c)
    /\ UNCHANGED <<setup, caliband, snapshot, spawned, conn, inbox, served, spare>>

(* drain_agent waits for a terminal status, for the agent to vanish, or for *)
(* its timeout, which may come at any time.                                 *)
Linger(c) ==
    /\ Open(c) /\ Doing(c) = "linger"
    /\ Advance(c)
    /\ UNCHANGED <<setup, caliband, snapshot, spawned, conn, inbox, served, spare>>

(***************************************************************************)
(* transport::connect. A Unix socket carries neither TLS nor a token.       *)
(***************************************************************************)
Tcp == setup.family = "tcp"
ClientTls == Tcp /\ setup.tls # "none"
ServerTls == Tcp /\ setup.demands.tls
HasToken == Tcp /\ setup.token # "none"

(* tls_client_from_pem refuses a CA file without a certificate. *)
ClientBuilt == ~ (Tcp /\ setup.tls = "empty")

(* The handshake succeeds when caliband's certificate is one it trusts; a   *)
(* client without TLS makes none, whatever caliband expects. A hello that a *)
(* caliband without TLS reads as a line is taken to fail at once.           *)
Reaches(c) ==
    /\ IF Doing(c) \in Inbound
       THEN call[c].on \in DOMAIN agents /\ agents[call[c].on].status \notin WireEnded
       ELSE serving
    /\ ClientTls => ServerTls /\ setup.tls = "trusts"

(* The token goes first, and only once the connection is made. *)
Written(c) ==
    [lines |-> (IF HasToken THEN <<setup.token>> ELSE <<>>) \o <<Doing(c)>>,
     reply |-> NoReply, closed |-> FALSE]

DialRequest(c) ==
    /\ Open(c) /\ Doing(c) \in Requests /\ ~ Dialed(c)
    /\ IF ~ ClientBuilt THEN Fail(c, "io") /\ UNCHANGED conn
       ELSE IF ~ Reaches(c) THEN Fail(c, "unreachable") /\ UNCHANGED conn
       ELSE conn' = [conn EXCEPT ![c] = Written(c)] /\ UNCHANGED call
    /\ UNCHANGED <<setup, caliband, snapshot, spawned, inbox, served, spare>>

(***************************************************************************)
(* Listener::accept, handle_control_conn.                                   *)
(***************************************************************************)
(* The handshake, then the first line as the preamble when one is demanded. *)
Admits(lines) ==
    /\ ServerTls => ClientTls
    /\ Tcp /\ setup.demands.token # "none" => Head(lines) = setup.demands.token

(* The line caliband takes for the request. *)
Asked(lines) ==
    IF Tcp /\ setup.demands.token # "none" THEN lines[2] ELSE lines[1]

Replies(c, reply) == conn' = [conn EXCEPT ![c].lines = <<>>, ![c].reply = reply]
Removed(id) == [i \in DOMAIN agents \ {id} |-> agents[i]]
With(a, id, agent) == [i \in DOMAIN a \cup {id} |-> IF i = id THEN agent ELSE a[i]]
Carried(c, req) == served' = [served EXCEPT ![c] = Append(@, req)]

ServeList(c) ==
    /\ Carried(c, "list")
    /\ Replies(c, <<"Listed", agents>>)
    /\ UNCHANGED caliband

(* A spawn is registered before it is answered; a conversation or not. *)
ServeSpawn(c) ==
    /\ nextId + 1 \in Ids
    /\ nextId' = nextId + 1
    /\ \E talks \in BOOLEAN :
          agents' = With(agents, nextId', [status |-> "running", interactive |-> talks])
    /\ Carried(c, "spawn")
    /\ Replies(c, <<"Spawned", nextId'>>)
    /\ UNCHANGED serving

(* attach, kill, respawn and rm name an agent. *)
ServeOnAgent(c, req) ==
    LET id == call[c].on
    IN  IF id \notin DOMAIN agents
        THEN Replies(c, <<"NotFound">>) /\ UNCHANGED <<caliband, served>>
        ELSE /\ Carried(c, req)
             /\ CASE req = "attach" -> Replies(c, <<"AttachAck">>) /\ UNCHANGED caliband
                  [] req = "kill" ->
                        /\ agents' = [agents EXCEPT ![id].status = "killed"]
                        /\ Replies(c, <<"Killed">>) /\ UNCHANGED <<nextId, serving>>
                  [] req = "rm" ->
                        /\ agents' = Removed(id)
                        /\ Replies(c, <<"Removed">>) /\ UNCHANGED <<nextId, serving>>
                  [] req = "respawn" ->     \* under a new id, listed at once or later
                        /\ nextId + 1 \in Ids /\ nextId' = nextId + 1
                        /\ \/ agents' = Removed(id)
                           \/ agents' = With(Removed(id), nextId', agents[id])
                        /\ Replies(c, <<"Respawned", nextId'>>) /\ UNCHANGED serving

ServeShutdown(c) ==
    /\ serving' = FALSE
    /\ Carried(c, "shutdown")
    /\ Replies(c, <<"ShutdownAck">>)
    /\ UNCHANGED <<agents, nextId>>

(* One connection at a time, from the handshake to the reply. A line that is *)
(* no request closes the connection without one. The fake's accept loop ends *)
(* at a connection it does not admit; a daemon's goes on, as here.           *)
Serve(c) ==
    /\ serving /\ Dialed(c) /\ conn[c].lines # <<>>
    /\ LET lines == conn[c].lines
       IN  IF Admits(lines) /\ Asked(lines) \in Requests
           THEN CASE Asked(lines) = "list" -> ServeList(c)
                  [] Asked(lines) = "spawn" -> ServeSpawn(c)
                  [] Asked(lines) = "shutdown" -> ServeShutdown(c)
                  [] OTHER -> ServeOnAgent(c, Asked(lines))
           ELSE /\ conn' = [conn EXCEPT ![c].lines = <<>>, ![c].closed = TRUE]
                /\ UNCHANGED <<caliband, served>>
    /\ UNCHANGED <<setup, snapshot, spawned, call, inbox, spare>>

(* caliband has stopped: what it had not accepted is reset. *)
Resets(c) ==
    /\ ~ serving /\ Dialed(c) /\ conn[c].lines # <<>>
    /\ conn' = [conn EXCEPT ![c].lines = <<>>, ![c].closed = TRUE]
    /\ UNCHANGED <<setup, caliband, snapshot, spawned, call, inbox, served, spare>>

(***************************************************************************)
(* The reply.                                                               *)
(***************************************************************************)
(* What a reply changes in prospero: the snapshot of a poll, the id of a    *)
(* spawn, the agent a removal takes off the snapshot.                       *)
Learns(c, reply) ==
    /\ snapshot' =
        CASE Doing(c) = "list" -> [i \in DOMAIN reply[2] |->
                                     [reply[2][i] EXCEPT !.status = domain_status(@)]]
          [] Doing(c) = "rm" -> [i \in DOMAIN snapshot \ {call[c].on} |-> snapshot[i]]
          [] OTHER -> snapshot
    /\ spawned' =
        CASE Doing(c) = "list" -> spawned \ DOMAIN reply[2]
          [] Doing(c) = "spawn" -> spawned \cup {reply[2]}
          [] Doing(c) = "rm" -> spawned \ {call[c].on}
          [] OTHER -> spawned

(* The fake refuses with NotFound only; the two other errors of caliband,    *)
(* InvalidState and Internal, would end the call on the same path with       *)
(* another answer.                                                           *)
ReadReply(c) ==
    /\ Dialed(c) /\ conn[c].reply # NoReply
    /\ conn' = [conn EXCEPT ![c] = NoConn]
    /\ IF Head(conn[c].reply) = "NotFound"
       THEN Fail(c, "not_found") /\ UNCHANGED <<snapshot, spawned>>
       ELSE Advance(c) /\ Learns(c, conn[c].reply)
    /\ UNCHANGED <<setup, caliband, inbox, served, spare>>

(* Mutant: a connection that closes without a reply is dialled again. *)
RedialOnEof(c) ==
    /\ Dialed(c) /\ conn[c].closed
    /\ conn' = [conn EXCEPT ![c] = NoConn]
    /\ \/ Doing(c) \in Requests /\ Reaches(c) /\ UNCHANGED call
       \/ Fail(c, "protocol")
    /\ UNCHANGED <<setup, caliband, snapshot, spawned, inbox, served, spare>>

(* read_frame: the end of the stream before a reply; a reset shows as an    *)
(* error of the read.                                                       *)
ReadEof(c) ==
    /\ Dialed(c) /\ conn[c].closed
    /\ conn' = [conn EXCEPT ![c] = NoConn]
    /\ \E why \in {"protocol", "io"} : Fail(c, why)
    /\ UNCHANGED <<setup, caliband, snapshot, spawned, inbox, served, spare>>

(* The connection is lost, before caliband has read it or after. *)
Lost(c) ==
    /\ Dialed(c) /\ ~ conn[c].closed /\ spare.losses > 0
    /\ spare' = [spare EXCEPT !.losses = @ - 1]
    /\ conn' = [conn EXCEPT ![c].lines = <<>>, ![c].reply = NoReply, ![c].closed = TRUE]
    /\ UNCHANGED <<setup, caliband, snapshot, spawned, call, inbox, served>>

(* send_inbound: a connection of its own, written and not read from. *)
SendInbound(c) ==
    /\ Open(c) /\ Doing(c) \in Inbound
    /\ IF Reaches(c)
       THEN /\ Advance(c)
            /\ inbox' = inbox \cup {<<Doing(c), call[c].on, c>>}
       ELSE Fail(c, "unreachable") /\ UNCHANGED inbox
    /\ UNCHANGED <<setup, caliband, snapshot, spawned, conn, served, spare>>

(***************************************************************************)
(* The agents, and the poll, which lists again and again.                   *)
(***************************************************************************)
AgentMoves ==
    /\ spare.moves > 0 /\ spare' = [spare EXCEPT !.moves = @ - 1]
    /\ \E i \in DOMAIN agents :
          /\ agents[i].status \notin WireEnded
          /\ \E s \in {"idle", "done", "drained"} \ {agents[i].status} :
                agents' = [agents EXCEPT ![i].status = s]
    /\ UNCHANGED <<setup, nextId, serving, snapshot, spawned, call, conn, inbox, served>>

PollAgain(c) ==
    /\ call[c].op = "list" /\ ~ Open(c) /\ spare.polls > 0
    /\ spare' = [spare EXCEPT !.polls = @ - 1]
    /\ call' = [call EXCEPT ![c].todo = Program("list"), ![c].answer = Pending]
    /\ served' = [served EXCEPT ![c] = <<>>]
    /\ UNCHANGED <<setup, caliband, snapshot, spawned, conn, inbox>>

SessionInit ==
    \E s \in Scenarios :
        /\ setup = s.setup /\ spare = [losses |-> s.losses, polls |-> s.polls, moves |-> s.moves]
        /\ agents = s.made /\ nextId = Cardinality(DOMAIN s.made) /\ serving = TRUE
        /\ snapshot = s.made /\ spawned = {}
        /\ call = [c \in Calls |->
                     IF c \in DOMAIN s.does
                     THEN [op |-> s.does[c].op, on |-> s.does[c].on,
                           todo |-> Program(s.does[c].op), answer |-> Pending]
                     ELSE [op |-> "none", on |-> 0, todo |-> <<>>, answer |-> "ok"]]
        /\ conn = [c \in Calls |-> NoConn]
        /\ inbox = {} /\ served = [c \in Calls |-> <<>>]

CallStep(c) ==
    \/ Find(c) \/ Gate(c) \/ Linger(c) \/ DialRequest(c) \/ SendInbound(c)
    \/ ReadReply(c) \/ ReadEof(c)

SessionNext ==
    \/ \E c \in Calls : CallStep(c) \/ Serve(c) \/ Resets(c) \/ Lost(c) \/ PollAgain(c)
    \/ AgentMoves

(* A call is scheduled by the runtime, and its timers fire. The client sets  *)
(* no time-out, so that caliband answers is assumed.                         *)
SessionFairness ==
    \A c \in Calls : WF_sessionVars(CallStep(c) \/ Serve(c) \/ Resets(c))

SessionSpec == SessionInit /\ [][SessionNext]_sessionVars /\ SessionFairness

(***************************************************************************)
(* Properties.                                                              *)
(***************************************************************************)
Over(c) == ~ Open(c) /\ call[c].op # "none"
Did(c, req) == \E k \in DOMAIN served[c] : served[c][k] = req

SessionTypeOK ==
    /\ nextId \in Ids \cup {0} /\ serving \in BOOLEAN
    /\ DOMAIN agents \subseteq Ids /\ DOMAIN snapshot \subseteq Ids /\ spawned \subseteq Ids
    /\ \A i \in DOMAIN agents : agents[i] \in [status : WireStatus, interactive : BOOLEAN]
    /\ \A c \in Calls : call[c].answer \in {Pending, "ok", "not_found", "invalid_state",
                                            "unreachable", "protocol", "io"}

(* The token a caliband demands is the only way in: a client without it      *)
(* changes nothing there and is told of a failure (server_check_token).      *)
StrangersChangeNothing ==
    Tcp /\ setup.demands.token \notin {"none", setup.token} =>
        \A c \in Calls :
            /\ served[c] = <<>>
            /\ Over(c) => StatusOf(call[c].answer) >= 404

(* A request is carried out at most once, whatever is lost: an agent is not  *)
(* started twice because the answer did not arrive (CalibandClient::request).*)
CarriedOutOnce ==
    \A c \in Calls : IsInjective(served[c])

(* A call that answers ok has had its last request carried out, and one that *)
(* is refused (404, 409) has changed nothing in caliband's registry.         *)
AnswersHonestly ==
    \A c \in Calls :
        /\ Over(c) /\ call[c].answer = "ok" =>
              LET last == Program(call[c].op)[Len(Program(call[c].op))]
              IN  IF last \in Requests THEN Did(c, last)
                  ELSE <<last, call[c].on, c>> \in inbox
        /\ Over(c) /\ StatusOf(call[c].answer) \in {404, 409} =>
              \A req \in Mutations : ~ Did(c, req)

(* A drain that answers ok leaves no agent running (drain_agent). *)
DrainStops ==
    \A c \in Calls :
        call[c].op = "drain" /\ call[c].answer = "ok" =>
            \/ call[c].on \notin DOMAIN agents
            \/ agents[call[c].on].status \in WireEnded

(* A frame is written only to an agent that holds a conversation, although   *)
(* the gate looks at the last poll (send_agent_input).                       *)
InputOnlyToTalkers ==
    \A f \in inbox : f[2] \in DOMAIN agents => agents[f[2]].interactive

(* An agent that has ended as far as prospero knows has ended in caliband,   *)
(* under every status caliban has and prospero has not (domain_status).      *)
EndsAgree ==
    \A i \in DOMAIN snapshot :
        snapshot[i].status \in DomainEnded /\ i \in DOMAIN agents =>
            agents[i].status \in WireEnded
DomainTotal == \A i \in DOMAIN snapshot : snapshot[i].status \in WireStatus \ {"drained"}

SessionSound ==
    /\ SessionTypeOK /\ StrangersChangeNothing /\ CarriedOutOnce /\ AnswersHonestly
    /\ DrainStops /\ InputOnlyToTalkers /\ EndsAgree /\ DomainTotal

(* Once nothing moves every call has ended, also a drain of an agent that    *)
(* goes on for ever.                                                         *)
CallsEnded == \A c \in Calls : ~ Open(c)

=============================================================================
