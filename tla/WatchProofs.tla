---------------------------- MODULE WatchProofs -----------------------------
(***************************************************************************)
(* What a subscriber of watch_fleet is told, for any agents, any capacity   *)
(* of the channel and any number of moves of the fleet.                     *)
(***************************************************************************)
EXTENDS FleetWatch, SequenceTheorems, TLAPS

(* Where changes of one name stand in a sequence of changes.                 *)
Named(s) == {s[i].name : i \in 1..Len(s)}
LastOf(s, i) == i \in 1..Len(s) /\ \A j \in 1..Len(s) : j > i => s[j].name # s[i].name
FirstOf(s, i) == i \in 1..Len(s) /\ \A j \in 1..Len(s) : j < i => s[j].name # s[i].name
Adjacent(s, i, j) ==
    /\ i \in 1..Len(s) /\ j \in 1..Len(s) /\ i < j /\ s[i].name = s[j].name
    /\ \A k \in 1..Len(s) : i < k /\ k < j => s[k].name # s[j].name

(* The changes there can be.                                                 *)
Told == {c \in [name : Names, to : State, kind : {"Discovered", "Gone", "StatusChanged"}] :
             c.kind = "Gone" <=> c.to = Absent}

Unsent(n) == \E c \in unsent : c.name = n
Pending(n) == n \in Named(feed) \/ Unsent(n)
Listens == watcher \in {"subscribed", "live"}

WatchTypes ==
    /\ WatchTypeOK
    /\ backend \in {"k8s", "local"} /\ watcher \in {"none", "closed", "subscribed", "live"}
    /\ feed \in Seq(Told) /\ unsent \subseteq Told
    /\ origin \in [Names -> {"none", "prospero", "other"}] /\ repeated \in BOOLEAN
    /\ moves \in Nat
    /\ ~ Listens => feed = <<>> /\ ~ overrun /\ unheard = {}
    /\ watcher # "live" => seen = {}
    /\ K8s => known = found /\ \A n \in Names : origin[n] = "none"

(* A pass finds one change of an agent, FleetManager writes the snapshot     *)
(* when all are sent, and the last change under way says what was found.     *)
PassOnce ==
    /\ \A c, d \in unsent : c.name = d.name => c = d
    /\ ~ K8s => \A c \in unsent : c.kind = "Discovered" => known[c.name] = Absent
LastIsFound ==
    /\ \A c \in unsent : c.to = found[c.name]
    /\ \A i \in 1..Len(feed) :
          LastOf(feed, i) /\ ~ Unsent(feed[i].name) /\ origin[feed[i].name] # "prospero"
          => feed[i].to = found[feed[i].name]

(* K8sFleet, of an agent that has not gone since the subscription: it was    *)
(* discovered once at most, before anything else, and once all is received   *)
(* the view is right, a Discovered that will be dropped notwithstanding.     *)
Stays(n) ==
    /\ \A c \in unsent : c.name = n => c.kind # "Gone"
    /\ \A i \in 1..Len(feed) : feed[i].name = n => feed[i].kind # "Gone"
    /\ known[n] = Absent => ~ Pending(n) /\ (watcher = "live" => view[n] = Absent)
    /\ n \in seen => known[n] # Absent
    /\ \A c \in unsent : c.name = n /\ c.kind = "Discovered" => n \notin Named(feed)
    /\ \A i \in 1..Len(feed) : feed[i].name = n /\ feed[i].kind = "Discovered" => FirstOf(feed, i)
    /\ watcher = "live" /\ ~ overrun =>
          /\ ~ Pending(n) => view[n] = known[n]
          /\ n \in seen =>
                /\ \A c \in unsent : c.name = n /\ c.kind = "Discovered" => view[n] = known[n]
                /\ \A i \in 1..Len(feed) :
                      /\ feed[i].name = n /\ feed[i].kind = "Discovered"
                      /\ LastOf(feed, i) /\ ~ Unsent(n)
                      => view[n] = known[n]
Stayers == K8s /\ Listens => \A n \in Names \ left : Stays(n)

(* K8sFleet, of a subscriber that keeps up: between two discoveries of an    *)
(* agent stands that it has gone, and when a Discovered is next and will not *)
(* be dropped, the agent is not in the view.                                 *)
GoneBetween ==
    /\ \A i, j \in 1..Len(feed) :
          Adjacent(feed, i, j) /\ feed[j].kind = "Discovered" => feed[i].kind = "Gone"
    /\ \A c \in unsent : \A i \in 1..Len(feed) :
          c.kind = "Discovered" /\ LastOf(feed, i) /\ feed[i].name = c.name
          => feed[i].kind = "Gone"
NextIsNew(n) ==
    /\ \A i \in 1..Len(feed) :
          FirstOf(feed, i) /\ feed[i].name = n /\ feed[i].kind = "Discovered" => view[n] = Absent
    /\ \A c \in unsent :
          c.name = n /\ c.kind = "Discovered" /\ n \notin Named(feed) => view[n] = Absent
    /\ ~ Pending(n) /\ known[n] = Absent => view[n] = Absent
KeepsUp ==
    K8s /\ unheard = {} =>
        /\ ~ repeated /\ ~ overrun
        /\ GoneBetween
        /\ watcher = "live" => \A n \in Names \ seen : NextIsNew(n)

(* FleetManager, of an agent all of whose changes were passed on.            *)
Hears(n) ==
    /\ watcher = "subscribed" /\ ~ Pending(n) => known[n] = found[n]
    /\ watcher = "live" /\ ~ Pending(n) => view[n] = found[n]
    /\ known[n] # Absent =>
          \A i \in 1..Len(feed) :
             /\ feed[i].name = n /\ feed[i].kind = "Discovered"
             /\ LastOf(feed, i) /\ ~ Unsent(n)
             => known[n] = found[n]
Heard ==
    ~ K8s /\ Listens => \A n \in Names \ unheard : origin[n] # "prospero" => Hears(n)

WatchInv ==
    WatchTypes /\ PassOnce /\ LastIsFound /\ Stayers /\ KeepsUp /\ Heard

(***************************************************************************)
(* Appending to a sequence of changes, and taking its head.                 *)
(***************************************************************************)
LEMMA AppendFacts ==
    ASSUME NEW T, NEW s \in Seq(T), NEW c \in T
    PROVE  /\ Append(s, c) \in Seq(T) /\ Len(Append(s, c)) = Len(s) + 1
           /\ Append(s, c)[Len(s) + 1] = c
           /\ \A i \in 1..Len(s) : Append(s, c)[i] = s[i]
           /\ Named(Append(s, c)) = Named(s) \cup {c.name}
<1>. DEFINE u == Append(s, c)
<1>1. /\ u \in Seq(T) /\ Len(u) = Len(s) + 1 /\ u[Len(s) + 1] = c
      /\ \A i \in 1..Len(s) : u[i] = s[i]
  BY AppendProperties
<1>. HIDE DEF u
<1>2. Len(s) \in Nat
  BY LenProperties
<1>3. Named(u) = Named(s) \cup {c.name}
  BY <1>1, <1>2 DEF Named
<1>. QED BY <1>1, <1>3 DEF u

LEMMA AppendPlaces ==
    ASSUME NEW T, NEW s \in Seq(T), NEW c \in T
    PROVE  /\ \A i \in 1..Len(s) : LastOf(Append(s, c), i) <=> LastOf(s, i) /\ s[i].name # c.name
           /\ \A i \in 1..Len(s) : FirstOf(Append(s, c), i) <=> FirstOf(s, i)
           /\ FirstOf(Append(s, c), Len(s) + 1) <=> c.name \notin Named(s)
           /\ \A i, j : Adjacent(Append(s, c), i, j) =>
                 \/ Adjacent(s, i, j)
                 \/ j = Len(s) + 1 /\ LastOf(s, i) /\ s[i].name = c.name
<1>. DEFINE u == Append(s, c)
<1>1. /\ Len(u) = Len(s) + 1 /\ u[Len(s) + 1] = c
      /\ \A i \in 1..Len(s) : u[i] = s[i]
  BY AppendFacts
<1>. HIDE DEF u
<1>2. Len(s) \in Nat
  BY LenProperties
<1>3. ASSUME NEW i \in 1..Len(s) PROVE LastOf(u, i) <=> LastOf(s, i) /\ s[i].name # c.name
  BY <1>1, <1>2 DEF LastOf
<1>4. ASSUME NEW i \in 1..Len(s) PROVE FirstOf(u, i) <=> FirstOf(s, i)
  BY <1>1, <1>2 DEF FirstOf
<1>5. FirstOf(u, Len(s) + 1) <=> c.name \notin Named(s)
  BY <1>1, <1>2 DEF FirstOf, Named
<1>6. ASSUME NEW i, NEW j, Adjacent(u, i, j)
      PROVE  Adjacent(s, i, j) \/ (j = Len(s) + 1 /\ LastOf(s, i) /\ s[i].name = c.name)
  <2>1. /\ i \in 1..Len(s) + 1 /\ j \in 1..Len(s) + 1 /\ i < j /\ u[i].name = u[j].name
        /\ \A k \in 1..Len(s) + 1 : i < k /\ k < j => u[k].name # u[j].name
    BY <1>1, <1>6 DEF Adjacent
  <2>2. CASE j \in 1..Len(s)
    BY <1>1, <1>2, <2>1, <2>2 DEF Adjacent
  <2>3. CASE j = Len(s) + 1
    BY <1>1, <1>2, <2>1, <2>3 DEF LastOf
  <2>. QED BY <1>2, <2>1, <2>2, <2>3
<1>. QED BY <1>3, <1>4, <1>5, <1>6 DEF u

LEMMA TailFacts ==
    ASSUME NEW T, NEW s \in Seq(T), s # <<>>
    PROVE  /\ Tail(s) \in Seq(T) /\ Len(Tail(s)) = Len(s) - 1 /\ Len(s) \in Nat \ {0}
           /\ Head(s) = s[1] /\ Head(s) \in T
           /\ \A i \in 1..Len(s) - 1 : Tail(s)[i] = s[i + 1]
           /\ Named(s) = Named(Tail(s)) \cup {Head(s).name}
<1>. DEFINE u == Tail(s)
<1>1. /\ u \in Seq(T) /\ Len(u) = Len(s) - 1 /\ \A i \in 1..Len(u) : u[i] = s[i + 1]
  BY HeadTailProperties
<1>2. Head(s) = s[1] /\ Head(s) \in T
  BY HeadTailProperties
<1>3. Len(s) \in Nat \ {0}
  BY EmptySeq, LenProperties
<1>. HIDE DEF u
<1>4. Named(s) = Named(u) \cup {s[1].name}
  <2>1. ASSUME NEW n \in Named(s) PROVE n \in Named(u) \cup {s[1].name}
    <3>1. PICK i \in 1..Len(s) : n = s[i].name
      BY DEF Named
    <3>2. CASE i # 1
      <4>1. i - 1 \in 1..Len(u) /\ u[i - 1] = s[i]
        BY <1>1, <1>3, <3>2
      <4>. QED BY <3>1, <4>1 DEF Named
    <3>. QED BY <3>1, <3>2
  <2>2. ASSUME NEW n \in Named(u) PROVE n \in Named(s)
    <3>1. PICK i \in 1..Len(u) : n = u[i].name
      BY DEF Named
    <3>2. i + 1 \in 1..Len(s) /\ u[i] = s[i + 1]
      BY <1>1, <1>3
    <3>. QED BY <3>1, <3>2 DEF Named
  <2>3. s[1].name \in Named(s)
    BY <1>3 DEF Named
  <2>. QED BY <2>1, <2>2, <2>3
<1>. QED BY <1>1, <1>2, <1>3, <1>4 DEF u

LEMMA TailPlaces ==
    ASSUME NEW T, NEW s \in Seq(T), s # <<>>
    PROVE  /\ \A i \in 1..Len(s) - 1 : LastOf(Tail(s), i) => LastOf(s, i + 1)
           /\ \A i \in 1..Len(s) - 1 : FirstOf(s, i + 1) => FirstOf(Tail(s), i)
           /\ \A i \in 1..Len(s) - 1 :
                 FirstOf(Tail(s), i) => FirstOf(s, i + 1) \/ Adjacent(s, 1, i + 1)
           /\ \A i, j : Adjacent(Tail(s), i, j) => Adjacent(s, i + 1, j + 1)
           /\ FirstOf(s, 1)
           /\ Head(s).name \notin Named(Tail(s)) => LastOf(s, 1)
<1>. DEFINE u == Tail(s)
<1>1. /\ Len(u) = Len(s) - 1 /\ Len(s) \in Nat \ {0} /\ Head(s) = s[1]
      /\ \A i \in 1..Len(s) - 1 : u[i] = s[i + 1]
  BY TailFacts
<1>2. \A j \in 1..Len(s) : j = 1 \/ (j - 1 \in 1..Len(s) - 1 /\ u[j - 1] = s[j])
  BY <1>1
<1>. HIDE DEF u
<1>3. ASSUME NEW i \in 1..Len(s) - 1, LastOf(u, i) PROVE LastOf(s, i + 1)
  <2>1. ASSUME NEW j \in 1..Len(s), j > i + 1 PROVE s[j].name # s[i + 1].name
    <3>1. j - 1 \in 1..Len(u) /\ j - 1 > i /\ u[j - 1] = s[j] /\ u[i] = s[i + 1]
      BY <1>1, <1>2, <2>1
    <3>. QED BY <1>3, <3>1 DEF LastOf
  <2>. QED BY <1>1, <2>1 DEF LastOf
<1>4. ASSUME NEW i \in 1..Len(s) - 1, FirstOf(s, i + 1) PROVE FirstOf(u, i)
  BY <1>1, <1>4 DEF FirstOf
<1>5. ASSUME NEW i \in 1..Len(s) - 1, FirstOf(u, i) PROVE FirstOf(s, i + 1) \/ Adjacent(s, 1, i + 1)
  <2>1. ASSUME NEW j \in 1..Len(s), j < i + 1, j # 1 PROVE s[j].name # s[i + 1].name
    <3>1. j - 1 \in 1..Len(u) /\ j - 1 < i /\ u[j - 1] = s[j] /\ u[i] = s[i + 1]
      BY <1>1, <1>2, <2>1
    <3>. QED BY <1>5, <3>1 DEF FirstOf
  <2>2. CASE s[1].name = s[i + 1].name
    BY <1>1, <2>1, <2>2 DEF Adjacent
  <2>3. CASE s[1].name # s[i + 1].name
    BY <1>1, <2>1, <2>3 DEF FirstOf
  <2>. QED BY <2>2, <2>3
<1>6. ASSUME NEW i, NEW j, Adjacent(u, i, j) PROVE Adjacent(s, i + 1, j + 1)
  <2>1. /\ i \in 1..Len(s) - 1 /\ j \in 1..Len(s) - 1 /\ i < j
        /\ s[i + 1].name = s[j + 1].name
    BY <1>1, <1>6 DEF Adjacent
  <2>2. ASSUME NEW k \in 1..Len(s), i + 1 < k, k < j + 1 PROVE s[k].name # s[j + 1].name
    <3>1. k - 1 \in 1..Len(u) /\ i < k - 1 /\ k - 1 < j /\ u[k - 1] = s[k] /\ u[j] = s[j + 1]
      BY <1>1, <1>2, <2>1, <2>2
    <3>. QED BY <1>6, <3>1 DEF Adjacent
  <2>. QED BY <1>1, <2>1, <2>2 DEF Adjacent
<1>7. FirstOf(s, 1)
  BY <1>1 DEF FirstOf
<1>8. s[1].name \notin Named(u) => LastOf(s, 1)
  <2>1. ASSUME NEW j \in 1..Len(s), j > 1 PROVE s[j].name \in Named(u)
    <3>1. j - 1 \in 1..Len(u) /\ u[j - 1] = s[j]
      BY <1>1, <1>2, <2>1
    <3>. QED BY <3>1 DEF Named
  <2>. QED BY <1>1, <2>1 DEF LastOf
<1>. QED BY <1>1, <1>3, <1>4, <1>5, <1>6, <1>7, <1>8 DEF u

(* The changes of a pass.                                                    *)
LEMMA ChangesAre ==
    ASSUME NEW from \in [Names -> State], NEW to \in [Names -> State]
    PROVE  /\ \A c \in Changes(from, to) :
                 /\ c \in Told /\ c.name \in Names /\ c.to = to[c.name]
                 /\ from[c.name] # to[c.name]
                 /\ c.kind = "Discovered" <=> from[c.name] = Absent
                 /\ c.kind = "Gone" <=> to[c.name] = Absent
           /\ \A c, d \in Changes(from, to) : c.name = d.name => c = d
           /\ \A n \in Names : from[n] # to[n] /\ origin[n] # "prospero" =>
                 \E c \in Changes(from, to) : c.name = n
<1>1. ASSUME NEW c \in Changes(from, to)
      PROVE  /\ c.name \in Names /\ c = Change(c.name, from[c.name], to[c.name])
             /\ from[c.name] # to[c.name]
  BY DEF Changes, Change
<1>2. ASSUME NEW n \in Names, from[n] # to[n]
      PROVE  /\ Change(n, from[n], to[n]) \in Told
             /\ Change(n, from[n], to[n]).to = to[n] /\ Change(n, from[n], to[n]).name = n
             /\ Change(n, from[n], to[n]).kind = "Discovered" <=> from[n] = Absent
             /\ Change(n, from[n], to[n]).kind = "Gone" <=> to[n] = Absent
  BY <1>2 DEF Change, Told, State, Absent
<1>3. ASSUME NEW n \in Names, from[n] # to[n], origin[n] # "prospero"
      PROVE  Change(n, from[n], to[n]) \in Changes(from, to)
  BY <1>3 DEF Changes
<1>. QED BY <1>1, <1>2, <1>3

(***************************************************************************)
(* The steps.                                                               *)
(***************************************************************************)
LEMMA WatchInvInit == WatchInit => WatchInv
<1>. SUFFICES ASSUME WatchInit PROVE WatchInv
  OBVIOUS
<1>1. PICK w \in Watches : backend = w.backend /\ moves = w.moves
  BY DEF WatchInit
<1>2. backend \in {"k8s", "local"} /\ moves \in Nat
  BY <1>1, WatchesAssumption
<1>3. /\ watcher \in {"none", "closed"} /\ ~ Listens
      /\ fleet = Nowhere /\ found = Nowhere /\ known = Nowhere /\ view = Nowhere
      /\ unsent = {} /\ feed = <<>> /\ overrun = FALSE /\ seen = {} /\ repeated = FALSE
      /\ origin = [n \in Names |-> "none"] /\ left = {} /\ unheard = {}
  BY DEF WatchInit, Listens
<1>4. Nowhere \in [Names -> State]
  BY DEF Nowhere, State
<1>5. feed \in Seq(Told) /\ Len(feed) = 0
  BY <1>3
<1>6. WatchTypes
  <2>1. WatchTypeOK
    <3>1. \A f \in {fleet, found, known, view} : f \in [Names -> State]
      BY <1>3, <1>4
    <3>2. Len(feed) <= Capacity
      BY <1>5, CapacityAssumption
    <3>3. overrun \in BOOLEAN /\ seen \subseteq Names /\ left \subseteq Names /\ unheard \subseteq Names
      BY <1>3
    <3>4. unsent \subseteq [name : Names, to : State, kind : {"Discovered", "Gone", "StatusChanged"}]
      BY <1>3
    <3>. QED BY <3>1, <3>2, <3>3, <3>4, Zenon DEF WatchTypeOK
  <2>2. origin \in [Names -> {"none", "prospero", "other"}] /\ \A n \in Names : origin[n] = "none"
    BY <1>3
  <2>. QED BY <1>2, <1>3, <1>5, <2>1, <2>2 DEF WatchTypes, K8s
<1>7. PassOnce /\ LastIsFound /\ GoneBetween
  BY <1>3, <1>5 DEF PassOnce, LastIsFound, GoneBetween
<1>. QED BY <1>3, <1>6, <1>7 DEF WatchInv, Stayers, KeepsUp, Heard, Listens

(* Sending: the change stands last, in a full channel for the oldest one.    *)
LEMMA Sends ==
    ASSUME WatchTypes, NEW c \in unsent,
           IF ~ Listens THEN UNCHANGED <<feed, overrun, unheard>>
           ELSE IF Len(feed) < Capacity
           THEN feed' = Append(feed, c) /\ UNCHANGED <<overrun, unheard>>
           ELSE /\ feed' = Append(Tail(feed), c) /\ overrun' = TRUE
                /\ unheard' = unheard \cup {Head(feed).name}
    PROVE  /\ feed' \in Seq(Told) /\ Len(feed') <= Capacity
           /\ overrun' \in BOOLEAN /\ unheard' \subseteq Names
           /\ ~ Listens => feed' = feed /\ overrun' = overrun /\ unheard' = unheard
<1>1. /\ feed \in Seq(Told) /\ c \in Told /\ Len(feed) <= Capacity /\ Capacity \in Nat \ {0}
      /\ overrun \in BOOLEAN /\ unheard \subseteq Names
  BY CapacityAssumption DEF WatchTypes, WatchTypeOK
<1>2. CASE ~ Listens
  BY <1>1, <1>2
<1>3. CASE Listens /\ Len(feed) < Capacity
  <2>1. feed' = Append(feed, c) /\ UNCHANGED <<overrun, unheard>>
    BY <1>3
  <2>2. Append(feed, c) \in Seq(Told) /\ Len(Append(feed, c)) = Len(feed) + 1 /\ Len(feed) \in Nat
    BY <1>1, AppendFacts, LenProperties
  <2>. QED BY <1>1, <1>3, <2>1, <2>2
<1>4. CASE Listens /\ ~ (Len(feed) < Capacity)
  <2>1. /\ feed' = Append(Tail(feed), c) /\ overrun' = TRUE
        /\ unheard' = unheard \cup {Head(feed).name}
    BY <1>4
  <2>2. feed # <<>>
    BY <1>1, <1>4, EmptySeq
  <2>3. /\ Tail(feed) \in Seq(Told) /\ Len(Tail(feed)) = Len(feed) - 1 /\ Len(feed) \in Nat \ {0}
        /\ Head(feed) \in Told
    BY <1>1, <2>2, TailFacts
  <2>4. Append(Tail(feed), c) \in Seq(Told) /\ Len(Append(Tail(feed), c)) = Len(feed) - 1 + 1
    BY <1>1, <2>3, AppendFacts
  <2>5. Head(feed).name \in Names
    BY <2>3 DEF Told
  <2>. QED BY <1>1, <1>4, <2>1, <2>3, <2>4, <2>5
<1>. QED BY <1>2, <1>3, <1>4

LEMMA Received ==
    ASSUME WatchTypes, NEW c, Receives(c)
    PROVE  /\ watcher = "live" /\ ~ overrun /\ feed # <<>> /\ feed' = Tail(feed)
           /\ c = feed[1] /\ c \in Told /\ c.name \in Names /\ c.to \in State
           /\ feed' \in Seq(Told) /\ Len(feed') = Len(feed) - 1 /\ Len(feed) \in Nat \ {0}
<1>1. watcher = "live" /\ ~ overrun /\ feed # <<>> /\ feed' = Tail(feed) /\ c = Head(feed)
  BY DEF Receives
<1>2. feed \in Seq(Told)
  BY DEF WatchTypes
<1>. QED BY <1>1, <1>2, TailFacts DEF Told

LEMMA WatchTypesStep == WatchTypes /\ [WatchNext]_watchVars => WatchTypes'
<1>. SUFFICES ASSUME WatchTypes, [WatchNext]_watchVars PROVE WatchTypes'
  OBVIOUS
<1>. USE DEF WatchTypes, WatchTypeOK, Listens, K8s
<1>1. CASE FleetMoves
  <2>1. PICK n \in Names, s \in State :
           /\ fleet' = [fleet EXCEPT ![n] = s]
           /\ origin' = origin \/ (~ K8s /\ \E who \in {"prospero", "other"} :
                                        origin' = [origin EXCEPT ![n] = who])
    BY <1>1, Zenon DEF FleetMoves
  <2>2. moves' \in Nat /\ fleet' \in [Names -> State]
    BY <1>1, <2>1 DEF FleetMoves
  <2>3. origin' \in [Names -> {"none", "prospero", "other"}] /\ (K8s => origin' = origin)
    BY <2>1
  <2>. QED BY <1>1, <2>2, <2>3 DEF FleetMoves
<1>2. CASE Observe
  <2>1. \A c \in Changes(known, fleet) : c \in Told
    BY ChangesAre
  <2>. QED BY <1>2, <2>1 DEF Observe, Told, There
<1>3. CASE WriteSnapshotLate
  BY <1>3 DEF WriteSnapshotLate
<1>4. CASE Send
  <2>1. PICK c \in unsent :
           /\ unsent' = unsent \ {c}
           /\ IF ~ Listens THEN UNCHANGED <<feed, overrun, unheard>>
              ELSE IF Len(feed) < Capacity
              THEN feed' = Append(feed, c) /\ UNCHANGED <<overrun, unheard>>
              ELSE /\ feed' = Append(Tail(feed), c) /\ overrun' = TRUE
                   /\ unheard' = unheard \cup {Head(feed).name}
    BY <1>4, Zenon DEF Send
  <2>2. /\ feed' \in Seq(Told) /\ Len(feed') <= Capacity
        /\ overrun' \in BOOLEAN /\ unheard' \subseteq Names
        /\ ~ Listens => feed' = feed /\ overrun' = overrun /\ unheard' = unheard
    BY <2>1, Sends, Zenon
  <2>. QED BY <1>4, <2>1, <2>2 DEF Send
<1>5. CASE Subscribe
  BY <1>5 DEF Subscribe, Told
<1>6. CASE Seed
  BY <1>6 DEF Seed, There
<1>7. ASSUME NEW c, PassOn(c) PROVE WatchTypes'
  <2>1. Receives(c)
    BY <1>7 DEF PassOn
  <2>2. /\ watcher = "live" /\ c.name \in Names /\ c.to \in State
        /\ feed' \in Seq(Told) /\ Len(feed') <= Capacity
    BY <2>1, Received, CapacityAssumption
  <2>3. view' \in [Names -> State] /\ repeated' \in BOOLEAN
    BY <1>7, <2>2 DEF PassOn, Tells
  <2>. QED BY <1>7, <2>2, <2>3 DEF PassOn, Tells
<1>8. ASSUME NEW c, Translate(c) PROVE WatchTypes'
  <2>1. Receives(c)
    BY <1>8 DEF Translate
  <2>2. /\ watcher = "live" /\ c.name \in Names /\ c.to \in State
        /\ feed' \in Seq(Told) /\ Len(feed') <= Capacity
    BY <2>1, Received, CapacityAssumption
  <2>3. view' \in [Names -> State] /\ repeated' \in BOOLEAN /\ unheard' \subseteq Names
    <3>1. \/ UNCHANGED unheard /\ \E s \in {c.to, known[c.name]} : Tells(c, s)
          \/ unheard' = unheard \cup {c.name} /\ UNCHANGED <<view, repeated>>
      BY <1>8, Zenon DEF Translate
    <3>2. known[c.name] \in State
      BY <2>2
    <3>3. \A s \in State : Tells(c, s) => view' \in [Names -> State]
      BY <2>2 DEF Tells
    <3>4. \A s \in State : Tells(c, s) => repeated' \in BOOLEAN
      BY DEF Tells
    <3>. QED BY <2>2, <3>1, <3>2, <3>3, <3>4
  <2>4. UNCHANGED <<backend, fleet, found, known, unsent, watcher, overrun, seen, origin, left,
                    moves>>
    BY <1>8, Zenon DEF Translate
  <2>5. WatchTypeOK'
    BY <2>2, <2>3, <2>4
  <2>. QED BY <2>2, <2>3, <2>4, <2>5
<1>9. CASE Relist
  <2>1. view' \in [Names -> State] /\ seen' \subseteq Names
    BY <1>9 DEF Relist, There
  <2>. QED BY <1>9, <2>1 DEF Relist
<1>10. CASE UNCHANGED watchVars
  BY <1>10 DEF watchVars
<1>. QED BY <1>1, <1>2, <1>3, <1>4, <1>5, <1>6, <1>7, <1>8, <1>9, <1>10, Zenon
     DEF WatchNext, Loop, Watch

(* What a send does to the channel.                                          *)
Puts(c, base) ==
    /\ c \in unsent /\ unsent' = unsent \ {c}
    /\ Listens /\ base \in Seq(Told) /\ feed' = Append(base, c)
    /\ \/ base = feed /\ overrun' = overrun /\ unheard' = unheard
       \/ /\ feed # <<>> /\ base = Tail(feed)
          /\ overrun' = TRUE /\ unheard' = unheard \cup {Head(feed).name}

LEMMA SendPuts ==
    ASSUME WatchTypes, Send
    PROVE  /\ UNCHANGED <<backend, fleet, found, known, watcher, seen, view, origin, left, repeated>>
           /\ \/ \E c, base : Puts(c, base)
              \/ ~ Listens /\ UNCHANGED <<feed, overrun, unheard>> /\ unsent' \subseteq unsent
<1>1. PICK c \in unsent :
         /\ unsent' = unsent \ {c}
         /\ IF ~ Listens THEN UNCHANGED <<feed, overrun, unheard>>
            ELSE IF Len(feed) < Capacity
            THEN feed' = Append(feed, c) /\ UNCHANGED <<overrun, unheard>>
            ELSE /\ feed' = Append(Tail(feed), c) /\ overrun' = TRUE
                 /\ unheard' = unheard \cup {Head(feed).name}
  BY Zenon DEF Send, Listens
<1>2. UNCHANGED <<backend, fleet, found, known, watcher, seen, view, origin, left, repeated>>
  BY DEF Send
<1>3. feed \in Seq(Told) /\ Capacity \in Nat \ {0}
  BY CapacityAssumption DEF WatchTypes
<1>4. CASE ~ Listens
  BY <1>1, <1>2, <1>4
<1>5. CASE Listens /\ Len(feed) < Capacity
  <2>1. Puts(c, feed)
    BY <1>1, <1>3, <1>5 DEF Puts
  <2>. QED BY <1>2, <2>1
<1>6. CASE Listens /\ ~ (Len(feed) < Capacity)
  <2>1. feed # <<>> /\ Tail(feed) \in Seq(Told)
    <3>1. feed # <<>>
      BY <1>3, <1>6, EmptySeq
    <3>. QED BY <1>3, <3>1, TailFacts
  <2>2. Puts(c, Tail(feed))
    BY <1>1, <1>6, <2>1 DEF Puts
  <2>. QED BY <1>2, <2>2
<1>. QED BY <1>4, <1>5, <1>6

(* The changes of one name after a send: those of the rest, and the new one. *)
LEMMA PutKeepsPending ==
    ASSUME WatchTypes, PassOnce, NEW c, NEW base, Puts(c, base)
    PROVE  /\ c \in Told /\ base \in Seq(Told) /\ Named(feed') = Named(base) \cup {c.name}
           /\ Len(feed') = Len(base) + 1 /\ Len(base) \in Nat /\ feed'[Len(base) + 1] = c
           /\ \A i \in 1..Len(base) : feed'[i] = base[i]
           /\ Named(base) \subseteq Named(feed)
           /\ \A n \in Named(feed) \ Named(base) : n \in unheard'
           /\ \A d \in unsent' : d \in unsent /\ d.name # c.name
           /\ \A d \in unsent : d = c \/ d \in unsent'
<1>1. c \in Told /\ base \in Seq(Told) /\ feed' = Append(base, c) /\ feed \in Seq(Told)
  BY DEF Puts, WatchTypes
<1>2. /\ Named(feed') = Named(base) \cup {c.name} /\ Len(feed') = Len(base) + 1
      /\ Len(base) \in Nat /\ feed'[Len(base) + 1] = c /\ \A i \in 1..Len(base) : feed'[i] = base[i]
  BY <1>1, AppendFacts, LenProperties
<1>3. base = feed \/ (feed # <<>> /\ base = Tail(feed) /\ Head(feed).name \in unheard')
  BY DEF Puts
<1>4. Named(base) \subseteq Named(feed) /\ \A n \in Named(feed) \ Named(base) : n \in unheard'
  <2>1. CASE base = feed
    BY <2>1
  <2>2. CASE feed # <<>> /\ base = Tail(feed) /\ Head(feed).name \in unheard'
    <3>1. Named(feed) = Named(base) \cup {Head(feed).name}
      BY <1>1, <2>2, TailFacts
    <3>. QED BY <2>2, <3>1
  <2>. QED BY <1>3, <2>1, <2>2
<1>5. /\ \A d \in unsent' : d \in unsent /\ d.name # c.name
      /\ \A d \in unsent : d = c \/ d \in unsent'
  BY DEF Puts, PassOnce
<1>. QED BY <1>1, <1>2, <1>4, <1>5

(* Where the changes of the rest stand in the channel before the send.       *)
LEMMA PutPlaces ==
    ASSUME WatchTypes, NEW c, NEW base, Puts(c, base), NEW i \in 1..Len(base), LastOf(base, i)
    PROVE  \E k \in 1..Len(feed) : LastOf(feed, k) /\ feed[k] = base[i]
<1>1. feed \in Seq(Told) /\ base \in Seq(Told)
  BY DEF Puts, WatchTypes
<1>2. CASE base = feed
  BY <1>2
<1>3. CASE feed # <<>> /\ base = Tail(feed)
  <2>1. Len(base) = Len(feed) - 1 /\ Len(feed) \in Nat \ {0} /\ base[i] = feed[i + 1]
    BY <1>1, <1>3, TailFacts
  <2>2. LastOf(feed, i + 1)
    BY <1>1, <1>3, <2>1, TailPlaces
  <2>. QED BY <2>1, <2>2
<1>. QED BY <1>2, <1>3 DEF Puts

LEMMA PassOnceStep == WatchTypes /\ PassOnce /\ [WatchNext]_watchVars => PassOnce'
<1>. SUFFICES ASSUME WatchTypes, PassOnce, [WatchNext]_watchVars PROVE PassOnce'
  OBVIOUS
<1>1. CASE Observe
  <2>1. known \in [Names -> State] /\ fleet \in [Names -> State] /\ unsent' = Changes(known, fleet)
    BY <1>1 DEF Observe, WatchTypes, WatchTypeOK
  <2>2. K8s' = K8s /\ (~ K8s => known' = known)
    BY <1>1 DEF Observe, K8s
  <2>. QED BY <2>1, <2>2, ChangesAre DEF PassOnce
<1>2. CASE /\ unsent' \subseteq unsent /\ backend' = backend
           /\ unsent = {} \/ known' = known
  BY <1>2 DEF PassOnce, K8s
<1>3. \/ Observe
      \/ /\ unsent' \subseteq unsent /\ backend' = backend
         /\ unsent = {} \/ known' = known
  BY DEF WatchNext, watchVars, Loop, Watch, FleetMoves, WriteSnapshotLate, Send, Subscribe, Seed,
         PassOn, Translate, Relist
<1>. QED BY <1>1, <1>2, <1>3

(* Nobody becomes the starter of an agent that has one.                      *)
LEMMA OriginStays ==
    ASSUME WatchTypes, [WatchNext]_watchVars
    PROVE  \A n \in Names : origin[n] = "prospero" => origin'[n] = "prospero"
<1>1. CASE FleetMoves
  <2>1. PICK n \in Names :
           \/ origin' = origin
           \/ origin[n] = "none" /\ \E who \in {"prospero", "other"} :
                                        origin' = [origin EXCEPT ![n] = who]
    BY <1>1, Zenon DEF FleetMoves
  <2>. QED BY <2>1 DEF WatchTypes
<1>2. CASE origin' = origin
  BY <1>2
<1>3. FleetMoves \/ origin' = origin
  BY DEF WatchNext, watchVars, Loop, Watch, Observe, WriteSnapshotLate, Send, Subscribe, Seed,
         PassOn, Translate, Relist
<1>. QED BY <1>1, <1>2, <1>3

LEMMA LastIsFoundStep ==
    WatchTypes /\ PassOnce /\ LastIsFound /\ [WatchNext]_watchVars => LastIsFound'
<1>. SUFFICES ASSUME WatchTypes, PassOnce, LastIsFound, [WatchNext]_watchVars PROVE LastIsFound'
  OBVIOUS
<1>0. /\ feed \in Seq(Told) /\ known \in [Names -> State] /\ fleet \in [Names -> State]
      /\ \A n \in Names : origin[n] = "prospero" => origin'[n] = "prospero"
      /\ \A i \in 1..Len(feed) : feed[i].name \in Names
  <2>1. \A i \in 1..Len(feed) : feed[i] \in Told
    BY ElementOfSeq DEF WatchTypes
  <2>. QED BY <2>1, OriginStays DEF WatchTypes, WatchTypeOK, Told
<1>1. CASE Observe
  <2>1. unsent = {} /\ known = found /\ found' = fleet /\ unsent' = Changes(known, fleet)
        /\ feed' = feed /\ origin' = origin
    BY <1>1 DEF Observe
  <2>2. \A c \in unsent' : c.to = found'[c.name]
    BY <1>0, <2>1, ChangesAre
  <2>3. ASSUME NEW i \in 1..Len(feed), LastOf(feed, i),
               \A d \in unsent' : d.name # feed[i].name, origin[feed[i].name] # "prospero"
        PROVE  feed[i].to = found'[feed[i].name]
    <3>1. known[feed[i].name] = fleet[feed[i].name]
      BY <1>0, <2>1, <2>3, ChangesAre
    <3>2. feed[i].to = found[feed[i].name]
      BY <2>1, <2>3 DEF LastIsFound, Unsent
    <3>. QED BY <2>1, <3>1, <3>2
  <2>. QED BY <2>1, <2>2, <2>3 DEF LastIsFound, Unsent
<1>2. ASSUME UNCHANGED <<feed, found>>, unsent' = unsent
      PROVE  LastIsFound'
  BY <1>0, <1>2 DEF LastIsFound, Unsent
<1>3. CASE Send
  <2>1. ASSUME NEW c, NEW base, Puts(c, base) PROVE LastIsFound'
    <3>1. /\ c \in Told /\ base \in Seq(Told) /\ feed' = Append(base, c) /\ c \in unsent
          /\ Len(feed') = Len(base) + 1 /\ Len(base) \in Nat /\ feed'[Len(base) + 1] = c
          /\ \A i \in 1..Len(base) : feed'[i] = base[i]
          /\ \A d \in unsent' : d \in unsent /\ d.name # c.name
          /\ \A d \in unsent : d = c \/ d \in unsent'
      BY <2>1, PutKeepsPending DEF Puts
    <3>2. found' = found /\ origin' = origin
      BY <1>3, SendPuts
    <3>3. ASSUME NEW i \in 1..Len(feed'), LastOf(feed', i), origin'[feed'[i].name] # "prospero",
                 \A d \in unsent' : d.name # feed'[i].name
          PROVE  feed'[i].to = found'[feed'[i].name]
      <4>1. CASE i = Len(base) + 1
        BY <3>1, <3>2, <4>1 DEF LastIsFound
      <4>2. CASE i \in 1..Len(base)
        <5>1. LastOf(base, i) /\ base[i].name # c.name /\ feed'[i] = base[i]
          BY <3>1, <3>3, <4>2, AppendPlaces
        <5>2. PICK k \in 1..Len(feed) : LastOf(feed, k) /\ feed[k] = base[i]
          BY <2>1, <4>2, <5>1, PutPlaces
        <5>3. ~ Unsent(feed[k].name)
          BY <3>1, <3>3, <5>1, <5>2 DEF Unsent
        <5>. QED BY <3>2, <3>3, <5>1, <5>2, <5>3 DEF LastIsFound
      <4>. QED BY <3>1, <4>1, <4>2
    <3>4. \A d \in unsent' : d.to = found'[d.name]
      BY <3>1, <3>2 DEF LastIsFound
    <3>. QED BY <3>3, <3>4 DEF LastIsFound, Unsent
  <2>2. CASE feed' = feed /\ unsent' \subseteq unsent /\ ~ Listens
    <3>1. feed = <<>> /\ Len(feed) = 0 /\ found' = found
      BY <1>3, <2>2, SendPuts DEF WatchTypes
    <3>. QED BY <2>2, <3>1 DEF LastIsFound
  <2>. QED BY <1>3, <2>1, <2>2, SendPuts
<1>4. ASSUME NEW c, PassOn(c) \/ Translate(c) PROVE LastIsFound'
  <2>1. Receives(c) /\ found' = found /\ unsent' = unsent /\ origin' = origin
    BY <1>4 DEF PassOn, Translate
  <2>2. feed # <<>> /\ feed' = Tail(feed)
    BY <2>1, Received
  <2>3. Len(feed') = Len(feed) - 1 /\ Len(feed) \in Nat \ {0}
        /\ \A i \in 1..Len(feed) - 1 : feed'[i] = feed[i + 1]
    BY <1>0, <2>2, TailFacts
  <2>4. ASSUME NEW i \in 1..Len(feed'), LastOf(feed', i) PROVE LastOf(feed, i + 1)
    BY <1>0, <2>2, <2>3, <2>4, TailPlaces
  <2>. QED BY <2>1, <2>3, <2>4 DEF LastIsFound, Unsent
<1>. QED
  <2>1. CASE FleetMoves
    BY <1>2, <2>1 DEF FleetMoves
  <2>2. CASE WriteSnapshotLate \/ Subscribe \/ Seed \/ Relist \/ UNCHANGED watchVars
    BY <1>2, <2>2 DEF WriteSnapshotLate, Subscribe, Seed, Relist, watchVars
  <2>. QED BY <1>1, <1>3, <1>4, <2>1, <2>2, Zenon DEF WatchNext, Loop, Watch

(* What a subscriber of K8sFleet knows of an agent that stays, step by step. *)
LEMMA StaysObserve ==
    ASSUME WatchInv, Observe, K8s, Listens, NEW n \in Names \ left'
    PROVE  Stays(n)'
<1>1. /\ unsent = {} /\ unsent' = Changes(known, fleet) /\ known' = fleet
      /\ left' = left \cup (There(known) \ There(fleet))
      /\ UNCHANGED <<watcher, feed, overrun, seen, view>>
  BY DEF Observe, Listens
<1>2. n \in Names \ left /\ (known[n] # Absent => fleet[n] # Absent)
  BY <1>1 DEF There
<1>3. Stays(n)
  BY <1>2 DEF WatchInv, Stayers
<1>4. /\ known \in [Names -> State] /\ fleet \in [Names -> State] /\ origin[n] = "none"
  BY DEF WatchInv, WatchTypes, WatchTypeOK
<1>5. ASSUME NEW c \in unsent', c.name = n
      PROVE  /\ known[n] # fleet[n] /\ c.kind # "Gone"
             /\ c.kind = "Discovered" <=> known[n] = Absent
  BY <1>1, <1>2, <1>4, <1>5, ChangesAre
<1>6. known[n] # fleet[n] => \E c \in unsent' : c.name = n
  BY <1>1, <1>4, ChangesAre
<1>7. ~ Unsent(n)
  BY <1>1 DEF Unsent
<1>. QED BY <1>1, <1>2, <1>3, <1>5, <1>6, <1>7 DEF Stays, Pending, Unsent

LEMMA StaysSubscribe ==
    ASSUME WatchInv, Subscribe, K8s, NEW n \in Names \ left'
    PROVE  Stays(n)'
<1>1. /\ watcher = "none" /\ watcher' = "subscribed"
      /\ left' = {c.name : c \in {d \in unsent : d.kind = "Gone"}}
      /\ UNCHANGED <<unsent, feed, known, overrun, seen, view>>
  BY DEF Subscribe
<1>2. feed = <<>> /\ Len(feed) = 0 /\ Named(feed) = {} /\ seen = {} /\ known = found
  BY <1>1 DEF WatchInv, WatchTypes, Listens, Named
<1>3. ASSUME NEW c \in unsent, c.name = n PROVE c.kind # "Gone" /\ known[n] # Absent
  <2>1. c.to = known[n] /\ c \in Told
    BY <1>2, <1>3 DEF WatchInv, WatchTypes, LastIsFound
  <2>. QED BY <1>1, <1>3, <2>1 DEF Told
<1>. QED BY <1>1, <1>2, <1>3 DEF Stays, Pending, Unsent

LEMMA StaysSend ==
    ASSUME WatchInv, Send, K8s, Listens, NEW n \in Names \ left'
    PROVE  Stays(n)'
<1>1. UNCHANGED <<known, watcher, seen, view, left>> /\ \E c, base : Puts(c, base)
  BY SendPuts DEF WatchInv
<1>2. PICK c, base : Puts(c, base)
  BY <1>1
<1>3. Stays(n)
  BY <1>1 DEF WatchInv, Stayers
<1>4. /\ c \in unsent /\ base \in Seq(Told) /\ Named(feed') = Named(base) \cup {c.name}
      /\ Len(feed') = Len(base) + 1 /\ Len(base) \in Nat /\ feed'[Len(base) + 1] = c
      /\ \A i \in 1..Len(base) : feed'[i] = base[i]
      /\ Named(base) \subseteq Named(feed) /\ feed' = Append(base, c)
      /\ \A d \in unsent' : d \in unsent /\ d.name # c.name
      /\ \A d \in unsent : d = c \/ d \in unsent'
  BY <1>2, PutKeepsPending DEF Puts, WatchInv
<1>5. ASSUME NEW i \in 1..Len(base)
      PROVE  \E k \in 1..Len(feed) : feed[k] = base[i] /\ (FirstOf(feed, k) => FirstOf(base, i))
  <2>1. CASE base = feed
    BY <2>1
  <2>2. CASE feed # <<>> /\ base = Tail(feed)
    <3>1. feed \in Seq(Told)
      BY DEF WatchInv, WatchTypes
    <3>2. Len(base) = Len(feed) - 1 /\ Len(feed) \in Nat \ {0} /\ base[i] = feed[i + 1]
      BY <2>2, <3>1, TailFacts
    <3>3. FirstOf(feed, i + 1) => FirstOf(base, i)
      BY <2>2, <3>1, <3>2, TailPlaces
    <3>. QED BY <3>2, <3>3
  <2>. QED BY <1>2, <2>1, <2>2 DEF Puts
<1>6. /\ \A d \in unsent' : d.name = n => d.kind # "Gone"
      /\ \A i \in 1..Len(feed') : feed'[i].name = n => feed'[i].kind # "Gone"
  <2>1. ASSUME NEW i \in 1..Len(feed'), feed'[i].name = n PROVE feed'[i].kind # "Gone"
    <3>1. CASE i \in 1..Len(base)
      BY <1>3, <1>4, <1>5, <2>1, <3>1 DEF Stays
    <3>2. CASE i = Len(base) + 1
      BY <1>3, <1>4, <2>1, <3>2 DEF Stays
    <3>. QED BY <1>4, <3>1, <3>2
  <2>. QED BY <1>3, <1>4, <2>1 DEF Stays
<1>7. known[n] = Absent => c.name # n /\ n \notin Named(feed') /\ ~ Unsent(n)'
  BY <1>3, <1>4 DEF Stays, Pending, Unsent
<1>8. ASSUME NEW d \in unsent', d.name = n, d.kind = "Discovered" PROVE n \notin Named(feed')
  BY <1>3, <1>4, <1>8 DEF Stays
<1>9. ASSUME NEW i \in 1..Len(feed'), feed'[i].name = n, feed'[i].kind = "Discovered"
      PROVE  FirstOf(feed', i)
  <2>1. CASE i \in 1..Len(base)
    <3>1. PICK k \in 1..Len(feed) : feed[k] = base[i] /\ (FirstOf(feed, k) => FirstOf(base, i))
      BY <1>5, <2>1
    <3>2. FirstOf(base, i)
      BY <1>3, <1>4, <1>9, <2>1, <3>1 DEF Stays
    <3>3. c \in Told
      BY <1>4 DEF WatchInv, WatchTypes
    <3>. QED BY <1>4, <2>1, <3>2, <3>3, AppendPlaces
  <2>2. CASE i = Len(base) + 1
    <3>1. c.name \notin Named(base)
      BY <1>3, <1>4, <1>9, <2>2 DEF Stays
    <3>2. c \in Told
      BY <1>4 DEF WatchInv, WatchTypes
    <3>. QED BY <1>4, <2>2, <3>1, <3>2, AppendPlaces
  <2>. QED BY <1>4, <2>1, <2>2
<1>10. ASSUME watcher = "live", ~ overrun'
       PROVE  /\ ~ Pending(n)' => view[n] = known[n]
              /\ n \in seen =>
                   /\ \A d \in unsent' : d.name = n /\ d.kind = "Discovered" => view[n] = known[n]
                   /\ \A i \in 1..Len(feed') :
                         /\ feed'[i].name = n /\ feed'[i].kind = "Discovered"
                         /\ LastOf(feed', i) /\ ~ Unsent(n)'
                         => view[n] = known[n]
  <2>1. base = feed /\ overrun' = overrun
    BY <1>2, <1>10 DEF Puts
  <2>2. ~ Pending(n)' => view[n] = known[n]
    BY <1>3, <1>4, <1>10, <2>1 DEF Stays, Pending, Unsent
  <2>3. ASSUME n \in seen, NEW d \in unsent', d.name = n, d.kind = "Discovered"
        PROVE  view[n] = known[n]
    BY <1>3, <1>4, <1>10, <2>1, <2>3 DEF Stays
  <2>4. ASSUME n \in seen, NEW i \in 1..Len(feed'), feed'[i].name = n,
               feed'[i].kind = "Discovered", LastOf(feed', i), ~ Unsent(n)'
        PROVE  view[n] = known[n]
    <3>1. CASE i = Len(base) + 1
      BY <1>3, <1>4, <1>10, <2>1, <2>4, <3>1 DEF Stays
    <3>2. CASE i \in 1..Len(base)
      <4>1. c \in Told
        BY <1>4 DEF WatchInv, WatchTypes
      <4>2. LastOf(feed, i) /\ feed[i].name # c.name /\ feed'[i] = feed[i]
        BY <1>4, <2>1, <2>4, <3>2, <4>1, AppendPlaces
      <4>3. ~ Unsent(n)
        BY <1>4, <2>4, <4>2 DEF Unsent
      <4>. QED BY <1>3, <1>10, <2>1, <2>4, <3>2, <4>2, <4>3 DEF Stays
    <3>. QED BY <1>4, <3>1, <3>2
  <2>. QED BY <2>2, <2>3, <2>4
<1>11. /\ n \in seen => known[n] # Absent
       /\ known[n] = Absent => (watcher = "live" => view[n] = Absent)
  BY <1>3 DEF Stays
<1>. QED BY <1>1, <1>6, <1>7, <1>8, <1>9, <1>10, <1>11 DEF Stays, Pending

LEMMA StaysPassOn ==
    ASSUME WatchInv, NEW c, PassOn(c), NEW n \in Names \ left'
    PROVE  Stays(n)'
<1>1. /\ Receives(c) /\ K8s
      /\ IF c.kind = "Discovered" /\ c.name \in seen
         THEN seen' = seen \ {c.name} /\ view' = view
         ELSE view' = [view EXCEPT ![c.name] = c.to] /\ seen' = seen
      /\ UNCHANGED <<unsent, known, watcher, overrun, left>>
  BY DEF PassOn, Tells
<1>2. /\ watcher = "live" /\ ~ overrun /\ feed # <<>> /\ feed' = Tail(feed)
      /\ c = feed[1] /\ c \in Told /\ c.name \in Names
      /\ Len(feed') = Len(feed) - 1 /\ Len(feed) \in Nat \ {0}
  BY <1>1, Received DEF WatchInv
<1>3. Stays(n)
  BY <1>1, <1>2 DEF WatchInv, Stayers, Listens
<1>4. feed \in Seq(Told) /\ view \in [Names -> State] /\ known = found /\ origin[n] = "none"
  BY <1>1 DEF WatchInv, WatchTypes, WatchTypeOK
<1>5. /\ \A i \in 1..Len(feed') : i + 1 \in 1..Len(feed) /\ feed'[i] = feed[i + 1]
      /\ Named(feed) = Named(feed') \cup {c.name}
      /\ \A i \in 1..Len(feed') : LastOf(feed', i) => LastOf(feed, i + 1)
      /\ \A i \in 1..Len(feed') : FirstOf(feed, i + 1) => FirstOf(feed', i)
      /\ c.name \notin Named(feed') => LastOf(feed, 1)
  <2>1. Head(feed) = c
    BY <1>2, <1>4, TailFacts
  <2>. QED BY <1>2, <1>4, <2>1, TailFacts, TailPlaces
<1>6. /\ \A i \in 1..Len(feed') : feed'[i].name = n => feed'[i].kind # "Gone"
      /\ \A i \in 1..Len(feed') :
            feed'[i].name = n /\ feed'[i].kind = "Discovered" => FirstOf(feed', i)
  BY <1>3, <1>5 DEF Stays
<1>7. CASE c.name # n
  <2>1. /\ view'[n] = view[n] /\ (n \in seen' <=> n \in seen)
        /\ n \in Named(feed') <=> n \in Named(feed)
    BY <1>1, <1>4, <1>5, <1>7
  <2>2. n \in seen => \A i \in 1..Len(feed') :
                         /\ feed'[i].name = n /\ feed'[i].kind = "Discovered"
                         /\ LastOf(feed', i) /\ ~ Unsent(n)
                         => view[n] = known[n]
    BY <1>2, <1>3, <1>5 DEF Stays
  <2>. QED BY <1>1, <1>2, <1>3, <1>6, <2>1, <2>2 DEF Stays, Pending, Unsent
<1>8. CASE c.name = n
  <2>1. n \in Named(feed) /\ known[n] # Absent
    BY <1>3, <1>5, <1>8 DEF Stays, Pending
  <2>2. \A d \in unsent : d.name = n => d.kind # "Discovered"
    BY <1>3, <2>1 DEF Stays
  <2>3. ASSUME NEW i \in 1..Len(feed'), feed'[i].name = n PROVE feed'[i].kind # "Discovered"
    <3>1. ~ FirstOf(feed, i + 1)
      BY <1>2, <1>5, <1>8, <2>3 DEF FirstOf
    <3>. QED BY <1>3, <1>5, <2>3, <3>1 DEF Stays
  <2>4. ASSUME n \notin Named(feed'), ~ Unsent(n) PROVE view'[n] = known[n]
    <3>1. LastOf(feed, 1) /\ 1 \in 1..Len(feed)
      BY <1>2, <1>5, <1>8, <2>4
    <3>2. CASE c.kind = "Discovered" /\ c.name \in seen
      BY <1>1, <1>2, <1>3, <1>8, <2>4, <3>1, <3>2 DEF Stays
    <3>3. CASE ~ (c.kind = "Discovered" /\ c.name \in seen)
      <4>1. c.to = found[n]
        BY <1>2, <1>4, <1>8, <2>4, <3>1 DEF WatchInv, LastIsFound
      <4>. QED BY <1>1, <1>4, <1>8, <3>3, <4>1
    <3>. QED BY <3>2, <3>3
  <2>5. seen' \subseteq seen
    BY <1>1
  <2>. QED BY <1>1, <1>3, <1>6, <2>1, <2>2, <2>3, <2>4, <2>5 DEF Stays, Pending, Unsent
<1>. QED BY <1>7, <1>8

LEMMA StaysListed ==
    ASSUME WatchInv, K8s, Listens, Seed \/ Relist, NEW n \in Names \ left'
    PROVE  Stays(n)'
<1>1. Stays(n) /\ UNCHANGED <<unsent, feed, known>>
  BY DEF WatchInv, Stayers, Seed, Relist
<1>2. view'[n] = known[n] /\ (n \in seen' => known[n] # Absent)
  <2>1. CASE Seed
    BY <2>1 DEF Seed, There
  <2>2. CASE Relist
    BY <1>1, <2>2 DEF Relist, There, Stays
  <2>. QED BY <2>1, <2>2
<1>. QED BY <1>1, <1>2 DEF Stays, Pending, Unsent

LEMMA StayersStep == WatchInv /\ [WatchNext]_watchVars => Stayers'
<1>. SUFFICES ASSUME WatchInv, [WatchNext]_watchVars, K8s', Listens', NEW n \in Names \ left'
              PROVE  Stays(n)'
  BY DEF Stayers
<1>1. K8s
  BY DEF K8s, WatchNext, watchVars, Loop, Watch, FleetMoves, Observe, WriteSnapshotLate, Send,
         Subscribe, Seed, PassOn, Translate, Relist
<1>2. CASE FleetMoves \/ UNCHANGED watchVars
  <2>1. UNCHANGED <<watcher, overrun, unsent, feed, known, seen, view, left>>
    BY <1>2 DEF FleetMoves, watchVars
  <2>. QED BY <1>1, <2>1 DEF WatchInv, Stayers, Stays, Pending, Unsent, Listens
<1>3. CASE Subscribe
  BY <1>1, <1>3, StaysSubscribe
<1>4. ASSUME NEW c, Translate(c) \/ WriteSnapshotLate PROVE FALSE
  BY <1>1, <1>4 DEF Translate, WriteSnapshotLate
<1>5. CASE ~ (FleetMoves \/ UNCHANGED watchVars \/ Subscribe)
  <2>1. Listens
    BY <1>5 DEF Listens, WatchNext, Loop, Watch, Observe, WriteSnapshotLate, Send, Seed, PassOn,
       Translate, Relist
  <2>. QED BY <1>1, <1>4, <1>5, <2>1, StaysObserve, StaysSend, StaysPassOn, StaysListed, Zenon
       DEF WatchNext, Loop, Watch
<1>. QED BY <1>2, <1>3, <1>5

(* A subscriber of K8sFleet that keeps up, step by step.                     *)
LEMMA UpObserve ==
    ASSUME WatchInv, Observe, K8s, unheard = {}
    PROVE  KeepsUp'
<1>1. /\ unsent = {} /\ unsent' = Changes(known, fleet) /\ known' = fleet
      /\ UNCHANGED <<backend, watcher, feed, overrun, seen, view, unheard, repeated>>
  BY DEF Observe, K8s
<1>2. /\ known \in [Names -> State] /\ fleet \in [Names -> State] /\ feed \in Seq(Told)
      /\ known = found /\ \A n \in Names : origin[n] = "none"
  BY DEF WatchInv, WatchTypes, WatchTypeOK
<1>3. /\ ~ repeated /\ ~ overrun /\ GoneBetween
      /\ watcher = "live" => \A n \in Names \ seen : NextIsNew(n)
  BY DEF WatchInv, KeepsUp
<1>4. ASSUME NEW c \in unsent', c.kind = "Discovered"
      PROVE  c.name \in Names /\ known[c.name] = Absent
  BY <1>1, <1>2, <1>4, ChangesAre
<1>5. ASSUME NEW c \in unsent', NEW i \in 1..Len(feed), c.kind = "Discovered",
             LastOf(feed, i), feed[i].name = c.name
      PROVE  feed[i].kind = "Gone"
  <2>1. ~ Unsent(c.name) /\ c.name \in Names /\ known[c.name] = Absent
    BY <1>1, <1>4, <1>5 DEF Unsent
  <2>2. feed[i].to = Absent
    BY <1>2, <1>5, <2>1 DEF WatchInv, LastIsFound
  <2>3. feed[i] \in Told
    BY <1>2, <1>5, ElementOfSeq
  <2>. QED BY <2>2, <2>3 DEF Told
<1>6. GoneBetween'
  BY <1>1, <1>3, <1>5 DEF GoneBetween
<1>7. ASSUME watcher = "live", NEW n \in Names \ seen PROVE NextIsNew(n)'
  <2>1. NextIsNew(n) /\ ~ Unsent(n)
    BY <1>1, <1>3, <1>7 DEF Unsent
  <2>2. known[n] # fleet[n] => \E c \in unsent' : c.name = n
    BY <1>1, <1>2, ChangesAre
  <2>. QED BY <1>1, <1>4, <2>1, <2>2 DEF NextIsNew, Pending, Unsent
<1>. QED BY <1>1, <1>3, <1>6, <1>7 DEF KeepsUp

LEMMA UpSend ==
    ASSUME WatchInv, NEW c, NEW base, Puts(c, base), K8s, unheard' = {},
           UNCHANGED <<backend, known, watcher, seen, view, repeated>>
    PROVE  KeepsUp'
<1>1. base = feed /\ overrun' = overrun /\ unheard = {}
  BY DEF Puts
<1>2. /\ ~ repeated /\ ~ overrun /\ GoneBetween
      /\ watcher = "live" => \A n \in Names \ seen : NextIsNew(n)
  BY <1>1 DEF WatchInv, KeepsUp
<1>3. /\ c \in unsent /\ c \in Told /\ feed \in Seq(Told) /\ feed' = Append(feed, c)
      /\ Named(feed') = Named(feed) \cup {c.name}
      /\ Len(feed') = Len(feed) + 1 /\ Len(feed) \in Nat /\ feed'[Len(feed) + 1] = c
      /\ \A i \in 1..Len(feed) : feed'[i] = feed[i]
      /\ \A d \in unsent' : d \in unsent /\ d.name # c.name
      /\ \A d \in unsent : d = c \/ d \in unsent'
  BY <1>1, PutKeepsPending DEF Puts, WatchInv
<1>4. /\ \A i \in 1..Len(feed) : LastOf(feed', i) => LastOf(feed, i)
      /\ \A i \in 1..Len(feed) : FirstOf(feed', i) => FirstOf(feed, i)
      /\ FirstOf(feed', Len(feed) + 1) => c.name \notin Named(feed)
      /\ \A i, j : Adjacent(feed', i, j) =>
            \/ Adjacent(feed, i, j)
            \/ j = Len(feed) + 1 /\ LastOf(feed, i) /\ feed[i].name = c.name
  BY <1>3, AppendPlaces
<1>5. GoneBetween'
  <2>1. ASSUME NEW i \in 1..Len(feed'), NEW j \in 1..Len(feed'), Adjacent(feed', i, j),
               feed'[j].kind = "Discovered"
        PROVE  feed'[i].kind = "Gone"
    <3>1. CASE Adjacent(feed, i, j)
      <4>1. i \in 1..Len(feed) /\ j \in 1..Len(feed)
        BY <3>1 DEF Adjacent
      <4>. QED BY <1>2, <1>3, <2>1, <3>1, <4>1 DEF GoneBetween
    <3>2. CASE j = Len(feed) + 1 /\ LastOf(feed, i) /\ feed[i].name = c.name
      <4>1. i \in 1..Len(feed)
        BY <3>2 DEF LastOf
      <4>. QED BY <1>2, <1>3, <2>1, <3>2, <4>1 DEF GoneBetween
    <3>. QED BY <1>4, <2>1, <3>1, <3>2
  <2>2. ASSUME NEW d \in unsent', NEW i \in 1..Len(feed'), d.kind = "Discovered",
               LastOf(feed', i), feed'[i].name = d.name
        PROVE  feed'[i].kind = "Gone"
    <3>1. i # Len(feed) + 1 /\ i \in 1..Len(feed)
      BY <1>3, <2>2
    <3>. QED BY <1>2, <1>3, <1>4, <2>2, <3>1 DEF GoneBetween
  <2>. QED BY <2>1, <2>2 DEF GoneBetween
<1>6. ASSUME watcher = "live", NEW n \in Names \ seen PROVE NextIsNew(n)'
  <2>1. NextIsNew(n)
    BY <1>2, <1>6
  <2>2. ASSUME NEW i \in 1..Len(feed'), FirstOf(feed', i), feed'[i].name = n,
               feed'[i].kind = "Discovered"
        PROVE  view[n] = Absent
    <3>1. CASE i = Len(feed) + 1
      BY <1>3, <1>4, <2>1, <2>2, <3>1 DEF NextIsNew
    <3>2. CASE i \in 1..Len(feed)
      BY <1>3, <1>4, <2>1, <2>2, <3>2 DEF NextIsNew
    <3>. QED BY <1>3, <3>1, <3>2
  <2>3. ~ Pending(n)' => ~ Pending(n)
    BY <1>3 DEF Pending, Unsent
  <2>. QED BY <1>3, <2>1, <2>2, <2>3 DEF NextIsNew
<1>. QED BY <1>1, <1>2, <1>5, <1>6 DEF KeepsUp

LEMMA UpPassOn ==
    ASSUME WatchInv, NEW c, PassOn(c), unheard = {}
    PROVE  KeepsUp'
<1>1. /\ Receives(c) /\ K8s
      /\ IF c.kind = "Discovered" /\ c.name \in seen
         THEN seen' = seen \ {c.name} /\ view' = view /\ repeated' = repeated
         ELSE /\ view' = [view EXCEPT ![c.name] = c.to] /\ seen' = seen
              /\ repeated' = (repeated \/ (c.kind = "Discovered" /\ view[c.name] # Absent))
      /\ UNCHANGED <<backend, unsent, known, watcher, overrun, unheard>>
  BY DEF PassOn, Tells
<1>2. /\ watcher = "live" /\ ~ overrun /\ feed # <<>> /\ feed' = Tail(feed)
      /\ c = feed[1] /\ c \in Told /\ c.name \in Names
      /\ Len(feed') = Len(feed) - 1 /\ Len(feed) \in Nat \ {0}
  BY <1>1, Received DEF WatchInv
<1>3. ~ repeated /\ GoneBetween /\ \A n \in Names \ seen : NextIsNew(n)
  BY <1>1, <1>2 DEF WatchInv, KeepsUp
<1>4. feed \in Seq(Told) /\ view \in [Names -> State] /\ known = found /\ origin[c.name] = "none"
  BY <1>1, <1>2 DEF WatchInv, WatchTypes, WatchTypeOK
<1>5. /\ \A i \in 1..Len(feed') : i + 1 \in 1..Len(feed) /\ feed'[i] = feed[i + 1]
      /\ Named(feed) = Named(feed') \cup {c.name}
      /\ \A i \in 1..Len(feed') : LastOf(feed', i) => LastOf(feed, i + 1)
      /\ \A i \in 1..Len(feed') : FirstOf(feed', i) => FirstOf(feed, i + 1) \/ Adjacent(feed, 1, i + 1)
      /\ \A i, j : Adjacent(feed', i, j) => Adjacent(feed, i + 1, j + 1)
      /\ FirstOf(feed, 1) /\ (c.name \notin Named(feed') => LastOf(feed, 1))
      /\ 1 \in 1..Len(feed)
  <2>1. Head(feed) = c
    BY <1>2, <1>4, TailFacts
  <2>. QED BY <1>2, <1>4, <2>1, TailFacts, TailPlaces
<1>6. ~ repeated'
  <2>1. ASSUME c.kind = "Discovered", c.name \notin seen PROVE view[c.name] = Absent
    BY <1>2, <1>3, <1>5, <2>1 DEF NextIsNew
  <2>. QED BY <1>1, <1>3, <2>1
<1>7. GoneBetween'
  <2>1. ASSUME NEW i \in 1..Len(feed'), NEW j \in 1..Len(feed'), Adjacent(feed', i, j),
               feed'[j].kind = "Discovered"
        PROVE  feed'[i].kind = "Gone"
    <3>1. Adjacent(feed, i + 1, j + 1) /\ i + 1 \in 1..Len(feed) /\ j + 1 \in 1..Len(feed)
      BY <1>5, <2>1
    <3>2. feed[j + 1].kind = "Discovered"
      BY <1>5, <2>1
    <3>3. feed[i + 1].kind = "Gone"
      BY <1>3, <3>1, <3>2 DEF GoneBetween
    <3>. QED BY <1>5, <3>3
  <2>2. ASSUME NEW d \in unsent', NEW i \in 1..Len(feed'), d.kind = "Discovered",
               LastOf(feed', i), feed'[i].name = d.name
        PROVE  feed'[i].kind = "Gone"
    <3>1. LastOf(feed, i + 1) /\ i + 1 \in 1..Len(feed) /\ feed'[i] = feed[i + 1] /\ d \in unsent
      BY <1>1, <1>5, <2>2
    <3>. QED BY <1>3, <2>2, <3>1 DEF GoneBetween
  <2>. QED BY <2>1, <2>2 DEF GoneBetween
<1>8. ASSUME NEW n \in Names \ seen' PROVE NextIsNew(n)'
  <2>1. CASE c.name # n
    <3>1. /\ n \notin seen /\ view'[n] = view[n] /\ (n \in Named(feed') <=> n \in Named(feed))
      BY <1>1, <1>4, <1>5, <1>8, <2>1
    <3>2. NextIsNew(n)
      BY <1>3, <3>1
    <3>3. ASSUME NEW i \in 1..Len(feed'), FirstOf(feed', i), feed'[i].name = n PROVE FirstOf(feed, i + 1)
      <4>1. ~ Adjacent(feed, 1, i + 1)
        BY <1>2, <1>5, <2>1, <3>3 DEF Adjacent
      <4>. QED BY <1>5, <3>3, <4>1
    <3>. QED BY <1>1, <1>5, <3>1, <3>2, <3>3 DEF NextIsNew, Pending, Unsent
  <2>2. CASE c.name = n
    <3>1. c.kind = "Gone" => view'[n] = Absent
      BY <1>1, <1>2, <1>4, <2>2 DEF Told
    <3>2. ASSUME NEW i \in 1..Len(feed'), FirstOf(feed', i), feed'[i].name = n,
                 feed'[i].kind = "Discovered"
          PROVE  c.kind = "Gone"
      <4>1. ~ FirstOf(feed, i + 1)
        BY <1>2, <1>5, <2>2, <3>2 DEF FirstOf
      <4>2. Adjacent(feed, 1, i + 1)
        BY <1>5, <3>2, <4>1
      <4>. QED BY <1>2, <1>3, <1>5, <3>2, <4>2 DEF GoneBetween
    <3>3. ASSUME n \notin Named(feed'), NEW d \in unsent, d.name = n, d.kind = "Discovered"
          PROVE  c.kind = "Gone"
      BY <1>2, <1>3, <1>5, <2>2, <3>3 DEF GoneBetween
    <3>4. ASSUME n \notin Named(feed'), ~ Unsent(n), known[n] = Absent PROVE c.kind = "Gone"
      <4>1. c.to = Absent
        BY <1>2, <1>4, <1>5, <2>2, <3>4 DEF WatchInv, LastIsFound
      <4>. QED BY <1>2, <4>1 DEF Told
    <3>. QED BY <1>1, <3>1, <3>2, <3>3, <3>4 DEF NextIsNew, Pending, Unsent
  <2>. QED BY <2>1, <2>2
<1>. QED BY <1>1, <1>2, <1>6, <1>7, <1>8 DEF KeepsUp

LEMMA KeepsUpStep == WatchInv /\ [WatchNext]_watchVars => KeepsUp'
<1>. SUFFICES ASSUME WatchInv, [WatchNext]_watchVars, K8s', unheard' = {}
              PROVE  KeepsUp'
  BY DEF KeepsUp
<1>1. K8s
  BY DEF K8s, WatchNext, watchVars, Loop, Watch, FleetMoves, Observe, WriteSnapshotLate, Send,
         Subscribe, Seed, PassOn, Translate, Relist
<1>2. ASSUME UNCHANGED <<backend, watcher, overrun, unsent, feed, known, seen, view, unheard,
                         repeated>>
      PROVE  KeepsUp'
  BY <1>2 DEF WatchInv, KeepsUp, GoneBetween, NextIsNew, Pending, Unsent, K8s
<1>3. CASE FleetMoves \/ UNCHANGED watchVars
  BY <1>2, <1>3 DEF FleetMoves, watchVars
<1>4. CASE Observe
  <2>1. unheard = {}
    BY <1>4 DEF Observe
  <2>. QED BY <1>1, <1>4, <2>1, UpObserve
<1>5. CASE Send
  <2>1. UNCHANGED <<backend, known, watcher, seen, view, repeated>>
    BY <1>5, SendPuts DEF WatchInv
  <2>2. CASE \E c, base : Puts(c, base)
    BY <1>1, <2>1, <2>2, UpSend
  <2>3. CASE ~ Listens /\ UNCHANGED <<feed, overrun, unheard>> /\ unsent' \subseteq unsent
    <3>1. feed = <<>> /\ Len(feed) = 0 /\ watcher # "live"
      BY <2>3 DEF WatchInv, WatchTypes, Listens
    <3>. QED BY <1>1, <2>1, <2>3, <3>1 DEF WatchInv, KeepsUp, GoneBetween
  <2>. QED BY <1>5, <2>2, <2>3, SendPuts DEF WatchInv
<1>6. CASE Subscribe
  <2>1. watcher = "none" /\ watcher' = "subscribed" /\ UNCHANGED <<feed, overrun, repeated>>
    BY <1>6 DEF Subscribe
  <2>2. feed = <<>> /\ Len(feed) = 0 /\ unheard = {} /\ ~ overrun
    BY <2>1 DEF WatchInv, WatchTypes, Listens
  <2>3. ~ repeated
    BY <1>1, <2>2 DEF WatchInv, KeepsUp
  <2>. QED BY <2>1, <2>2, <2>3 DEF KeepsUp, GoneBetween
<1>7. CASE Seed
  <2>1. /\ view' = known /\ seen' = There(known)
        /\ UNCHANGED <<unsent, feed, known, overrun, unheard, repeated>>
    BY <1>1, <1>7 DEF Seed
  <2>2. ~ repeated /\ ~ overrun /\ GoneBetween
    BY <1>1, <2>1 DEF WatchInv, KeepsUp
  <2>3. \A n \in Names \ seen' : view'[n] = Absent
    BY <2>1 DEF There
  <2>. QED BY <2>1, <2>2, <2>3 DEF KeepsUp, GoneBetween, NextIsNew
<1>8. ASSUME NEW c, PassOn(c) PROVE KeepsUp'
  <2>1. unheard = {}
    BY <1>8 DEF PassOn
  <2>. QED BY <1>8, <2>1, UpPassOn
<1>9. ASSUME NEW c, Translate(c) \/ WriteSnapshotLate PROVE FALSE
  BY <1>1, <1>9 DEF Translate, WriteSnapshotLate
<1>10. CASE Relist
  BY <1>1, <1>10 DEF Relist, WatchInv, KeepsUp
<1>. QED BY <1>3, <1>4, <1>5, <1>6, <1>7, <1>8, <1>9, <1>10, Zenon DEF WatchNext, Loop, Watch

(* What a subscriber of FleetManager hears of an agent, step by step.        *)
LEMMA HearsObserve ==
    ASSUME WatchInv, Observe, ~ K8s, Listens, NEW n \in Names \ unheard, origin[n] # "prospero"
    PROVE  Hears(n)'
<1>1. /\ unsent = {} /\ unsent' = Changes(known, fleet) /\ known' = known /\ found' = fleet
      /\ known = found /\ UNCHANGED <<watcher, feed, view>>
  BY DEF Observe, K8s
<1>2. known \in [Names -> State] /\ fleet \in [Names -> State] /\ Hears(n) /\ ~ Unsent(n)
  BY <1>1 DEF WatchInv, WatchTypes, WatchTypeOK, Heard, Unsent
<1>3. known[n] # fleet[n] => \E c \in unsent' : c.name = n
  BY <1>1, <1>2, ChangesAre
<1>. QED BY <1>1, <1>2, <1>3 DEF Hears, Pending, Unsent

LEMMA HearsSubscribe ==
    ASSUME WatchInv, Subscribe, NEW n \in Names \ unheard'
    PROVE  Hears(n)'
<1>1. /\ watcher = "none" /\ watcher' = "subscribed"
      /\ unheard' = {m \in Names : found[m] # known[m] /\ \A c \in unsent : c.name # m}
      /\ UNCHANGED <<unsent, feed, known, found>>
  BY DEF Subscribe
<1>2. feed = <<>> /\ Len(feed) = 0
  BY <1>1 DEF WatchInv, WatchTypes, Listens
<1>3. found[n] # known[n] => Unsent(n)
  BY <1>1 DEF Unsent
<1>. QED BY <1>1, <1>2, <1>3 DEF Hears, Pending, Unsent

LEMMA HearsSend ==
    ASSUME ~ K8s, WatchInv, NEW c, NEW base, Puts(c, base),
           UNCHANGED <<known, found, watcher, view>>,
           NEW n \in Names \ unheard', Hears(n)
    PROVE  Hears(n)'
<1>1. /\ c \in unsent /\ c \in Told /\ base \in Seq(Told) /\ feed' = Append(base, c)
      /\ Named(feed') = Named(base) \cup {c.name}
      /\ Len(feed') = Len(base) + 1 /\ Len(base) \in Nat /\ feed'[Len(base) + 1] = c
      /\ \A i \in 1..Len(base) : feed'[i] = base[i]
      /\ \A m \in Named(feed) \ Named(base) : m \in unheard'
      /\ \A d \in unsent' : d \in unsent /\ d.name # c.name
      /\ \A d \in unsent : d = c \/ d \in unsent'
  BY PutKeepsPending DEF Puts, WatchInv
<1>2. ~ Pending(n)' => ~ Pending(n)
  BY <1>1 DEF Pending, Unsent
<1>3. ASSUME known[n] # Absent, NEW i \in 1..Len(feed'), feed'[i].name = n,
             feed'[i].kind = "Discovered", LastOf(feed', i), ~ Unsent(n)'
      PROVE  known[n] = found[n]
  <2>1. CASE i = Len(base) + 1
    BY <1>1, <1>3, <2>1 DEF WatchInv, PassOnce
  <2>2. CASE i \in 1..Len(base)
    <3>1. LastOf(base, i) /\ base[i].name # c.name /\ feed'[i] = base[i]
      BY <1>1, <1>3, <2>2, AppendPlaces
    <3>2. PICK k \in 1..Len(feed) : LastOf(feed, k) /\ feed[k] = base[i]
      BY <2>2, <3>1, PutPlaces DEF WatchInv
    <3>3. ~ Unsent(n)
      BY <1>1, <1>3, <3>1 DEF Unsent
    <3>. QED BY <1>3, <3>1, <3>2, <3>3 DEF Hears
  <2>. QED BY <1>1, <2>1, <2>2
<1>. QED BY <1>2, <1>3 DEF Hears

LEMMA HearsTranslate ==
    ASSUME WatchInv, NEW c, Translate(c), NEW n \in Names \ unheard', origin[n] # "prospero"
    PROVE  Hears(n)'
<1>1. /\ Receives(c) /\ ~ K8s
      /\ IF c.kind # "Discovered"
         THEN view' = [view EXCEPT ![c.name] = c.to] /\ unheard' = unheard
         ELSE IF known[c.name] # Absent
         THEN view' = [view EXCEPT ![c.name] = known[c.name]] /\ unheard' = unheard
         ELSE unheard' = unheard \cup {c.name} /\ view' = view
      /\ UNCHANGED <<unsent, known, found, watcher>>
  BY DEF Translate, Tells
<1>2. /\ watcher = "live" /\ feed # <<>> /\ feed' = Tail(feed)
      /\ c = feed[1] /\ c \in Told /\ c.name \in Names
      /\ Len(feed') = Len(feed) - 1 /\ Len(feed) \in Nat \ {0}
  BY <1>1, Received DEF WatchInv
<1>3. Hears(n)
  BY <1>1, <1>2 DEF WatchInv, Heard, Listens
<1>4. feed \in Seq(Told) /\ view \in [Names -> State]
  BY DEF WatchInv, WatchTypes, WatchTypeOK
<1>5. /\ \A i \in 1..Len(feed') : i + 1 \in 1..Len(feed) /\ feed'[i] = feed[i + 1]
      /\ Named(feed) = Named(feed') \cup {c.name}
      /\ \A i \in 1..Len(feed') : LastOf(feed', i) => LastOf(feed, i + 1)
      /\ c.name \notin Named(feed') => LastOf(feed, 1)
      /\ 1 \in 1..Len(feed)
  <2>1. Head(feed) = c
    BY <1>2, <1>4, TailFacts
  <2>. QED BY <1>2, <1>4, <2>1, TailFacts, TailPlaces
<1>6. known[n] # Absent => \A i \in 1..Len(feed') :
                              /\ feed'[i].name = n /\ feed'[i].kind = "Discovered"
                              /\ LastOf(feed', i) /\ ~ Unsent(n)
                              => known[n] = found[n]
  BY <1>3, <1>5 DEF Hears
<1>7. ASSUME n \notin Named(feed'), ~ Unsent(n) PROVE view'[n] = found[n]
  <2>1. CASE c.name # n
    <3>1. view'[n] = view[n] /\ n \notin Named(feed)
      BY <1>1, <1>4, <1>5, <1>7, <2>1
    <3>. QED BY <1>2, <1>3, <1>7, <3>1 DEF Hears, Pending
  <2>2. CASE c.name = n
    <3>1. LastOf(feed, 1) /\ feed[1].name = n
      BY <1>2, <1>5, <1>7, <2>2
    <3>2. CASE c.kind # "Discovered"
      <4>1. c.to = found[n]
        BY <1>2, <1>5, <1>7, <3>1 DEF WatchInv, LastIsFound
      <4>. QED BY <1>1, <1>4, <2>2, <3>2, <4>1
    <3>3. CASE c.kind = "Discovered"
      <4>1. known[n] # Absent
        BY <1>1, <2>2, <3>3
      <4>2. known[n] = found[n]
        BY <1>2, <1>3, <1>5, <1>7, <3>1, <3>3, <4>1 DEF Hears
      <4>. QED BY <1>1, <1>4, <2>2, <3>3, <4>1, <4>2
    <3>. QED BY <3>2, <3>3
  <2>. QED BY <2>1, <2>2
<1>. QED BY <1>1, <1>2, <1>6, <1>7 DEF Hears, Pending, Unsent

LEMMA HeardStep == WatchInv /\ [WatchNext]_watchVars => Heard'
<1>. SUFFICES ASSUME WatchInv, [WatchNext]_watchVars, ~ K8s', Listens',
                     NEW n \in Names \ unheard', origin'[n] # "prospero"
              PROVE  Hears(n)'
  BY DEF Heard
<1>1. ~ K8s /\ origin[n] # "prospero"
  <2>1. K8s' = K8s
    BY DEF K8s, WatchNext, watchVars, Loop, Watch, FleetMoves, Observe, WriteSnapshotLate, Send,
           Subscribe, Seed, PassOn, Translate, Relist
  <2>. QED BY <2>1, OriginStays DEF WatchInv
<1>2. ASSUME UNCHANGED <<watcher, unsent, feed, known, found, view, unheard>> PROVE Hears(n)'
  <2>1. Hears(n)
    BY <1>1, <1>2 DEF WatchInv, Heard, Listens
  <2>. QED BY <1>2, <2>1 DEF Hears, Pending, Unsent
<1>3. CASE FleetMoves \/ UNCHANGED watchVars
  BY <1>2, <1>3 DEF FleetMoves, watchVars
<1>4. CASE Observe
  <2>1. Listens /\ unheard' = unheard
    BY <1>4 DEF Observe, Listens
  <2>. QED BY <1>1, <1>4, <2>1, HearsObserve
<1>5. CASE WriteSnapshotLate
  <2>1. known' = found /\ UNCHANGED <<watcher, unsent, feed, found, view, unheard>>
    BY <1>5 DEF WriteSnapshotLate
  <2>2. Hears(n)
    BY <1>1, <2>1 DEF WatchInv, Heard, Listens
  <2>. QED BY <2>1, <2>2 DEF Hears, Pending, Unsent
<1>6. CASE Send
  <2>1. UNCHANGED <<known, found, watcher, view>> /\ Listens
    BY <1>6, SendPuts DEF WatchInv, Listens
  <2>2. PICK c, base : Puts(c, base)
    BY <1>6, <2>1, SendPuts DEF WatchInv
  <2>3. Hears(n)
    BY <1>1, <2>1, <2>2 DEF WatchInv, Heard, Puts
  <2>. QED BY <1>1, <2>1, <2>2, <2>3, HearsSend
<1>7. CASE Subscribe
  BY <1>7, HearsSubscribe
<1>8. CASE Seed
  <2>1. /\ watcher = "subscribed" /\ watcher' = "live" /\ view' = known
        /\ UNCHANGED <<unsent, feed, known, found, unheard>>
    BY <1>8 DEF Seed
  <2>2. Hears(n)
    BY <1>1, <2>1 DEF WatchInv, Heard, Listens
  <2>. QED BY <2>1, <2>2 DEF Hears, Pending, Unsent
<1>9. ASSUME NEW c, PassOn(c) PROVE FALSE
  BY <1>1, <1>9 DEF PassOn
<1>10. ASSUME NEW c, Translate(c) PROVE Hears(n)'
  BY <1>1, <1>10, HearsTranslate
<1>11. CASE Relist
  <2>1. UNCHANGED <<watcher, unsent, feed, known, found, view, unheard>>
    BY <1>1, <1>11 DEF Relist
  <2>. QED BY <1>2, <2>1
<1>. QED BY <1>3, <1>4, <1>5, <1>6, <1>7, <1>8, <1>9, <1>10, <1>11, Zenon
     DEF WatchNext, Loop, Watch

LEMMA WatchInvStep == WatchInv /\ [WatchNext]_watchVars => WatchInv'
  BY WatchTypesStep, PassOnceStep, LastIsFoundStep, StayersStep, KeepsUpStep, HeardStep
  DEF WatchInv

(* Whoever has received all that was sent believes what the backend found,   *)
(* of every agent the property speaks of, and a subscriber of K8sFleet that   *)
(* keeps up is told nothing twice, for any agents, any capacity of the        *)
(* channel, any number of moves and wherever the subscription falls between   *)
(* them (K8sFleet::watch_fleet, FleetManager::watch_changes).                 *)
THEOREM WatchSoundHolds == WatchSpec => []WatchSound
<1>1. WatchInv => WatchSound
  <2>. SUFFICES ASSUME WatchInv PROVE WatchSound
    OBVIOUS
  <2>1. CaughtUp => /\ Listens /\ watcher = "live" /\ ~ overrun /\ known = found
                    /\ \A n : ~ Pending(n)
    BY DEF CaughtUp, Listens, Pending, Unsent, Named
  <2>2. StayersAreKnown
    BY <2>1 DEF WatchInv, Stayers, Stays, StayersAreKnown
  <2>3. HeardIsTrue
    BY <2>1 DEF WatchInv, Heard, Hears, HeardIsTrue
  <2>4. ToldOnce
    BY DEF WatchInv, KeepsUp, ToldOnce
  <2>. QED BY <2>2, <2>3, <2>4 DEF WatchInv, WatchTypes, WatchSound
<1>. QED BY <1>1, WatchInvInit, WatchInvStep, PTL DEF WatchSpec

=============================================================================
