----------------------------- MODULE BleProofs -----------------------------
(***************************************************************************)
(* Proofs about BleRequests, for every set of requests, targets and pairs, *)
(* any number of connections and of undelivered messages: a response       *)
(* completes the request it answers, "not written" is true for good, and   *)
(* nothing is written twice.                                               *)
(***************************************************************************)
EXTENDS BleRequests, TLAPS

-----------------------------------------------------------------------------
(* The inductive invariant                                                 *)

IsReply(m, r) == m.type = "reply" /\ m.request = r

\* What is under way for a request: its send, its write, or the response to it.
Answering(r) == \E i \in DOMAIN events : events[i].request = r
Outstanding(r) == r \in sending \/ r \in unanswered \/ Answering(r)

\* Without a pair no leg is up and no write can be answered.
LinkShape == native.pair = Unselected => native.up = {} /\ unanswered = {}

\* A request is sent at most once, and has written nothing before its send was
\* taken up or when its caller was told so.
SentOnce ==
    \A r \in Requests :
        /\ phase[r] \in {"new", "waiting"} =>
              r \notin sending /\ writes[r] = 0 /\ answer[r] = "none"
        /\ writes[r] \in {0, 1}
        /\ r \in sending => writes[r] = 0
        /\ r \in unanswered => writes[r] = 1 /\ scope[r].generation = native.generation
        /\ answer[r] = "notWritten" => phase[r] = "done" /\ writes[r] = 0 /\ r \notin sending

\* The reply to a send is the only one, and a refusal is true.
RepliedOnce ==
    \A i \in DOMAIN channel : \A r \in Requests : IsReply(channel[i], r) =>
        /\ phase[r] \notin {"new", "waiting"} /\ r \notin sending
        /\ ~channel[i].accepted => writes[r] = 0
        /\ \A j \in DOMAIN channel : IsReply(channel[j], r) => j = i

\* A response on its way is the only one to a write no longer unanswered.
AnsweredOnce ==
    \A i \in DOMAIN events : LET r == events[i].request IN
        /\ events[i].generation = scope[r].generation
        /\ writes[r] = 1 /\ r \notin unanswered
        /\ \A j \in DOMAIN events : events[j].request = r => j = i

\* The owner of a slot waits for it; what is outstanding on the current
\* connection has its slot or has left it quarantined, and is alone there.
SlotsHeld ==
    /\ \A key \in BleRequestKey : pending[key] # NoRequest =>
          LET r == pending[key] IN
          KeyOf(r) = key /\ phase[r] \in {"writing", "acking"} /\ answer[r] = "none"
    /\ \A r \in Requests : scope[r].generation <= generation
    /\ \A r \in Requests : Outstanding(r) /\ scope[r].generation = generation =>
          pending[KeyOf(r)] = r \/ KeyOf(r) \in quarantined
    /\ \A r, s \in Requests : Outstanding(r) /\ Outstanding(s) /\ KeyOf(r) = KeyOf(s) => r = s

BleInvariant ==
    /\ BleTypeOK /\ LinkShape /\ SentOnce /\ RepliedOnce /\ AnsweredOnce /\ SlotsHeld
    /\ ResponseMatchesRequest


-----------------------------------------------------------------------------
(* Queues, slots and answers                                               *)

LEMMA Appended ==
    ASSUME NEW S, NEW q \in Seq(S), NEW m \in S, NEW t, t = Append(q, m)
    PROVE  /\ t \in Seq(S)
           /\ DOMAIN t = DOMAIN q \cup {Len(q) + 1} /\ t[Len(q) + 1] = m
           /\ Len(q) + 1 \notin DOMAIN q
           /\ \A i \in DOMAIN q : t[i] = q[i]
  <1>1. /\ t \in Seq(S) /\ Len(t) = Len(q) + 1 /\ t[Len(q) + 1] = m
        /\ \A i \in 1..Len(q) : t[i] = q[i]
    OBVIOUS
  <1>2. DOMAIN q = 1..Len(q) /\ DOMAIN t = 1..(Len(q) + 1) /\ Len(q) \in Nat
    BY <1>1
  <1> QED BY <1>1, <1>2

LEMMA TakenOff ==
    ASSUME NEW S, NEW q \in Seq(S), q # <<>>, NEW t, t = Tail(q)
    PROVE  /\ t \in Seq(S) /\ Head(q) \in S /\ 1 \in DOMAIN q /\ Head(q) = q[1]
           /\ \A i \in DOMAIN t : i + 1 \in DOMAIN q /\ i + 1 # 1 /\ t[i] = q[i + 1]
           /\ \A i, j \in DOMAIN t : i + 1 = j + 1 => i = j
           /\ \A i \in DOMAIN q : i = 1 \/ (i - 1 \in DOMAIN t /\ t[i - 1] = q[i])
  <1>1. /\ t \in Seq(S) /\ Len(t) = Len(q) - 1 /\ Head(q) = q[1] /\ Len(q) \in Nat /\ Len(q) > 0
        /\ \A i \in 1..Len(t) : t[i] = q[i + 1]
    OBVIOUS
  <1>2. DOMAIN q = 1..Len(q) /\ DOMAIN t = 1..(Len(q) - 1)
    BY <1>1
  <1>3. 1 \in DOMAIN q /\ q[1] \in S
    BY <1>1, <1>2
  <1>4. \A i \in DOMAIN t : i + 1 \in DOMAIN q /\ i + 1 # 1 /\ t[i] = q[i + 1]
    BY <1>1, <1>2
  <1>5. \A i, j \in DOMAIN t : i + 1 = j + 1 => i = j
    BY <1>2
  <1>6. \A i \in DOMAIN q : i = 1 \/ (i - 1 \in DOMAIN t /\ t[i - 1] = q[i])
    BY <1>1, <1>2
  <1> QED BY <1>1, <1>3, <1>4, <1>5, <1>6

\* What the channels carry.
LEMMA MessageShape ==
    /\ \A m \in Message :
          /\ m.type \in {"connecting", "connected", "disconnected", "reply"}
          /\ m.type \in {"connecting", "connected"} => m.generation \in Generations /\ m.pair \in Pairs
          /\ m.type = "disconnected" =>
                /\ m.generation \in Generations /\ m.pair \in Pairs
                /\ m.sides \subseteq Sides /\ m.up \subseteq Sides
          /\ m.type = "reply" => m.request \in Requests /\ m.accepted \in BOOLEAN
    /\ \A m \in Response :
          m.generation \in Generations /\ m.pair \in Pairs /\ m.request \in Requests
  BY DEF Message, Response

\* The key of a request names a slot.
LEMMA KeyShape ==
    ASSUME BleTypeOK, NEW r \in Requests
    PROVE  /\ KeyOf(r) \in BleRequestKey
           /\ \A g \in Generations : [generation |-> g, to |-> Target[r]] \in BleRequestKey
           /\ KeyOf(r).generation = scope[r].generation /\ KeyOf(r).to = Target[r]
           /\ scope[r].generation \in Generations
           /\ r # NoRequest /\ Target[r].side \in Sides
  BY BleAssumption DEF BleTypeOK, KeyOf, BleRequestKey, Targets

\* A request returns for good, or is new again having been told "not written".
LEMMA Returns ==
    ASSUME BleTypeOK, NEW r \in Requests, NEW a \in {"notWritten", "mayHave"}, Return(r, a)
    PROVE  /\ phase' \in [Requests -> {"new", "waiting", "writing", "acking", "done"}]
           /\ attempts' \in [Requests -> 0..Retry] /\ answer' \in [Requests -> Answer]
           /\ \A s \in Requests \ {r} : phase'[s] = phase[s] /\ answer'[s] = answer[s]
           /\ \/ a = "notWritten" /\ phase'[r] = "new" /\ answer'[r] = "none"
              \/ phase'[r] = "done" /\ answer'[r] = a
  <1>1. /\ phase \in [Requests -> {"new", "waiting", "writing", "acking", "done"}]
        /\ attempts \in [Requests -> 0..Retry] /\ answer \in [Requests -> Answer] /\ Retry \in Nat
    BY BleAssumption DEF BleTypeOK
  <1>2. CASE a = "notWritten" /\ attempts[r] < Retry /\ SideReady(r)
    <2>1. attempts[r] + 1 \in 0..Retry
      BY <1>1, <1>2
    <2> QED BY <1>1, <1>2, <2>1 DEF Return, Answer
  <1>3. CASE ~(a = "notWritten" /\ attempts[r] < Retry /\ SideReady(r))
    BY <1>1, <1>3 DEF Return, Answer
  <1> QED BY <1>2, <1>3

LEMMA Reserves ==
    ASSUME BleTypeOK, NEW r \in Requests, NEW key \in BleRequestKey, ReserveAndSend(r, key)
    PROVE  /\ phase' \in [Requests -> {"new", "waiting", "writing", "acking", "done"}]
           /\ pending' \in [BleRequestKey -> Requests \cup {NoRequest}]
           /\ \A s \in Requests \ {r} : phase'[s] = phase[s]
           /\ \A k \in BleRequestKey \ {key} : pending'[k] = pending[k]
           /\ phase'[r] = "writing" /\ pending'[key] = r
           /\ sending' = sending \cup {r} /\ answer' = answer /\ attempts' = attempts
  BY DEF BleTypeOK, ReserveAndSend

-----------------------------------------------------------------------------
(* What keeps the parts of the invariant                                   *)

Replied(r) == \E i \in DOMAIN channel : IsReply(channel[i], r)

\* Nothing sent or written changes, and no request that was sent becomes new
\* again or is told that nothing was written.
LEMMA SentKept ==
    ASSUME SentOnce, UNCHANGED <<sending, unanswered, writes, scope, native>>,
           \A r \in Requests :
              \/ phase'[r] = phase[r] /\ answer'[r] = answer[r]
              \/ /\ phase'[r] \notin {"new", "waiting"} /\ answer'[r] # "notWritten"
    PROVE  SentOnce'
  BY DEF SentOnce

\* Dart takes a message off the channel or none.
LEMMA RepliesKept ==
    ASSUME BleTypeOK, RepliedOnce, UNCHANGED writes,
           channel' = channel \/ (channel # <<>> /\ channel' = Tail(channel)),
           \A r \in sending' : r \in sending \/ phase[r] \in {"new", "waiting"},
           \A r \in Requests : phase'[r] \in {"new", "waiting"} =>
              phase[r] \in {"new", "waiting"} \/ ~Replied(r)'
    PROVE  RepliedOnce'
  <1>1. CASE channel' = channel
    BY <1>1 DEF RepliedOnce, Replied
  <1>2. CASE channel # <<>> /\ channel' = Tail(channel)
    <2>1. /\ \A i \in DOMAIN channel' : i + 1 \in DOMAIN channel /\ channel'[i] = channel[i + 1]
          /\ \A i, j \in DOMAIN channel' : i + 1 = j + 1 => i = j
      <3>1. channel \in Seq(Message)
        BY DEF BleTypeOK
      <3> QED BY <1>2, <3>1, TakenOff
    <2> SUFFICES ASSUME NEW i \in DOMAIN channel', NEW r \in Requests, IsReply(channel'[i], r)
                 PROVE  /\ phase'[r] \notin {"new", "waiting"} /\ r \notin sending'
                        /\ ~channel'[i].accepted => writes'[r] = 0
                        /\ \A j \in DOMAIN channel' : IsReply(channel'[j], r) => j = i
      BY DEF RepliedOnce
    <2>2. i + 1 \in DOMAIN channel /\ IsReply(channel[i + 1], r) /\ channel'[i] = channel[i + 1]
      BY <2>1
    <2>3. /\ phase[r] \notin {"new", "waiting"} /\ r \notin sending
          /\ ~channel'[i].accepted => writes[r] = 0
          /\ \A j \in DOMAIN channel : IsReply(channel[j], r) => j = i + 1
      BY <2>2 DEF RepliedOnce
    <2>4. Replied(r)'
      BY DEF Replied
    <2>5. \A j \in DOMAIN channel' : IsReply(channel'[j], r) => j = i
      BY <2>1, <2>3
    <2> QED BY <2>3, <2>4, <2>5
  <1> QED BY <1>1, <1>2

\* Dart takes a response off its channel or none.
LEMMA ResponsesKept ==
    ASSUME BleTypeOK, AnsweredOnce, UNCHANGED <<writes, unanswered>>,
           events' = events \/ (events # <<>> /\ events' = Tail(events)),
           \A r \in Requests : scope'[r] = scope[r] \/ writes[r] = 0
    PROVE  /\ AnsweredOnce'
           /\ \A r : Answering(r)' => Answering(r)
           /\ events' # events =>
                 /\ 1 \in DOMAIN events /\ Head(events) = events[1]
                 /\ Head(events) \in Response
                 /\ \A r : r = Head(events).request => ~Answering(r)'
  <1>0. \A i \in DOMAIN events : events[i].request \in Requests
    BY MessageShape DEF BleTypeOK
  <1>1. CASE events' = events
    BY <1>0, <1>1 DEF AnsweredOnce, Answering
  <1>2. CASE events # <<>> /\ events' = Tail(events)
    <2>1. /\ 1 \in DOMAIN events /\ Head(events) = events[1] /\ Head(events) \in Response
          /\ \A i \in DOMAIN events' : /\ i + 1 \in DOMAIN events /\ i + 1 # 1
                                      /\ events'[i] = events[i + 1]
          /\ \A i, j \in DOMAIN events' : i + 1 = j + 1 => i = j
      <3>1. events \in Seq(Response)
        BY DEF BleTypeOK
      <3> QED BY <1>2, <3>1, TakenOff
    <2>2. AnsweredOnce'
      <3> SUFFICES ASSUME NEW i \in DOMAIN events', NEW r, r = events'[i].request
                   PROVE  /\ events'[i].generation = scope'[r].generation
                          /\ writes'[r] = 1 /\ r \notin unanswered'
                          /\ \A j \in DOMAIN events' : events'[j].request = r => j = i
        BY DEF AnsweredOnce
      <3>1. i + 1 \in DOMAIN events /\ r = events[i + 1].request /\ r \in Requests
        BY <1>0, <2>1
      <3>2. /\ events[i + 1].generation = scope[r].generation
            /\ writes[r] = 1 /\ r \notin unanswered
            /\ \A j \in DOMAIN events : events[j].request = r => j = i + 1
        BY <3>1 DEF AnsweredOnce
      <3>3. \A j \in DOMAIN events' : events'[j].request = r => j = i
        BY <2>1, <3>2
      <3> QED BY <2>1, <3>1, <3>2, <3>3
    <2>3. \A r : Answering(r)' => Answering(r)
      BY <2>1 DEF Answering
    <2>4. ASSUME NEW r, r = Head(events).request PROVE ~Answering(r)'
      <3>1. \A j \in DOMAIN events : events[j].request = r => j = 1
        BY <2>1, <2>4 DEF AnsweredOnce
      <3> QED BY <2>1, <3>1 DEF Answering
    <2> QED BY <2>1, <2>2, <2>3, <2>4
  <1> QED BY <1>1, <1>2

\* A slot is given up only for a quarantine or when its owner has nothing under
\* way, and a quarantine only when nothing of its key is.
LEMMA SlotsKept ==
    ASSUME BleTypeOK, BleTypeOK', SlotsHeld, generation' = generation,
           \A r \in Requests : Outstanding(r)' => Outstanding(r),
           \A r \in Requests :
              \/ scope'[r] = scope[r]
              \/ /\ scope'[r].generation = generation /\ ~Outstanding(r)'
                 /\ \A key \in BleRequestKey : pending'[key] # r,
           \A key \in BleRequestKey :
              \/ pending'[key] = pending[key]
              \/ /\ pending'[key] = NoRequest
                 /\ key \in quarantined' \/ \A r : r = pending[key] => ~Outstanding(r)',
           \A key \in quarantined :
              key \in quarantined' \/ \A r \in Requests : Outstanding(r)' => KeyOf(r) # key,
           \A key \in BleRequestKey : pending'[key] # NoRequest =>
              /\ phase'[pending'[key]] \in {"writing", "acking"}
              /\ answer'[pending'[key]] = "none"
    PROVE  SlotsHeld'
  <1>0. /\ \A r \in Requests : KeyOf(r) \in BleRequestKey /\ scope[r].generation \in Generations
        /\ generation \in Generations /\ Generations \subseteq Nat
        /\ \A key \in BleRequestKey : pending'[key] \in Requests \cup {NoRequest}
    <2>1. generation \in Generations /\ Generations \subseteq Nat
      BY BleAssumption DEF BleTypeOK, Generations
    <2>2. \A key \in BleRequestKey : pending'[key] \in Requests \cup {NoRequest}
      BY DEF BleTypeOK
    <2> QED BY <2>1, <2>2, KeyShape
  <1>1. \A r \in Requests : scope'[r] = scope[r] => KeyOf(r)' = KeyOf(r)
    BY DEF KeyOf
  <1>2. ASSUME NEW key \in BleRequestKey, pending'[key] # NoRequest, NEW r, r = pending'[key]
        PROVE  KeyOf(r)' = key /\ phase'[r] \in {"writing", "acking"} /\ answer'[r] = "none"
    <2>1. r = pending[key] /\ r \in Requests
      BY <1>0, <1>2
    <2>2. scope'[r] = scope[r]
      BY <1>2, <2>1
    <2>3. KeyOf(r) = key
      BY <1>2, <2>1 DEF SlotsHeld
    <2> QED BY <1>1, <1>2, <2>1, <2>2, <2>3
  <1>3. \A r \in Requests : scope'[r].generation <= generation'
    BY <1>0 DEF SlotsHeld
  <1>4. ASSUME NEW r \in Requests, Outstanding(r)', scope'[r].generation = generation'
        PROVE  pending'[KeyOf(r)'] = r \/ KeyOf(r)' \in quarantined'
    <2>1. scope'[r] = scope[r] /\ Outstanding(r) /\ KeyOf(r)' = KeyOf(r)
      BY <1>1, <1>4
    <2>2. pending[KeyOf(r)] = r \/ KeyOf(r) \in quarantined
      BY <1>4, <2>1 DEF SlotsHeld
    <2>3. PICK key \in BleRequestKey : key = KeyOf(r) /\ key = KeyOf(r)'
      BY <1>0, <2>1
    <2>4. CASE pending[key] = r
      BY <1>4, <2>3, <2>4
    <2>5. CASE key \in quarantined
      BY <1>4, <2>3, <2>5
    <2> QED BY <2>2, <2>3, <2>4, <2>5
  <1>5. \A r, s \in Requests : Outstanding(r)' /\ Outstanding(s)' /\ KeyOf(r)' = KeyOf(s)' => r = s
    BY <1>1 DEF SlotsHeld
  <1> QED BY <1>2, <1>3, <1>4, <1>5 DEF SlotsHeld

-----------------------------------------------------------------------------
(* Types                                                                   *)

\* What _failPendingRequests does to the slots of any keys.
LEMMA FailTypes ==
    ASSUME BleTypeOK, NEW g, NEW sides, FailPending(g, sides)
    PROVE  /\ pending' \in [BleRequestKey -> Requests \cup {NoRequest}]
           /\ quarantined' \subseteq {key \in BleRequestKey : pending'[key] = NoRequest}
           /\ timers' \in [BleRequestKey -> Requests \cup {NoRequest}]
           /\ answer' \in [Requests -> Answer]
           /\ phase' \in [Requests -> {"new", "waiting", "writing", "acking", "done"}]
  <1>1. \A key \in BleRequestKey :
           pending'[key] = NoRequest \/ (pending'[key] = pending[key] /\ key \notin quarantined')
           \/ key \notin quarantined'
    BY DEF BleTypeOK, FailPending
  <1>2. quarantined' \subseteq BleRequestKey
    BY DEF BleTypeOK, FailPending
  <1>3. /\ pending' \in [BleRequestKey -> Requests \cup {NoRequest}]
        /\ timers' \in [BleRequestKey -> Requests \cup {NoRequest}]
    BY DEF BleTypeOK, FailPending
  <1>4. /\ answer' \in [Requests -> Answer]
        /\ phase' \in [Requests -> {"new", "waiting", "writing", "acking", "done"}]
    BY DEF BleTypeOK, FailPending, Answer
  <1> QED BY <1>1, <1>2, <1>3, <1>4

LEMMA AdoptTypes ==
    ASSUME BleTypeOK, NEW g \in Generations, AdoptGeneration(g)
    PROVE  /\ generation' \in Generations
           /\ pending' \in [BleRequestKey -> Requests \cup {NoRequest}]
           /\ quarantined' \subseteq {key \in BleRequestKey : pending'[key] = NoRequest}
           /\ timers' \in [BleRequestKey -> Requests \cup {NoRequest}]
           /\ answer' \in [Requests -> Answer]
           /\ phase' \in [Requests -> {"new", "waiting", "writing", "acking", "done"}]
  <1>1. quarantined' \subseteq {key \in BleRequestKey : pending'[key] = NoRequest}
    BY DEF BleTypeOK, AdoptGeneration
  <1>2. /\ generation' \in Generations
        /\ pending' \in [BleRequestKey -> Requests \cup {NoRequest}]
        /\ timers' \in [BleRequestKey -> Requests \cup {NoRequest}]
    BY DEF BleTypeOK, AdoptGeneration
  <1>3. /\ answer' \in [Requests -> Answer]
        /\ phase' \in [Requests -> {"new", "waiting", "writing", "acking", "done"}]
    BY DEF BleTypeOK, AdoptGeneration, Answer
  <1> QED BY <1>1, <1>2, <1>3

\* The calls of requests.
LEMMA RequestTypes ==
    ASSUME BleTypeOK, NEW r \in Requests, Request(r) \/ Poll(r)
    PROVE  BleTypeOK'
  <1> DEFINE current == [generation |-> generation, to |-> Target[r]]
  <1>0. /\ current \in BleRequestKey /\ KeyOf(r) \in BleRequestKey
        /\ scope \in [Requests -> [generation : Generations, pair : Pairs \cup {Unselected}]]
        /\ Authority \in [generation : Generations, pair : Pairs \cup {Unselected}]
    BY KeyShape DEF BleTypeOK, Authority
  <1>1. /\ scope' \in [Requests -> [generation : Generations, pair : Pairs \cup {Unselected}]]
        /\ UNCHANGED <<generation, pair, ready, quarantined, timers, answeredBy,
                       native, channel, events, unanswered, writes>>
    BY <1>0 DEF Request, Poll
  <1> HIDE DEF current
  <1>2. CASE \/ Return(r, "notWritten") /\ UNCHANGED <<pending, sending>>
             \/ Return(r, "mayHave") /\ UNCHANGED <<pending, sending>>
    BY <1>1, <1>2, Returns DEF BleTypeOK
  <1>3. ASSUME NEW key \in BleRequestKey, key \notin quarantined, ReserveAndSend(r, key)
        PROVE  BleTypeOK'
    <2>1. quarantined' \subseteq {k \in BleRequestKey : pending'[k] = NoRequest}
      BY <1>1, <1>3, Reserves DEF BleTypeOK
    <2> QED BY <1>1, <1>3, <2>1, Reserves DEF BleTypeOK
  <1>4. CASE \/ /\ phase' = [phase EXCEPT ![r] = "done"]
                /\ answer' = [answer EXCEPT ![r] = "notWritten"]
                /\ UNCHANGED <<pending, sending, attempts>>
             \/ /\ phase' = [phase EXCEPT ![r] = "waiting"]
                /\ UNCHANGED <<pending, sending, attempts, answer>>
    <2>1. /\ phase' \in [Requests -> {"new", "waiting", "writing", "acking", "done"}]
          /\ answer' \in [Requests -> Answer]
      BY <1>4 DEF BleTypeOK, Answer
    <2> QED BY <1>1, <1>4, <2>1 DEF BleTypeOK
  <1>5. CASE Request(r)
    BY <1>0, <1>2, <1>3, <1>4, <1>5 DEF Request, current
  <1>6. CASE Poll(r)
    BY <1>0, <1>2, <1>3, <1>6 DEF Poll
  <1> QED BY <1>5, <1>6

\* The timers.
LEMMA TimeoutTypes ==
    ASSUME BleTypeOK,
           \/ \E r \in Requests : SendTimeout(r)
           \/ \E key \in BleRequestKey : AckTimeout(key)
    PROVE  BleTypeOK'
  <1>1. ASSUME NEW r \in Requests, SendTimeout(r) PROVE BleTypeOK'
    <2>0. PICK key \in BleRequestKey : key = KeyOf(r)
      BY KeyShape
    <2>1. /\ timers' = [timers EXCEPT ![key] = NoRequest]
          /\ pending' = [pending EXCEPT ![key] = IF @ = r THEN NoRequest ELSE @]
          /\ quarantined' \subseteq IF pending[key] = r THEN quarantined \cup {key} ELSE quarantined
          /\ answer' = [answer EXCEPT ![r] = IF @ = "none" THEN "mayHave" ELSE @]
          /\ phase' = [phase EXCEPT ![r] = "done"]
      BY <1>1, <2>0 DEF SendTimeout, QuarantinedIfOwned, Released
    <2>2. /\ timers' \in [BleRequestKey -> Requests \cup {NoRequest}]
          /\ pending' \in [BleRequestKey -> Requests \cup {NoRequest}]
          /\ \A k \in BleRequestKey \ {key} : pending'[k] = pending[k]
          /\ pending'[key] = IF pending[key] = r THEN NoRequest ELSE pending[key]
      BY <2>1 DEF BleTypeOK
    <2>3. quarantined' \subseteq {k \in BleRequestKey : pending'[k] = NoRequest}
      BY <2>1, <2>2 DEF BleTypeOK
    <2>4. /\ answer' \in [Requests -> Answer]
          /\ phase' \in [Requests -> {"new", "waiting", "writing", "acking", "done"}]
      BY <2>1 DEF BleTypeOK, Answer
    <2> QED BY <1>1, <2>2, <2>3, <2>4 DEF BleTypeOK, SendTimeout
  <1>2. ASSUME NEW key \in BleRequestKey, AckTimeout(key) PROVE BleTypeOK'
    <2>1. PICK r \in Requests : r = timers[key]
      BY <1>2 DEF AckTimeout, BleTypeOK
    <2>2. timers' \in [BleRequestKey -> Requests \cup {NoRequest}]
      BY <1>2 DEF AckTimeout, BleTypeOK
    <2>3. CASE pending[key] # r
      BY <1>2, <2>1, <2>2, <2>3 DEF AckTimeout, BleTypeOK
    <2>4. CASE pending[key] = r
      <3>1. /\ pending' = [pending EXCEPT ![key] = NoRequest]
            /\ quarantined' = quarantined \cup {key}
            /\ answer' = [answer EXCEPT ![r] = "mayHave"]
            /\ phase' = [phase EXCEPT ![r] = "done"]
        BY <1>2, <2>1, <2>4 DEF AckTimeout
      <3>2. /\ pending' \in [BleRequestKey -> Requests \cup {NoRequest}]
            /\ quarantined' \subseteq {k \in BleRequestKey : pending'[k] = NoRequest}
        BY <3>1 DEF BleTypeOK
      <3>3. /\ answer' \in [Requests -> Answer]
            /\ phase' \in [Requests -> {"new", "waiting", "writing", "acking", "done"}]
        BY <3>1 DEF BleTypeOK, Answer
      <3> QED BY <1>2, <2>2, <3>2, <3>3 DEF BleTypeOK, AckTimeout
    <2> QED BY <2>3, <2>4
  <1> QED BY <1>1, <1>2

\* What Dart takes off its channels.
LEMMA DeliveryTypes ==
    ASSUME BleTypeOK, DeliverCall \/ DeliverEvent
    PROVE  BleTypeOK'
  <1>1. CASE DeliverCall
    <2>0. channel \in Seq(Message)
      BY DEF BleTypeOK
    <2>1. PICK m \in Message : m = Head(channel)
      BY <1>1, <2>0, TakenOff DEF DeliverCall
    <2>2. /\ channel' \in Seq(Message)
          /\ UNCHANGED <<native, events, sending, unanswered, writes>>
      BY <1>1, <2>0, TakenOff DEF DeliverCall
    <2>3. CASE m.type \in {"connecting", "connected"} /\ HandleConnection(m)
               /\ UNCHANGED <<scope, attempts, answeredBy>>
      <3>1. m.generation \in Generations /\ m.pair \in Pairs
        BY <2>3, MessageShape
      <3>2. CASE m.generation < generation
        BY <2>2, <2>3, <3>2 DEF HandleConnection, BleTypeOK
      <3>3. CASE ~(m.generation < generation) /\ m.generation = generation
        BY <2>2, <2>3, <3>1, <3>3 DEF HandleConnection, BleTypeOK
      <3>4. CASE ~(m.generation < generation) /\ m.generation # generation
        <4>1. /\ AdoptGeneration(m.generation)
              /\ pair' \in Pairs \cup {Unselected} /\ ready' \subseteq Sides
          BY <2>3, <3>1, <3>4 DEF HandleConnection
        <4> QED BY <2>2, <2>3, <3>1, <4>1, AdoptTypes DEF BleTypeOK
      <3> QED BY <3>2, <3>3, <3>4
    <2>4. CASE m.type = "disconnected" /\ HandleDisconnection(m)
               /\ UNCHANGED <<scope, attempts, answeredBy>>
      <3>1. m.generation \in Generations /\ m.pair \in Pairs /\ m.up \subseteq Sides
        BY <2>4, MessageShape
      <3>2. CASE m.generation < generation
        BY <2>2, <2>4, <3>2 DEF HandleDisconnection, BleTypeOK
      <3>3. CASE ~(m.generation < generation)
        <4>1. pair' \in Pairs \cup {Unselected} /\ ready' \subseteq Sides
          BY <2>4, <3>1, <3>3 DEF HandleDisconnection
        <4>2. CASE m.generation = generation
          <5>1. FailPending(generation, m.sides) /\ UNCHANGED generation
            BY <2>4, <3>3, <4>2 DEF HandleDisconnection
          <5> QED BY <2>2, <2>4, <4>1, <5>1, FailTypes DEF BleTypeOK
        <4>3. CASE m.generation # generation
          <5>1. AdoptGeneration(m.generation)
            BY <2>4, <3>3, <4>3 DEF HandleDisconnection
          <5> QED BY <2>2, <2>4, <3>1, <4>1, <5>1, AdoptTypes DEF BleTypeOK
        <4> QED BY <4>2, <4>3
      <3> QED BY <3>2, <3>3
    <2>5. CASE m.type = "reply" /\ HandleReply(m.request, m.accepted)
               /\ UNCHANGED <<generation, pair, ready, quarantined, scope, answeredBy>>
      <3>1. PICK r \in Requests : r = m.request
        BY <2>5, MessageShape
      <3>2. PICK key \in BleRequestKey : key = KeyOf(r)
        BY KeyShape
      <3>3. CASE UNCHANGED <<pending, timers, phase, attempts, answer>>
        BY <2>2, <2>5, <3>3 DEF BleTypeOK
      <3>4. CASE /\ timers' = [timers EXCEPT ![key] = NoRequest]
                 /\ phase' = [phase EXCEPT ![r] = "done"]
                 /\ UNCHANGED <<pending, attempts, answer>>
        BY <2>2, <2>5, <3>4 DEF BleTypeOK
      <3>5. CASE /\ pending' = Released(key, r)
                 /\ timers' = [timers EXCEPT ![key] = NoRequest]
                 /\ Return(r, "notWritten")
        <4>1. /\ pending' \in [BleRequestKey -> Requests \cup {NoRequest}]
              /\ quarantined \subseteq {k \in BleRequestKey : pending'[k] = NoRequest}
              /\ timers' \in [BleRequestKey -> Requests \cup {NoRequest}]
          BY <3>5 DEF BleTypeOK, Released
        <4> QED BY <2>2, <2>5, <3>5, <4>1, Returns DEF BleTypeOK
      <3>6. CASE /\ timers' = [timers EXCEPT ![key] = r]
                 /\ phase' = [phase EXCEPT ![r] = "acking"]
                 /\ UNCHANGED <<pending, attempts, answer>>
        BY <2>2, <2>5, <3>6 DEF BleTypeOK
      <3> QED BY <2>5, <3>1, <3>2, <3>3, <3>4, <3>5, <3>6 DEF HandleReply
    <2> QED BY <1>1, <2>1, <2>3, <2>4, <2>5 DEF DeliverCall
  <1>2. CASE DeliverEvent
    <2>0. events \in Seq(Response)
      BY DEF BleTypeOK
    <2>1. PICK m \in Response : m = Head(events)
      BY <1>2, <2>0, TakenOff DEF DeliverEvent
    <2>2. /\ events' \in Seq(Response)
          /\ UNCHANGED <<generation, pair, ready, scope, attempts, native, channel, sending,
                         unanswered, writes>>
      BY <1>2, <2>0, TakenOff DEF DeliverEvent
    <2>3. /\ m.generation \in Generations /\ m.request \in Requests
          /\ [generation |-> m.generation, to |-> Target[m.request]] \in BleRequestKey
      BY KeyShape, MessageShape
    <2>4. PICK key \in BleRequestKey : key = [generation |-> m.generation, to |-> Target[m.request]]
      BY <2>3
    <2>5. CASE UNCHANGED <<pending, quarantined, timers, phase, answer, answeredBy>>
      BY <2>2, <2>5 DEF BleTypeOK
    <2>6. CASE /\ quarantined' = quarantined \ {key}
               /\ UNCHANGED <<pending, timers, phase, answer, answeredBy>>
      BY <2>2, <2>6 DEF BleTypeOK
    <2>7. CASE /\ timers' = [timers EXCEPT ![key] = NoRequest]
               /\ pending' = [pending EXCEPT ![key] = NoRequest]
               /\ UNCHANGED quarantined
               /\ \/ UNCHANGED <<phase, answer, answeredBy>>
                  \/ /\ pending[key] # NoRequest
                     /\ answer' = [answer EXCEPT ![pending[key]] = "answered"]
                     /\ answeredBy' = [answeredBy EXCEPT ![pending[key]] = m.request]
                     /\ phase' = [phase EXCEPT ![pending[key]] = IF @ = "acking" THEN "done" ELSE @]
      <3>1. /\ timers' \in [BleRequestKey -> Requests \cup {NoRequest}]
            /\ pending' \in [BleRequestKey -> Requests \cup {NoRequest}]
            /\ quarantined' \subseteq {k \in BleRequestKey : pending'[k] = NoRequest}
        <4>1. /\ timers' \in [BleRequestKey -> Requests \cup {NoRequest}]
              /\ pending' \in [BleRequestKey -> Requests \cup {NoRequest}]
          BY <2>7 DEF BleTypeOK
        <4>2. \A k \in quarantined : k \in BleRequestKey /\ pending[k] = NoRequest
          BY DEF BleTypeOK
        <4> QED BY <2>7, <4>1, <4>2
      <3>2. /\ answer' \in [Requests -> Answer]
            /\ answeredBy' \in [Requests -> Requests \cup {NoRequest}]
            /\ phase' \in [Requests -> {"new", "waiting", "writing", "acking", "done"}]
        <4>1. CASE UNCHANGED <<phase, answer, answeredBy>>
          BY <4>1 DEF BleTypeOK
        <4>2. CASE ~UNCHANGED <<phase, answer, answeredBy>>
          <5>1. PICK o \in Requests : o = pending[key]
            BY <2>7, <4>2 DEF BleTypeOK
          <5>2. answer' \in [Requests -> Answer]
            BY <2>7, <4>2, <5>1 DEF BleTypeOK, Answer
          <5>3. answeredBy' \in [Requests -> Requests \cup {NoRequest}]
            BY <2>3, <2>7, <4>2, <5>1 DEF BleTypeOK
          <5>4. phase' \in [Requests -> {"new", "waiting", "writing", "acking", "done"}]
            <6>1. phase' = [phase EXCEPT ![o] = IF phase[o] = "acking" THEN "done" ELSE phase[o]]
              BY <2>7, <4>2, <5>1
            <6> QED BY <6>1 DEF BleTypeOK
          <5> QED BY <5>2, <5>3, <5>4
        <4> QED BY <4>1, <4>2
      <3> QED BY <2>2, <3>1, <3>2 DEF BleTypeOK
    <2>8. HandleResponse(m)
      BY <1>2, <2>1 DEF DeliverEvent
    <2> QED BY <2>4, <2>5, <2>6, <2>7, <2>8 DEF HandleResponse
  <1> QED BY <1>1, <1>2

\* The native side and the glasses.
LEMMA NativeTypes ==
    ASSUME BleTypeOK, LinkShape,
           \/ \E p \in Pairs : NativeConnect(p)
           \/ NativeReady
           \/ \E sides \in {{"L"}, {"R"}, Sides} : NativeDisconnect(sides)
           \/ \E r \in Requests : NativeSend(r) \/ GlassesAnswer(r)
    PROVE  BleTypeOK' /\ LinkShape'
  <1>0. /\ native \in Native /\ channel \in Seq(Message) /\ events \in Seq(Response)
        /\ native.generation \in Generations /\ native.pair \in Pairs \cup {Unselected}
        /\ native.up \subseteq Sides /\ MaxGeneration \in Nat
        /\ sending \subseteq Requests /\ unanswered \subseteq Requests
    BY BleAssumption DEF BleTypeOK, Native
  <1>1. ASSUME NEW p \in Pairs, NativeConnect(p) PROVE BleTypeOK' /\ LinkShape'
    <2>1. native.generation + 1 \in Generations
      BY <1>0, <1>1 DEF NativeConnect, Generations
    <2>2. native' \in Native
      BY <1>1, <2>1 DEF NativeConnect, Native
    <2>3. channel' \in Seq(Message)
      <3>1. [type |-> "connecting", generation |-> native.generation + 1, pair |-> p] \in Message
        BY <2>1 DEF Message
      <3> QED BY <1>0, <1>1, <3>1, Appended DEF NativeConnect
    <2>4. LinkShape'
      BY <1>1, BleAssumption DEF NativeConnect, LinkShape
    <2> QED BY <1>1, <2>2, <2>3, <2>4 DEF NativeConnect, dart, BleTypeOK
  <1>2. CASE NativeReady
    <2>1. native' \in Native
      BY <1>0, <1>2 DEF NativeReady, Native
    <2>2. channel' \in Seq(Message)
      <3>1. [type |-> "connected", generation |-> native.generation, pair |-> native.pair] \in Message
        BY <1>0, <1>2 DEF Message, NativeReady
      <3> QED BY <1>0, <1>2, <3>1, Appended DEF NativeReady
    <2>3. LinkShape'
      BY <1>0, <1>2 DEF NativeReady, LinkShape, Native
    <2> QED BY <1>2, <2>1, <2>2, <2>3 DEF NativeReady, dart, BleTypeOK
  <1>3. ASSUME NEW sides \in {{"L"}, {"R"}, Sides}, NativeDisconnect(sides) PROVE BleTypeOK' /\ LinkShape'
    <2>0. sides \subseteq Sides
      BY DEF Sides
    <2>1. native' \in Native
      BY <1>0, <1>3 DEF NativeDisconnect, Native
    <2>2. channel' \in Seq(Message)
      <3>1. [type |-> "disconnected", generation |-> native.generation, pair |-> native.pair,
             sides |-> sides, up |-> native.up \ sides] \in Message
        BY <1>0, <1>3, <2>0 DEF Message, NativeDisconnect
      <3> QED BY <1>0, <1>3, <3>1, Appended DEF NativeDisconnect
    <2>3. unanswered' \subseteq Requests
      BY <1>0, <1>3 DEF NativeDisconnect
    <2>4. LinkShape'
      <3>1. \A r \in unanswered : Target[r].side \in Sides
        BY <1>0, BleAssumption
      <3>2. native'.pair = Unselected => sides = Sides
        BY <1>0, <1>3 DEF NativeDisconnect, Native
      <3>3. native'.up = native.up \ sides
        BY <1>0, <1>3 DEF NativeDisconnect, Native
      <3>4. unanswered' = {r \in unanswered : Target[r].side \notin sides}
        BY <1>3 DEF NativeDisconnect
      <3> QED BY <1>0, <3>1, <3>2, <3>3, <3>4 DEF LinkShape
    <2> QED BY <1>3, <2>1, <2>2, <2>3, <2>4 DEF NativeDisconnect, dart, BleTypeOK
  <1>4. ASSUME NEW r \in Requests, NativeSend(r) PROVE BleTypeOK' /\ LinkShape'
    <2>1. channel' \in Seq(Message)
      <3>1. \A b \in BOOLEAN : [type |-> "reply", request |-> r, accepted |-> b] \in Message
        BY DEF Message
      <3>2. PICK b \in BOOLEAN :
               channel' = Append(channel, [type |-> "reply", request |-> r, accepted |-> b])
        BY <1>4 DEF NativeSend
      <3> QED BY <1>0, <3>1, <3>2, Appended
    <2>2. writes' \in [Requests -> Nat] /\ sending' \subseteq Requests /\ unanswered' \subseteq Requests
      BY <1>0, <1>4 DEF NativeSend, BleTypeOK
    <2>3. LinkShape'
      BY <1>4 DEF NativeSend, LinkShape
    <2> QED BY <1>4, <2>1, <2>2, <2>3 DEF NativeSend, dart, BleTypeOK
  <1>5. ASSUME NEW r \in Requests, GlassesAnswer(r) PROVE BleTypeOK' /\ LinkShape'
    <2>1. native.pair \in Pairs /\ LinkShape'
      BY <1>0, <1>5 DEF GlassesAnswer, LinkShape
    <2>2. events' \in Seq(Response)
      <3>1. [generation |-> native.generation, pair |-> native.pair, request |-> r] \in Response
        BY <1>0, <2>1 DEF Response
      <3> QED BY <1>0, <1>5, <3>1, Appended DEF GlassesAnswer
    <2>3. unanswered' \subseteq Requests
      BY <1>0, <1>5 DEF GlassesAnswer
    <2> QED BY <1>5, <2>1, <2>2, <2>3 DEF GlassesAnswer, dart, BleTypeOK
  <1> QED BY <1>1, <1>2, <1>3, <1>4, <1>5

-----------------------------------------------------------------------------
(* Every step keeps the invariant                                          *)

LEMMA NothingUnderWay ==
    ASSUME BleTypeOK, SentOnce, AnsweredOnce, NEW r \in Requests,
           writes[r] = 0, r \notin sending
    PROVE  ~Outstanding(r)
  BY DEF SentOnce, AnsweredOnce, Outstanding, Answering

\* A request that has not been sent owns no slot and has nothing under way.
LEMMA Unsent ==
    ASSUME BleInvariant, NEW r \in Requests, phase[r] \in {"new", "waiting"}
    PROVE  /\ r \notin sending /\ writes[r] = 0 /\ answer[r] = "none"
           /\ ~Outstanding(r) /\ ~Replied(r)
           /\ \A key \in BleRequestKey : pending[key] # r
  <1>1. r \notin sending /\ writes[r] = 0 /\ answer[r] = "none"
    BY DEF BleInvariant, SentOnce
  <1>2. ~Outstanding(r)
    BY <1>1, NothingUnderWay DEF BleInvariant
  <1>3. ~Replied(r)
    BY DEF BleInvariant, RepliedOnce, Replied
  <1>4. r # NoRequest
    BY BleAssumption
  <1>5. \A key \in BleRequestKey : pending[key] # r
    BY <1>4 DEF BleInvariant, SlotsHeld
  <1> QED BY <1>1, <1>2, <1>3, <1>5

\* A free slot without quarantine has nothing under way: it can be taken.
LEMMA SlotTaken ==
    ASSUME BleInvariant, NEW r \in Requests, phase[r] \in {"new", "waiting"},
           NEW key \in BleRequestKey, key.generation = generation, key.to = Target[r],
           key \notin quarantined, pending[key] = NoRequest, ReserveAndSend(r, key),
           scope'[r].generation = generation,
           \A s \in Requests \ {r} : scope'[s] = scope[s],
           UNCHANGED <<generation, quarantined, events, unanswered>>
    PROVE  SlotsHeld'
  <1>1. /\ BleTypeOK /\ r # NoRequest /\ answer[r] = "none"
        /\ \A k \in BleRequestKey : pending[k] # r
        /\ \A s \in Requests : KeyOf(s) \in BleRequestKey /\ KeyOf(s).generation = scope[s].generation
        /\ generation <= generation
    <2>1. BleTypeOK /\ generation \in Generations
      BY DEF BleInvariant, BleTypeOK
    <2>2. generation <= generation
      BY <2>1, BleAssumption DEF Generations
    <2> QED BY <2>1, <2>2, Unsent, KeyShape
  <1>2. /\ \A s \in Requests \ {r} : phase'[s] = phase[s]
        /\ \A k \in BleRequestKey \ {key} : pending'[k] = pending[k]
        /\ phase'[r] = "writing" /\ pending'[key] = r
        /\ sending' = sending \cup {r} /\ answer' = answer
    BY <1>1, Reserves
  <1>3. /\ KeyOf(r)' = key
        /\ \A s \in Requests \ {r} : KeyOf(s)' = KeyOf(s)
    <2>1. key = [generation |-> generation, to |-> Target[r]]
      BY DEF BleRequestKey
    <2> QED BY <2>1 DEF KeyOf
  <1>4. \A s \in Requests \ {r} : Outstanding(s)' => Outstanding(s)
    BY <1>2 DEF Outstanding, Answering
  <1>5. \A s \in Requests \ {r} : Outstanding(s) => KeyOf(s) # key
    <2> SUFFICES ASSUME NEW s \in Requests \ {r}, Outstanding(s), KeyOf(s) = key PROVE FALSE
      OBVIOUS
    <2>1. scope[s].generation = generation
      BY <1>1
    <2>2. pending[key] = s \/ key \in quarantined
      BY <2>1 DEF BleInvariant, SlotsHeld
    <2> QED BY <2>2, BleAssumption
  <1>6. ASSUME NEW k \in BleRequestKey, pending'[k] # NoRequest, NEW s, s = pending'[k]
        PROVE  KeyOf(s)' = k /\ phase'[s] \in {"writing", "acking"} /\ answer'[s] = "none"
    <2>1. CASE k = key
      BY <1>1, <1>2, <1>3, <1>6, <2>1
    <2>2. CASE k # key
      <3>1. s = pending[k] /\ s \in Requests \ {r}
        BY <1>1, <1>2, <1>6, <2>2 DEF BleTypeOK
      <3>2. KeyOf(s) = k /\ phase[s] \in {"writing", "acking"} /\ answer[s] = "none"
        BY <1>6, <3>1 DEF BleInvariant, SlotsHeld
      <3> QED BY <1>2, <1>3, <3>1, <3>2
    <2> QED BY <2>1, <2>2
  <1>7. \A s \in Requests : scope'[s].generation <= generation'
    BY <1>1 DEF BleInvariant, SlotsHeld
  <1>8. ASSUME NEW s \in Requests, Outstanding(s)', scope'[s].generation = generation'
        PROVE  pending'[KeyOf(s)'] = s \/ KeyOf(s)' \in quarantined'
    <2>1. CASE s = r
      BY <1>2, <1>3, <2>1
    <2>2. CASE s # r
      <3>1. PICK k \in BleRequestKey : k = KeyOf(s) /\ k = KeyOf(s)' /\ k # key
        BY <1>1, <1>3, <1>4, <1>5, <1>8, <2>2
      <3>2. pending[k] = s \/ k \in quarantined
        <4>1. Outstanding(s) /\ scope[s].generation = generation
          BY <1>4, <1>8, <2>2
        <4> QED BY <3>1, <4>1 DEF BleInvariant, SlotsHeld
      <3> QED BY <1>2, <3>1, <3>2
    <2> QED BY <2>1, <2>2
  <1>9. ASSUME NEW s \in Requests, NEW t \in Requests, Outstanding(s)', Outstanding(t)',
               KeyOf(s)' = KeyOf(t)'
        PROVE  s = t
    BY <1>3, <1>4, <1>5, <1>9 DEF BleInvariant, SlotsHeld
  <1> QED BY <1>6, <1>7, <1>8, <1>9 DEF SlotsHeld

\* request() and the poll of a busy slot.
LEMMA RequestStep ==
    ASSUME BleInvariant, NEW r \in Requests, Request(r) \/ Poll(r)
    PROVE  BleInvariant'
  <1>1. /\ BleTypeOK /\ SentOnce /\ RepliedOnce /\ AnsweredOnce /\ SlotsHeld
        /\ ResponseMatchesRequest /\ LinkShape /\ BleTypeOK' /\ generation \in Generations
    BY RequestTypes DEF BleInvariant, BleTypeOK
  <1>2. /\ phase[r] \in {"new", "waiting"}
        /\ UNCHANGED <<generation, quarantined, answeredBy, native, channel, events,
                       unanswered, writes>>
        /\ \A s \in Requests \ {r} : scope'[s] = scope[s]
        /\ scope'[r] = scope[r] \/ scope'[r].generation = generation
    BY <1>1 DEF Request, Poll, BleTypeOK, Authority
  <1>3. /\ r \notin sending /\ writes[r] = 0 /\ answer[r] = "none" /\ ~Outstanding(r) /\ ~Replied(r)
        /\ \A key \in BleRequestKey : pending[key] # r
    BY <1>2, Unsent
  <1>4. LinkShape'
    BY <1>1, <1>2 DEF LinkShape
  <1>5. AnsweredOnce' /\ \A s : Answering(s)' <=> Answering(s)
    BY <1>1, <1>2, <1>3, ResponsesKept DEF Answering
  <1>6. ASSUME UNCHANGED <<sending, pending>>,
               \A s \in Requests \ {r} : phase'[s] = phase[s] /\ answer'[s] = answer[s],
               \/ phase'[r] \in {"new", "waiting"} /\ answer'[r] = "none"
               \/ phase'[r] = "done" /\ answer'[r] \in {"notWritten", "mayHave"}
        PROVE  BleInvariant'
    <2>1. SentOnce'
      BY <1>1, <1>2, <1>3, <1>6 DEF SentOnce
    <2>2. RepliedOnce'
      <3>1. \A s \in Requests : phase'[s] \in {"new", "waiting"} => phase[s] \in {"new", "waiting"}
        BY <1>2, <1>6
      <3> QED BY <1>1, <1>2, <1>6, <3>1, RepliesKept
    <2>3. SlotsHeld'
      <3>1. \A s \in Requests : Outstanding(s)' <=> Outstanding(s)
        BY <1>2, <1>5, <1>6 DEF Outstanding
      <3>2. ASSUME NEW key \in BleRequestKey, pending'[key] # NoRequest
            PROVE  /\ phase'[pending'[key]] \in {"writing", "acking"}
                   /\ answer'[pending'[key]] = "none"
        <4>1. pending'[key] = pending[key] /\ pending[key] \in Requests \ {r}
          BY <1>1, <1>3, <1>6, <3>2 DEF BleTypeOK
        <4>2. phase[pending[key]] \in {"writing", "acking"} /\ answer[pending[key]] = "none"
          BY <1>1, <3>2, <4>1 DEF SlotsHeld
        <4> QED BY <1>6, <4>1, <4>2
      <3>3. \A s \in Requests :
               \/ scope'[s] = scope[s]
               \/ /\ scope'[s].generation = generation /\ ~Outstanding(s)'
                  /\ \A key \in BleRequestKey : pending'[key] # s
        BY <1>2, <1>3, <1>6, <3>1
      <3> QED BY <1>1, <1>2, <1>6, <3>1, <3>2, <3>3, SlotsKept
    <2>4. ResponseMatchesRequest'
      BY <1>1, <1>2, <1>6 DEF ResponseMatchesRequest
    <2> QED BY <1>1, <1>4, <1>5, <2>1, <2>2, <2>3, <2>4 DEF BleInvariant
  <1>7. ASSUME NEW key \in BleRequestKey, key.generation = generation, key.to = Target[r],
               key \notin quarantined, pending[key] = NoRequest, ReserveAndSend(r, key),
               scope'[r].generation = generation
        PROVE  BleInvariant'
    <2>1. /\ \A s \in Requests \ {r} : phase'[s] = phase[s]
          /\ phase'[r] = "writing" /\ sending' = sending \cup {r} /\ answer' = answer
      BY <1>1, <1>7, Reserves
    <2>2. SentOnce'
      BY <1>1, <1>2, <1>3, <2>1 DEF SentOnce
    <2>3. RepliedOnce'
      BY <1>1, <1>2, <2>1, RepliesKept
    <2>4. SlotsHeld'
      BY <1>2, <1>7, SlotTaken
    <2>5. ResponseMatchesRequest'
      BY <1>1, <1>2, <2>1 DEF ResponseMatchesRequest
    <2> QED BY <1>1, <1>4, <1>5, <2>2, <2>3, <2>4, <2>5 DEF BleInvariant
  <1>8. CASE Request(r)
    <2>1. PICK key \in BleRequestKey : key = [generation |-> generation, to |-> Target[r]]
      BY <1>1, KeyShape
    <2>2. scope'[r].generation = generation
      BY <1>1, <1>8 DEF Request, Authority, BleTypeOK
    <2>3. CASE /\ phase' = [phase EXCEPT ![r] = "done"]
               /\ answer' = [answer EXCEPT ![r] = "notWritten"]
               /\ UNCHANGED <<pending, sending, attempts>>
      <3>1. /\ phase'[r] = "done" /\ answer'[r] = "notWritten"
            /\ \A s \in Requests \ {r} : phase'[s] = phase[s] /\ answer'[s] = answer[s]
        BY <1>1, <2>3 DEF BleTypeOK
      <3> QED BY <1>6, <2>3, <3>1
    <2>4. CASE \E a \in {"notWritten", "mayHave"} : Return(r, a) /\ UNCHANGED <<pending, sending>>
      BY <1>1, <1>6, <2>4, Returns
    <2>5. CASE /\ phase' = [phase EXCEPT ![r] = "waiting"]
               /\ UNCHANGED <<pending, sending, attempts, answer>>
      <3>1. /\ phase'[r] = "waiting" /\ answer'[r] = "none"
            /\ \A s \in Requests \ {r} : phase'[s] = phase[s] /\ answer'[s] = answer[s]
        BY <1>1, <1>3, <2>5 DEF BleTypeOK
      <3> QED BY <1>6, <2>5, <3>1
    <2>6. CASE key \notin quarantined /\ pending[key] = NoRequest /\ ReserveAndSend(r, key)
      BY <1>7, <2>1, <2>2, <2>6
    <2> QED BY <1>8, <2>1, <2>3, <2>4, <2>5, <2>6 DEF Request
  <1>9. CASE Poll(r)
    <2>1. PICK key \in BleRequestKey : key = KeyOf(r)
      BY <1>1, KeyShape
    <2>2. CASE \E a \in {"notWritten", "mayHave"} : Return(r, a) /\ UNCHANGED <<pending, sending>>
      BY <1>1, <1>6, <2>2, Returns
    <2>3. CASE /\ ~AuthorityChanged(r) /\ key \notin quarantined /\ pending[key] = NoRequest
               /\ ReserveAndSend(r, key)
      <3>1. scope'[r].generation = generation /\ key.generation = generation /\ key.to = Target[r]
        BY <1>1, <1>9, <2>1, <2>3 DEF Poll, AuthorityChanged, Authority, KeyOf
      <3> QED BY <1>7, <2>3, <3>1
    <2> QED BY <1>9, <2>1, <2>2, <2>3 DEF Poll
  <1> QED BY <1>8, <1>9

\* Slots taken from their owners, who are told that the write may have happened.
LEMMA OwnersTold ==
    ASSUME BleInvariant, NEW keys \in SUBSET BleRequestKey, NEW owners,
           owners \subseteq {pending[key] : key \in keys},
           \A key \in keys : pending[key] # NoRequest => pending[key] \in owners,
           pending' = [key \in BleRequestKey |-> IF key \in keys THEN NoRequest ELSE pending[key]],
           answer' = [r \in Requests |-> IF r \in owners THEN "mayHave" ELSE answer[r]],
           phase' = [r \in Requests |->
                       IF r \in owners /\ phase[r] = "acking" THEN "done" ELSE phase[r]],
           UNCHANGED <<scope, sending, unanswered, events, writes, native, answeredBy>>,
           channel' = channel \/ (channel # <<>> /\ channel' = Tail(channel))
    PROVE  /\ SentOnce' /\ RepliedOnce' /\ AnsweredOnce' /\ ResponseMatchesRequest' /\ LinkShape'
           /\ \A key \in BleRequestKey : pending'[key] # NoRequest =>
                 /\ phase'[pending'[key]] \in {"writing", "acking"}
                 /\ answer'[pending'[key]] = "none"
           /\ \A r : Outstanding(r)' <=> Outstanding(r)
  <1>1. /\ BleTypeOK /\ SentOnce /\ RepliedOnce /\ AnsweredOnce /\ SlotsHeld
        /\ ResponseMatchesRequest /\ LinkShape /\ NoRequest \notin Requests
    BY BleAssumption DEF BleInvariant
  <1>2. \A r \in owners \cap Requests :
           /\ phase[r] \in {"writing", "acking"}
           /\ \E key \in keys : pending[key] = r /\ KeyOf(r) = key
    BY <1>1 DEF SlotsHeld
  <1>3. \A r \in Requests :
           \/ phase'[r] = phase[r] /\ answer'[r] = answer[r]
           \/ phase'[r] \notin {"new", "waiting"} /\ answer'[r] \notin {"notWritten", "answered"}
    BY <1>2
  <1>4. SentOnce'
    BY <1>1, <1>3, SentKept
  <1>5. RepliedOnce'
    BY <1>1, <1>3, RepliesKept
  <1>6. AnsweredOnce' /\ \A r : Outstanding(r)' <=> Outstanding(r)
    BY <1>1, ResponsesKept DEF Outstanding, Answering
  <1>7. ResponseMatchesRequest' /\ LinkShape'
    BY <1>1, <1>3 DEF ResponseMatchesRequest, LinkShape
  <1>8. ASSUME NEW key \in BleRequestKey, pending'[key] # NoRequest
        PROVE  /\ phase'[pending'[key]] \in {"writing", "acking"}
               /\ answer'[pending'[key]] = "none"
    <2>1. PICK r \in Requests : r = pending'[key] /\ r = pending[key] /\ key \notin keys
      BY <1>1, <1>8 DEF BleTypeOK
    <2>2. KeyOf(r) = key /\ phase[r] \in {"writing", "acking"} /\ answer[r] = "none"
      BY <1>1, <2>1 DEF SlotsHeld
    <2>3. r \notin owners
      BY <1>2, <2>1, <2>2
    <2> QED BY <2>1, <2>2, <2>3
  <1> QED BY <1>4, <1>5, <1>6, <1>7, <1>8

\* _failPendingRequests quarantines what it gives up.
LEMMA PendingFails ==
    ASSUME BleInvariant, BleTypeOK', NEW g, NEW sides, FailPending(g, sides),
           UNCHANGED <<generation, scope, sending, unanswered, events, writes, native, answeredBy>>,
           channel' = channel \/ (channel # <<>> /\ channel' = Tail(channel))
    PROVE  BleInvariant'
  <1>1. PICK keys \in SUBSET BleRequestKey :
           keys = {key \in BleRequestKey : /\ key.generation = g /\ key.to.side \in sides
                                           /\ pending[key] # NoRequest}
    OBVIOUS
  <1>2. PICK owners : owners = {pending[key] : key \in keys}
    OBVIOUS
  <1>3. /\ pending' = [key \in BleRequestKey |-> IF key \in keys THEN NoRequest ELSE pending[key]]
        /\ quarantined' = quarantined \cup keys
        /\ answer' = [r \in Requests |-> IF r \in owners THEN "mayHave" ELSE answer[r]]
        /\ phase' = [r \in Requests |->
                       IF r \in owners /\ phase[r] = "acking" THEN "done" ELSE phase[r]]
    BY <1>1, <1>2 DEF FailPending
  <1>4. /\ SentOnce' /\ RepliedOnce' /\ AnsweredOnce' /\ ResponseMatchesRequest' /\ LinkShape'
        /\ \A key \in BleRequestKey : pending'[key] # NoRequest =>
              /\ phase'[pending'[key]] \in {"writing", "acking"}
              /\ answer'[pending'[key]] = "none"
        /\ \A r : Outstanding(r)' <=> Outstanding(r)
    <2>1. /\ owners \subseteq {pending[key] : key \in keys}
          /\ \A key \in keys : pending[key] # NoRequest => pending[key] \in owners
      BY <1>2
    <2> HIDE <1>2
    <2> QED BY <1>3, <2>1, OwnersTold
  <1>5. SlotsHeld'
    <2>1. \A key \in BleRequestKey :
             \/ pending'[key] = pending[key]
             \/ pending'[key] = NoRequest /\ key \in quarantined'
      BY <1>3
    <2>2. \A key \in quarantined : key \in quarantined'
      BY <1>3
    <2>3. BleTypeOK /\ SlotsHeld
      BY DEF BleInvariant
    <2> QED BY <1>4, <2>1, <2>2, <2>3, SlotsKept
  <1> QED BY <1>4, <1>5 DEF BleInvariant

\* _adoptGeneration: no request knows the new connection yet.
LEMMA GenerationAdopted ==
    ASSUME BleInvariant, BleTypeOK', NEW g \in Generations, generation < g, AdoptGeneration(g),
           UNCHANGED <<scope, sending, unanswered, events, writes, native, answeredBy>>,
           channel' = channel \/ (channel # <<>> /\ channel' = Tail(channel))
    PROVE  BleInvariant'
  <1>1. PICK keys \in SUBSET BleRequestKey :
           keys = {key \in BleRequestKey : key.generation = generation}
    OBVIOUS
  <1>2. PICK owners : owners = {pending[key] : key \in keys}
    OBVIOUS
  <1>3. /\ generation' = g
        /\ pending' = [key \in BleRequestKey |-> IF key \in keys THEN NoRequest ELSE pending[key]]
        /\ answer' = [r \in Requests |-> IF r \in owners THEN "mayHave" ELSE answer[r]]
        /\ phase' = [r \in Requests |->
                       IF r \in owners /\ phase[r] = "acking" THEN "done" ELSE phase[r]]
    BY <1>1, <1>2 DEF AdoptGeneration
  <1>4. /\ SentOnce' /\ RepliedOnce' /\ AnsweredOnce' /\ ResponseMatchesRequest' /\ LinkShape'
        /\ \A key \in BleRequestKey : pending'[key] # NoRequest =>
              /\ phase'[pending'[key]] \in {"writing", "acking"}
              /\ answer'[pending'[key]] = "none"
        /\ \A r : Outstanding(r)' <=> Outstanding(r)
    <2>1. /\ owners \subseteq {pending[key] : key \in keys}
          /\ \A key \in keys : pending[key] # NoRequest => pending[key] \in owners
      BY <1>2
    <2> HIDE <1>2
    <2> QED BY <1>3, <2>1, OwnersTold
  <1>5. SlotsHeld'
    <2>1. /\ BleTypeOK /\ SlotsHeld /\ generation \in Nat /\ g \in Nat
          /\ \A r \in Requests : scope[r].generation \in Nat /\ KeyOf(r)' = KeyOf(r)
      <3>1. BleTypeOK /\ SlotsHeld /\ Generations \subseteq Nat
        BY BleAssumption DEF BleInvariant, Generations
      <3>2. \A r \in Requests : scope[r].generation \in Generations
        BY <3>1, KeyShape
      <3>3. generation \in Generations
        BY <3>1 DEF BleTypeOK
      <3> QED BY <3>1, <3>2, <3>3 DEF KeyOf
    <2>2. \A r \in Requests : scope'[r].generation <= generation' /\ scope'[r].generation # generation'
      <3>1. \A r \in Requests : scope[r].generation <= generation
        BY <2>1 DEF SlotsHeld
      <3> QED BY <1>3, <2>1, <3>1
    <2>3. ASSUME NEW key \in BleRequestKey, pending'[key] # NoRequest, NEW r, r = pending'[key]
          PROVE  KeyOf(r)' = key
      <3>1. r = pending[key] /\ r \in Requests
        BY <1>3, <2>1, <2>3 DEF BleTypeOK
      <3> QED BY <2>1, <2>3, <3>1 DEF SlotsHeld
    <2>4. \A r, s \in Requests : Outstanding(r)' /\ Outstanding(s)' /\ KeyOf(r)' = KeyOf(s)' => r = s
      BY <1>4, <2>1 DEF SlotsHeld
    <2> QED BY <1>4, <2>2, <2>3, <2>4 DEF SlotsHeld
  <1> QED BY <1>4, <1>5 DEF BleInvariant

\* connectToGlasses().
LEMMA ConnectStep ==
    ASSUME BleInvariant, NEW p \in Pairs, ConnectToGlasses(p)
    PROVE  BleInvariant'
  <1>1. BleTypeOK /\ FailPending(generation, Sides)
    BY DEF BleInvariant, ConnectToGlasses
  <1>2. BleTypeOK'
    BY <1>1, FailTypes DEF ConnectToGlasses, BleTypeOK
  <1> QED BY <1>1, <1>2, PendingFails DEF ConnectToGlasses

\* The timers.
LEMMA SendTimeoutStep ==
    ASSUME BleInvariant, NEW r \in Requests, SendTimeout(r)
    PROVE  BleInvariant'
  <1>1. /\ BleTypeOK /\ SentOnce /\ RepliedOnce /\ AnsweredOnce /\ SlotsHeld
        /\ ResponseMatchesRequest /\ LinkShape /\ BleTypeOK' /\ r # NoRequest
    BY TimeoutTypes, BleAssumption DEF BleInvariant
  <1>2. PICK key \in BleRequestKey : key = KeyOf(r)
    BY <1>1, KeyShape
  <1>3. /\ phase[r] = "writing" /\ phase'[r] = "done"
        /\ answer'[r] = IF answer[r] = "none" THEN "mayHave" ELSE answer[r]
        /\ \A s \in Requests \ {r} : phase'[s] = phase[s] /\ answer'[s] = answer[s]
        /\ pending'[key] = IF pending[key] = r THEN NoRequest ELSE pending[key]
        /\ \A k \in BleRequestKey \ {key} : pending'[k] = pending[k]
        /\ answer[r] = "none" /\ pending[key] = r => key \in quarantined'
        /\ quarantined \subseteq quarantined'
        /\ UNCHANGED <<generation, scope, answeredBy, native, channel, events, sending,
                       unanswered, writes>>
    BY <1>1, <1>2 DEF SendTimeout, QuarantinedIfOwned, Released, BleTypeOK
  <1>4. \A s \in Requests :
           \/ phase'[s] = phase[s] /\ answer'[s] = answer[s]
           \/ phase'[s] \notin {"new", "waiting"} /\ answer'[s] # "notWritten"
    BY <1>1, <1>3 DEF SentOnce
  <1>5. SentOnce' /\ RepliedOnce' /\ AnsweredOnce'
    BY <1>1, <1>3, <1>4, SentKept, RepliesKept, ResponsesKept
  <1>6. ResponseMatchesRequest' /\ LinkShape'
    BY <1>1, <1>3 DEF ResponseMatchesRequest, LinkShape
  <1>7. SlotsHeld'
    <2>1. \A s \in Requests : Outstanding(s)' <=> Outstanding(s)
      BY <1>3 DEF Outstanding, Answering
    <2>2. pending[key] = r => answer[r] = "none"
      BY <1>1 DEF SlotsHeld
    <2>3. \A k \in BleRequestKey :
             \/ pending'[k] = pending[k]
             \/ pending'[k] = NoRequest /\ k \in quarantined'
      BY <1>3, <2>2
    <2>4. ASSUME NEW k \in BleRequestKey, pending'[k] # NoRequest
          PROVE  phase'[pending'[k]] \in {"writing", "acking"} /\ answer'[pending'[k]] = "none"
      <3>1. PICK s \in Requests : s = pending[k] /\ s = pending'[k]
        BY <1>1, <2>3, <2>4 DEF BleTypeOK
      <3>2. KeyOf(s) = k /\ phase[s] \in {"writing", "acking"} /\ answer[s] = "none"
        BY <1>1, <2>4, <3>1 DEF SlotsHeld
      <3>3. s # r
        BY <1>2, <1>3, <2>4, <3>1, <3>2
      <3> QED BY <1>3, <3>1, <3>2, <3>3
    <2> QED BY <1>1, <1>3, <2>1, <2>3, <2>4, SlotsKept
  <1> QED BY <1>1, <1>5, <1>6, <1>7 DEF BleInvariant

LEMMA AckTimeoutStep ==
    ASSUME BleInvariant, NEW key \in BleRequestKey, AckTimeout(key)
    PROVE  BleInvariant'
  <1>1. /\ BleTypeOK /\ SentOnce /\ RepliedOnce /\ AnsweredOnce /\ SlotsHeld
        /\ ResponseMatchesRequest /\ LinkShape /\ BleTypeOK'
    BY TimeoutTypes DEF BleInvariant
  <1>2. PICK r \in Requests : r = timers[key] /\ r # NoRequest
    BY <1>1 DEF AckTimeout, BleTypeOK
  <1>3. UNCHANGED <<generation, scope, answeredBy, native, channel, events, sending,
                    unanswered, writes>>
    BY DEF AckTimeout
  <1>4. \/ UNCHANGED <<pending, quarantined, answer, phase>>
        \/ /\ pending[key] = r /\ pending'[key] = NoRequest /\ quarantined' = quarantined \cup {key}
           /\ \A k \in BleRequestKey \ {key} : pending'[k] = pending[k]
           /\ \A s \in Requests \ {r} : phase'[s] = phase[s] /\ answer'[s] = answer[s]
           /\ answer'[r] = "mayHave" /\ phase'[r] = "done"
    BY <1>1, <1>2 DEF AckTimeout, BleTypeOK
  <1>5. \A s \in Requests :
           \/ phase'[s] = phase[s] /\ answer'[s] = answer[s]
           \/ phase'[s] \notin {"new", "waiting"} /\ answer'[s] \notin {"notWritten", "answered"}
    BY <1>4
  <1>6. SentOnce' /\ RepliedOnce' /\ AnsweredOnce'
    <2>1. \A s \in Requests : phase'[s] \in {"new", "waiting"} => phase[s] \in {"new", "waiting"}
      BY <1>5
    <2> QED BY <1>1, <1>3, <1>5, <2>1, SentKept, RepliesKept, ResponsesKept
  <1>7. ResponseMatchesRequest' /\ LinkShape'
    BY <1>1, <1>3, <1>5 DEF ResponseMatchesRequest, LinkShape
  <1>8. SlotsHeld'
    <2>1. \A s \in Requests : Outstanding(s)' <=> Outstanding(s)
      BY <1>3 DEF Outstanding, Answering
    <2>2. /\ \A k \in BleRequestKey :
                \/ pending'[k] = pending[k]
                \/ pending'[k] = NoRequest /\ k \in quarantined'
          /\ \A k \in quarantined : k \in quarantined'
      BY <1>4
    <2>3. ASSUME NEW k \in BleRequestKey, pending'[k] # NoRequest
          PROVE  phase'[pending'[k]] \in {"writing", "acking"} /\ answer'[pending'[k]] = "none"
      <3>1. PICK s \in Requests : s = pending[k] /\ s = pending'[k]
        BY <1>1, <2>2, <2>3 DEF BleTypeOK
      <3>2. KeyOf(s) = k /\ phase[s] \in {"writing", "acking"} /\ answer[s] = "none"
        BY <1>1, <2>3, <3>1 DEF SlotsHeld
      <3>3. pending[key] = r => KeyOf(r) = key
        BY <1>1, <1>2 DEF SlotsHeld
      <3>4. CASE UNCHANGED <<pending, quarantined, answer, phase>>
        BY <3>1, <3>2, <3>4
      <3>5. CASE pending[key] = r /\ pending'[key] = NoRequest
        <4>1. s # r
          BY <2>3, <3>1, <3>2, <3>3, <3>5
        <4> QED BY <1>4, <3>1, <3>2, <4>1
      <3> QED BY <1>4, <3>4, <3>5
    <2> QED BY <1>1, <1>3, <2>1, <2>2, <2>3, SlotsKept
  <1> QED BY <1>1, <1>6, <1>7, <1>8 DEF BleInvariant

\* The reply to a send: a refusal is the only way back to a new attempt.
LEMMA ReplyStep ==
    ASSUME BleInvariant, BleTypeOK', channel # <<>>, channel' = Tail(channel),
           NEW r \in Requests, NEW m, m = Head(channel), IsReply(m, r),
           m.accepted \in BOOLEAN, HandleReply(r, m.accepted),
           UNCHANGED <<generation, pair, ready, quarantined, scope, answeredBy>>,
           UNCHANGED <<native, events, sending, unanswered, writes>>
    PROVE  BleInvariant'
  <1>1. /\ BleTypeOK /\ SentOnce /\ RepliedOnce /\ AnsweredOnce /\ SlotsHeld
        /\ ResponseMatchesRequest /\ LinkShape /\ r # NoRequest
    BY BleAssumption DEF BleInvariant
  <1>2. PICK key \in BleRequestKey : key = KeyOf(r)
    BY <1>1, KeyShape
  <1>3. /\ phase[r] \notin {"new", "waiting"} /\ r \notin sending
        /\ ~m.accepted => writes[r] = 0 /\ ~Outstanding(r)
        /\ ~Replied(r)'
    <2>0. channel \in Seq(Message)
      BY <1>1 DEF BleTypeOK
    <2>1. /\ 1 \in DOMAIN channel /\ m = channel[1]
          /\ \A i \in DOMAIN channel' : /\ i + 1 \in DOMAIN channel /\ i + 1 # 1
                                        /\ channel'[i] = channel[i + 1]
      BY <2>0, TakenOff
    <2>2. /\ phase[r] \notin {"new", "waiting"} /\ r \notin sending
          /\ ~m.accepted => writes[r] = 0
          /\ \A j \in DOMAIN channel : IsReply(channel[j], r) => j = 1
      BY <1>1, <2>1 DEF RepliedOnce
    <2>3. ~Replied(r)'
      BY <2>1, <2>2 DEF Replied
    <2> QED BY <1>1, <2>2, <2>3, NothingUnderWay
  <1>4. AnsweredOnce' /\ LinkShape' /\ \A s \in Requests : Outstanding(s)' <=> Outstanding(s)
    BY <1>1, ResponsesKept DEF LinkShape, Outstanding, Answering
  <1>5. /\ \A s \in Requests \ {r} : phase'[s] = phase[s] /\ answer'[s] = answer[s]
        /\ \A k \in BleRequestKey \ {key} : pending'[k] = pending[k]
        /\ \/ phase'[r] = phase[r] /\ answer'[r] = answer[r] /\ pending'[key] = pending[key]
           \/ /\ phase[r] = "writing" /\ answer[r] # "none" /\ phase'[r] = "done"
              /\ answer'[r] = answer[r] /\ pending'[key] = pending[key]
           \/ /\ ~m.accepted
              /\ \/ phase'[r] = "new" /\ answer'[r] = "none"
                 \/ phase'[r] = "done" /\ answer'[r] = "notWritten"
              /\ pending'[key] = IF pending[key] = r THEN NoRequest ELSE pending[key]
           \/ /\ answer[r] = "none" /\ answer'[r] = "none" /\ phase'[r] = "acking"
              /\ pending'[key] = pending[key]
    <2>1. CASE UNCHANGED <<pending, timers, phase, attempts, answer>>
      BY <2>1
    <2>2. CASE /\ phase[r] = "writing" /\ answer[r] # "none"
               /\ phase' = [phase EXCEPT ![r] = "done"]
               /\ UNCHANGED <<pending, attempts, answer>>
      BY <1>1, <2>2 DEF BleTypeOK
    <2>3. CASE ~m.accepted /\ pending' = Released(key, r) /\ Return(r, "notWritten")
      BY <1>1, <2>3, Returns DEF BleTypeOK, Released
    <2>4. CASE /\ answer[r] = "none" /\ phase' = [phase EXCEPT ![r] = "acking"]
               /\ UNCHANGED <<pending, attempts, answer>>
      BY <1>1, <2>4 DEF BleTypeOK
    <2> QED BY <1>2, <2>1, <2>2, <2>3, <2>4 DEF HandleReply
  <1>6. SentOnce'
    BY <1>1, <1>3, <1>5 DEF SentOnce
  <1>7. RepliedOnce'
    <2>1. \A s \in Requests : phase'[s] \in {"new", "waiting"} =>
             phase[s] \in {"new", "waiting"} \/ ~Replied(s)'
      BY <1>3, <1>5
    <2> QED BY <1>1, <2>1, RepliesKept
  <1>8. ResponseMatchesRequest'
    BY <1>1, <1>5 DEF ResponseMatchesRequest
  <1>9. SlotsHeld'
    <2>1. \A k \in BleRequestKey :
             \/ pending'[k] = pending[k]
             \/ pending'[k] = NoRequest /\ \A s : s = pending[k] => ~Outstanding(s)'
      BY <1>3, <1>4, <1>5
    <2>2. ASSUME NEW k \in BleRequestKey, pending'[k] # NoRequest
          PROVE  phase'[pending'[k]] \in {"writing", "acking"} /\ answer'[pending'[k]] = "none"
      <3>1. PICK s \in Requests : s = pending[k] /\ s = pending'[k]
        BY <1>1, <2>1, <2>2 DEF BleTypeOK
      <3>2. KeyOf(s) = k /\ phase[s] \in {"writing", "acking"} /\ answer[s] = "none"
        BY <1>1, <2>2, <3>1 DEF SlotsHeld
      <3> QED BY <1>2, <1>5, <2>2, <3>1, <3>2
    <2> QED BY <1>1, <1>4, <2>1, <2>2, SlotsKept
  <1> QED BY <1>4, <1>6, <1>7, <1>8, <1>9 DEF BleInvariant

\* Calls from native code.
LEMMA DeliverCallStep ==
    ASSUME BleInvariant, DeliverCall
    PROVE  BleInvariant'
  <1>1. /\ BleTypeOK /\ BleTypeOK' /\ channel \in Seq(Message)
        /\ SentOnce /\ RepliedOnce /\ AnsweredOnce /\ SlotsHeld
        /\ ResponseMatchesRequest /\ LinkShape
    BY DeliveryTypes DEF BleInvariant, BleTypeOK
  <1>2. PICK m \in Message : m = Head(channel)
    BY <1>1, TakenOff DEF DeliverCall
  <1>3. /\ channel # <<>> /\ channel' = Tail(channel)
        /\ UNCHANGED <<native, events, sending, unanswered, writes>>
    BY DEF DeliverCall
  <1>4. ASSUME UNCHANGED <<generation, pending, quarantined, timers, phase, answer, scope, answeredBy>>
        PROVE  BleInvariant'
    <2>1. SentOnce' /\ RepliedOnce' /\ AnsweredOnce'
      BY <1>1, <1>3, <1>4, SentKept, RepliesKept, ResponsesKept
    <2>2. SlotsHeld' /\ ResponseMatchesRequest' /\ LinkShape'
      BY <1>1, <1>3, <1>4 DEF SlotsHeld, ResponseMatchesRequest, LinkShape, Outstanding,
         Answering, KeyOf
    <2> QED BY <1>1, <2>1, <2>2 DEF BleInvariant
  <1>5. ASSUME m.generation \in Generations, ~(m.generation < generation),
               m.generation # generation, AdoptGeneration(m.generation),
               UNCHANGED <<scope, answeredBy>>
        PROVE  BleInvariant'
    <2>1. generation < m.generation
      <3>1. generation \in Generations
        BY <1>1 DEF BleTypeOK
      <3> QED BY <1>5, <3>1, BleAssumption DEF Generations
    <2> QED BY <1>1, <1>3, <1>5, <2>1, GenerationAdopted
  <1>6. CASE m.type \in {"connecting", "connected"} /\ HandleConnection(m)
             /\ UNCHANGED <<scope, attempts, answeredBy>>
    <2>1. m.generation \in Generations
      BY <1>6, MessageShape
    <2> QED BY <1>4, <1>5, <1>6, <2>1 DEF HandleConnection
  <1>7. CASE m.type = "disconnected" /\ HandleDisconnection(m)
             /\ UNCHANGED <<scope, attempts, answeredBy>>
    <2>1. m.generation \in Generations
      BY <1>7, MessageShape
    <2>2. CASE m.generation < generation
      BY <1>4, <1>7, <2>2 DEF HandleDisconnection
    <2>3. CASE ~(m.generation < generation) /\ m.generation = generation
      <3>1. FailPending(generation, m.sides) /\ UNCHANGED <<generation, scope, answeredBy>>
        BY <1>7, <2>3 DEF HandleDisconnection
      <3> QED BY <1>1, <1>3, <3>1, PendingFails
    <2>4. CASE ~(m.generation < generation) /\ m.generation # generation
      BY <1>5, <1>7, <2>1, <2>4 DEF HandleDisconnection
    <2> QED BY <2>2, <2>3, <2>4
  <1>8. CASE m.type = "reply" /\ HandleReply(m.request, m.accepted)
             /\ UNCHANGED <<generation, pair, ready, quarantined, scope, answeredBy>>
    <2>1. PICK r \in Requests : r = m.request /\ IsReply(m, r)
      BY <1>8, MessageShape DEF IsReply
    <2>2. m.accepted \in BOOLEAN
      BY <1>8, MessageShape
    <2> QED BY <1>1, <1>2, <1>3, <1>8, <2>1, <2>2, ReplyStep
  <1> QED BY <1>2, <1>6, <1>7, <1>8 DEF DeliverCall

\* A response of the current connection finds the request it answers in the
\* slot of its key, or the key quarantined.
LEMMA DeliverEventStep ==
    ASSUME BleInvariant, DeliverEvent
    PROVE  BleInvariant'
  <1>1. /\ BleTypeOK /\ BleTypeOK' /\ events \in Seq(Response)
        /\ SentOnce /\ RepliedOnce /\ AnsweredOnce /\ SlotsHeld
        /\ ResponseMatchesRequest /\ LinkShape /\ NoRequest \notin Requests
    BY DeliveryTypes, BleAssumption DEF BleInvariant, BleTypeOK
  <1>2. PICK m \in Response : m = Head(events)
    BY <1>1, TakenOff DEF DeliverEvent
  <1>3. /\ events # <<>> /\ events' = Tail(events) /\ HandleResponse(m)
        /\ UNCHANGED <<generation, pair, ready, scope, attempts, native, channel, sending,
                       unanswered, writes>>
    BY <1>2 DEF DeliverEvent
  <1>4. PICK r \in Requests : r = m.request /\ m.generation \in Generations
    BY MessageShape
  <1>5. PICK key \in BleRequestKey : key = [generation |-> m.generation, to |-> Target[r]]
    BY <1>1, <1>4, KeyShape
  <1>6. /\ 1 \in DOMAIN events /\ events[1] = m /\ Answering(r)
        /\ scope[r].generation = m.generation /\ KeyOf(r) = key
    <2>1. 1 \in DOMAIN events /\ events[1] = m
      BY <1>1, <1>2, <1>3, TakenOff
    <2>2. scope[r].generation = m.generation
      BY <1>1, <1>4, <2>1 DEF AnsweredOnce
    <2> QED BY <1>4, <1>5, <2>1, <2>2 DEF Answering, KeyOf
  <1>7. AnsweredOnce' /\ ~Answering(r)' /\ \A s : Answering(s)' => Answering(s)
    <2>1. events' # events
      <3>1. Len(events') # Len(events)
        BY <1>1, <1>3
      <3> QED BY <3>1
    <2>2. /\ AnsweredOnce' /\ \A s : Answering(s)' => Answering(s)
          /\ events' # events => \A s : s = Head(events).request => ~Answering(s)'
      BY <1>1, <1>3, ResponsesKept
    <2> QED BY <1>2, <1>4, <2>1, <2>2
  <1>8. /\ ~Outstanding(r)' /\ Outstanding(r)
        /\ \A s \in Requests : Outstanding(s)' => Outstanding(s)
    <2>1. writes[r] = 1 /\ r \notin unanswered
      BY <1>1, <1>4, <1>6 DEF AnsweredOnce
    <2>2. r \notin sending
      BY <1>1, <2>1 DEF SentOnce
    <2> QED BY <1>3, <1>6, <1>7, <2>1, <2>2 DEF Outstanding
  <1>9. \A s \in Requests : Outstanding(s)' => KeyOf(s) # key
    BY <1>1, <1>6, <1>8 DEF SlotsHeld
  <1>10. LinkShape'
    BY <1>1, <1>3 DEF LinkShape
  <1>11. CASE /\ quarantined' \in {quarantined, quarantined \ {key}}
              /\ UNCHANGED <<pending, timers, phase, answer, answeredBy>>
    <2>1. SentOnce' /\ RepliedOnce'
      BY <1>1, <1>3, <1>11, SentKept, RepliesKept
    <2>2. ResponseMatchesRequest'
      BY <1>1, <1>11 DEF ResponseMatchesRequest
    <2>3. SlotsHeld'
      <3>1. \A k \in quarantined :
               k \in quarantined' \/ \A s \in Requests : Outstanding(s)' => KeyOf(s) # k
        BY <1>9, <1>11
      <3>2. ASSUME NEW k \in BleRequestKey, pending'[k] # NoRequest
            PROVE  phase'[pending'[k]] \in {"writing", "acking"} /\ answer'[pending'[k]] = "none"
        BY <1>1, <1>11, <3>2 DEF SlotsHeld
      <3> QED BY <1>1, <1>3, <1>8, <1>11, <3>1, <3>2, SlotsKept
    <2> QED BY <1>1, <1>7, <1>10, <2>1, <2>2, <2>3 DEF BleInvariant
  <1>12. CASE /\ m.generation = generation /\ key \notin quarantined
              /\ pending' = [pending EXCEPT ![key] = NoRequest]
              /\ IF pending[key] = NoRequest THEN UNCHANGED <<phase, answer, answeredBy>>
                 ELSE /\ answer' = [answer EXCEPT ![pending[key]] = "answered"]
                      /\ answeredBy' = [answeredBy EXCEPT ![pending[key]] = m.request]
                      /\ phase' = [phase EXCEPT ![pending[key]] = IF @ = "acking" THEN "done" ELSE @]
              /\ UNCHANGED quarantined
    <2>1. pending[key] = r
      BY <1>1, <1>6, <1>8, <1>12 DEF SlotsHeld
    <2>2. phase[r] \in {"writing", "acking"} /\ answer[r] = "none"
      BY <1>1, <2>1 DEF SlotsHeld
    <2>3. /\ answer'[r] = "answered" /\ answeredBy'[r] = r
          /\ phase'[r] = IF phase[r] = "acking" THEN "done" ELSE phase[r]
          /\ pending'[key] = NoRequest
          /\ \A k \in BleRequestKey \ {key} : pending'[k] = pending[k]
          /\ \A s \in Requests \ {r} : phase'[s] = phase[s] /\ answer'[s] = answer[s]
                                      /\ answeredBy'[s] = answeredBy[s]
      BY <1>1, <1>4, <1>12, <2>1 DEF BleTypeOK
    <2>4. \A s \in Requests :
             \/ phase'[s] = phase[s] /\ answer'[s] = answer[s]
             \/ phase'[s] \notin {"new", "waiting"} /\ answer'[s] # "notWritten"
      BY <2>2, <2>3
    <2>5. SentOnce' /\ RepliedOnce'
      BY <1>1, <1>3, <2>4, SentKept, RepliesKept
    <2>6. ResponseMatchesRequest'
      BY <1>1, <2>3 DEF ResponseMatchesRequest
    <2>7. SlotsHeld'
      <3>1. \A k \in BleRequestKey :
               \/ pending'[k] = pending[k]
               \/ pending'[k] = NoRequest /\ \A s : s = pending[k] => ~Outstanding(s)'
        BY <1>8, <2>1, <2>3
      <3>2. ASSUME NEW k \in BleRequestKey, pending'[k] # NoRequest
            PROVE  phase'[pending'[k]] \in {"writing", "acking"} /\ answer'[pending'[k]] = "none"
        <4>1. PICK s \in Requests : s = pending[k] /\ s = pending'[k] /\ k # key
          BY <1>1, <2>3, <3>2 DEF BleTypeOK
        <4>2. KeyOf(s) = k /\ phase[s] \in {"writing", "acking"} /\ answer[s] = "none"
          BY <1>1, <3>2, <4>1 DEF SlotsHeld
        <4> QED BY <1>6, <2>3, <4>1, <4>2
      <3> QED BY <1>1, <1>3, <1>8, <1>12, <3>1, <3>2, SlotsKept
    <2> QED BY <1>1, <1>7, <1>10, <2>5, <2>6, <2>7 DEF BleInvariant
  <1> QED BY <1>3, <1>4, <1>5, <1>11, <1>12 DEF HandleResponse

\* Native code and the glasses leave Dart alone.
LEMMA LinkKept ==
    ASSUME BleTypeOK, BleTypeOK', SlotsHeld, ResponseMatchesRequest, UNCHANGED dart,
           \A r \in Requests : Outstanding(r)' => Outstanding(r)
    PROVE  SlotsHeld' /\ ResponseMatchesRequest'
  <1>1. UNCHANGED <<generation, pending, quarantined, phase, scope, answer, answeredBy>>
    BY DEF dart
  <1>2. ASSUME NEW key \in BleRequestKey, pending'[key] # NoRequest
        PROVE  phase'[pending'[key]] \in {"writing", "acking"} /\ answer'[pending'[key]] = "none"
    BY <1>1, <1>2 DEF SlotsHeld
  <1>3. SlotsHeld'
    BY <1>1, <1>2, SlotsKept
  <1> QED BY <1>1, <1>3 DEF ResponseMatchesRequest

\* A message that replies to nothing.
LEMMA CallAppended ==
    ASSUME BleTypeOK, RepliedOnce, NEW m \in Message, m.type # "reply",
           channel' = Append(channel, m), UNCHANGED <<phase, sending, writes>>
    PROVE  RepliedOnce'
  <1>1. /\ DOMAIN channel' = DOMAIN channel \cup {Len(channel) + 1}
        /\ channel'[Len(channel) + 1] = m
        /\ \A i \in DOMAIN channel : channel'[i] = channel[i]
    <2>1. channel \in Seq(Message)
      BY DEF BleTypeOK
    <2> QED BY <2>1, Appended
  <1> QED BY <1>1 DEF RepliedOnce, IsReply

LEMMA LinkStep ==
    ASSUME BleInvariant,
           \/ \E p \in Pairs : NativeConnect(p)
           \/ NativeReady
           \/ \E sides \in {{"L"}, {"R"}, Sides} : NativeDisconnect(sides)
    PROVE  BleInvariant'
  <1>1. /\ BleTypeOK /\ SentOnce /\ RepliedOnce /\ AnsweredOnce /\ SlotsHeld
        /\ ResponseMatchesRequest /\ LinkShape /\ BleTypeOK' /\ LinkShape'
    BY NativeTypes DEF BleInvariant
  <1>2. UNCHANGED <<dart, events, sending, writes>> /\ unanswered' \subseteq unanswered
    BY DEF NativeConnect, NativeReady, NativeDisconnect
  <1>3. unanswered' = {} \/ native'.generation = native.generation
    <2>1. native \in Native
      BY <1>1 DEF BleTypeOK
    <2> QED BY <2>1 DEF NativeConnect, NativeReady, NativeDisconnect, Native
  <1>4. PICK m : channel' = Append(channel, m) /\ m \in Message /\ m.type # "reply"
    <2>0. /\ native.generation \in Generations /\ native.pair \in Pairs \cup {Unselected}
          /\ native.up \subseteq Sides /\ MaxGeneration \in Nat
      BY <1>1, BleAssumption DEF BleTypeOK, Native
    <2>1. ASSUME NEW p \in Pairs, NativeConnect(p)
          PROVE  \E m \in Message : channel' = Append(channel, m) /\ m.type # "reply"
      <3>1. native.generation + 1 \in Generations
        BY <2>0, <2>1 DEF NativeConnect, Generations
      <3>2. [type |-> "connecting", generation |-> native.generation + 1, pair |-> p] \in Message
        BY <3>1 DEF Message
      <3> QED BY <2>1, <3>2 DEF NativeConnect
    <2>2. CASE NativeReady
      <3>1. [type |-> "connected", generation |-> native.generation, pair |-> native.pair] \in Message
        BY <2>0, <2>2 DEF Message, NativeReady
      <3> QED BY <2>2, <3>1 DEF NativeReady
    <2>3. ASSUME NEW sides \in {{"L"}, {"R"}, Sides}, NativeDisconnect(sides)
          PROVE  \E m \in Message : channel' = Append(channel, m) /\ m.type # "reply"
      <3>1. [type |-> "disconnected", generation |-> native.generation, pair |-> native.pair,
             sides |-> sides, up |-> native.up \ sides] \in Message
        BY <2>0, <2>3 DEF Message, NativeDisconnect, Sides
      <3> QED BY <2>3, <3>1 DEF NativeDisconnect
    <2> QED BY <2>1, <2>2, <2>3
  <1>5. SentOnce'
    BY <1>1, <1>2, <1>3 DEF SentOnce, dart
  <1>6. RepliedOnce'
    BY <1>1, <1>2, <1>4, CallAppended DEF dart
  <1>7. AnsweredOnce'
    BY <1>1, <1>2 DEF AnsweredOnce, dart
  <1>8. \A r \in Requests : Outstanding(r)' => Outstanding(r)
    BY <1>2 DEF Outstanding, Answering
  <1>9. SlotsHeld' /\ ResponseMatchesRequest'
    BY <1>1, <1>2, <1>8, LinkKept
  <1> QED BY <1>1, <1>5, <1>6, <1>7, <1>9 DEF BleInvariant

\* sendData: the only send of its attempt becomes the only write.
LEMMA NativeSendStep ==
    ASSUME BleInvariant, NEW r \in Requests, NativeSend(r)
    PROVE  BleInvariant'
  <1>1. /\ BleTypeOK /\ SentOnce /\ RepliedOnce /\ AnsweredOnce /\ SlotsHeld
        /\ ResponseMatchesRequest /\ LinkShape /\ BleTypeOK' /\ LinkShape'
    BY NativeTypes DEF BleInvariant
  <1>2. /\ r \in sending /\ sending' = sending \ {r} /\ UNCHANGED <<dart, native, events>>
        /\ UNCHANGED <<phase, scope, answer>>
    BY DEF NativeSend, dart
  <1>3. /\ writes[r] = 0 /\ phase[r] \notin {"new", "waiting"} /\ answer[r] # "notWritten"
        /\ ~Replied(r) /\ r \notin unanswered
    BY <1>1, <1>2 DEF SentOnce, RepliedOnce, Replied
  <1>4. PICK b \in BOOLEAN :
           /\ channel' = Append(channel, [type |-> "reply", request |-> r, accepted |-> b])
           /\ b => /\ scope[r].generation = native.generation
                   /\ writes'[r] = 1 /\ unanswered' = unanswered \cup {r}
           /\ ~b => writes'[r] = 0 /\ unanswered' = unanswered
           /\ \A s \in Requests \ {r} : writes'[s] = writes[s]
    <2>1. CASE /\ scope[r] = [generation |-> native.generation, pair |-> native.pair]
               /\ writes' = [writes EXCEPT ![r] = @ + 1]
               /\ unanswered' = unanswered \cup {r}
               /\ channel' = Append(channel, [type |-> "reply", request |-> r, accepted |-> TRUE])
      <3>1. writes'[r] = 1 /\ \A s \in Requests \ {r} : writes'[s] = writes[s]
        BY <1>1, <1>3, <2>1 DEF BleTypeOK
      <3>2. scope[r].generation = native.generation
        BY <2>1
      <3> WITNESS TRUE \in BOOLEAN
      <3> QED BY <2>1, <3>1, <3>2
    <2>2. CASE /\ channel' = Append(channel, [type |-> "reply", request |-> r, accepted |-> FALSE])
               /\ UNCHANGED <<writes, unanswered>>
      BY <1>3, <2>2
    <2> QED BY <2>1, <2>2 DEF NativeSend
  <1>5. SentOnce'
    BY <1>1, <1>2, <1>3, <1>4 DEF SentOnce
  <1>6. RepliedOnce'
    <2>1. /\ DOMAIN channel' = DOMAIN channel \cup {Len(channel) + 1}
          /\ channel'[Len(channel) + 1] = [type |-> "reply", request |-> r, accepted |-> b]
          /\ \A i \in DOMAIN channel : channel'[i] = channel[i]
      <3>1. channel \in Seq(Message)
        BY <1>1 DEF BleTypeOK
      <3>2. [type |-> "reply", request |-> r, accepted |-> b] \in Message
        BY DEF Message
      <3> QED BY <1>4, <3>1, <3>2, Appended
    <2>2. /\ \A i \in DOMAIN channel : ~IsReply(channel'[i], r)
          /\ \A s \in Requests : IsReply(channel'[Len(channel) + 1], s) => s = r
          /\ channel'[Len(channel) + 1].accepted = b
      BY <1>3, <2>1 DEF Replied, IsReply
    <2> SUFFICES ASSUME NEW i \in DOMAIN channel', NEW s \in Requests, IsReply(channel'[i], s)
                 PROVE  /\ phase'[s] \notin {"new", "waiting"} /\ s \notin sending'
                        /\ ~channel'[i].accepted => writes'[s] = 0
                        /\ \A j \in DOMAIN channel' : IsReply(channel'[j], s) => j = i
      BY DEF RepliedOnce
    <2>3. CASE i = Len(channel) + 1
      <3>1. s = r
        BY <2>2, <2>3
      <3> QED BY <1>2, <1>3, <1>4, <2>1, <2>2, <2>3, <3>1
    <2>4. CASE i \in DOMAIN channel
      <3>1. IsReply(channel[i], s) /\ channel'[i] = channel[i] /\ s # r
        BY <2>1, <2>2, <2>4
      <3>2. /\ phase[s] \notin {"new", "waiting"} /\ s \notin sending
            /\ ~channel[i].accepted => writes[s] = 0
            /\ \A j \in DOMAIN channel : IsReply(channel[j], s) => j = i
        BY <1>1, <2>4, <3>1 DEF RepliedOnce
      <3> QED BY <1>2, <1>4, <2>1, <2>2, <3>1, <3>2
    <2> QED BY <2>1, <2>3, <2>4
  <1>7. AnsweredOnce'
    <2>1. \A i \in DOMAIN events : events[i].request \in Requests
      BY <1>1, MessageShape DEF BleTypeOK
    <2>2. \A i \in DOMAIN events : events[i].request # r
      BY <1>1, <1>3 DEF AnsweredOnce
    <2> QED BY <1>1, <1>2, <1>4, <2>1, <2>2 DEF AnsweredOnce
  <1>8. \A s \in Requests : Outstanding(s)' => Outstanding(s)
    BY <1>2, <1>4 DEF Outstanding, Answering
  <1>9. SlotsHeld' /\ ResponseMatchesRequest'
    BY <1>1, <1>2, <1>8, LinkKept
  <1> QED BY <1>1, <1>5, <1>6, <1>7, <1>9 DEF BleInvariant

LEMMA GlassesAnswerStep ==
    ASSUME BleInvariant, NEW r \in Requests, GlassesAnswer(r)
    PROVE  BleInvariant'
  <1>1. /\ BleTypeOK /\ SentOnce /\ RepliedOnce /\ AnsweredOnce /\ SlotsHeld
        /\ ResponseMatchesRequest /\ LinkShape /\ BleTypeOK' /\ LinkShape'
    BY NativeTypes DEF BleInvariant
  <1>2. /\ r \in unanswered /\ unanswered' = unanswered \ {r}
        /\ UNCHANGED <<dart, native, channel, sending, writes>>
        /\ UNCHANGED <<phase, scope, answer>>
    BY DEF GlassesAnswer, dart
  <1>3. writes[r] = 1 /\ scope[r].generation = native.generation /\ ~Answering(r)
    BY <1>1, <1>2 DEF SentOnce, AnsweredOnce, Answering
  <1>4. SentOnce' /\ RepliedOnce'
    BY <1>1, <1>2 DEF SentOnce, RepliedOnce
  <1>5. /\ DOMAIN events' = DOMAIN events \cup {Len(events) + 1}
        /\ events'[Len(events) + 1] =
             [generation |-> native.generation, pair |-> native.pair, request |-> r]
        /\ \A i \in DOMAIN events : events'[i] = events[i]
    <2>1. events \in Seq(Response)
      BY <1>1 DEF BleTypeOK
    <2>2. native.pair \in Pairs /\ native.generation \in Generations
      BY <1>1, <1>2 DEF BleTypeOK, LinkShape, Native
    <2>3. [generation |-> native.generation, pair |-> native.pair, request |-> r] \in Response
      BY <2>2 DEF Response
    <2> QED BY <2>1, <2>3, Appended DEF GlassesAnswer
  <1>6. /\ \A i \in DOMAIN events : events'[i].request # r
        /\ events'[Len(events) + 1].request = r
        /\ events'[Len(events) + 1].generation = scope[r].generation
    BY <1>3, <1>5 DEF Answering
  <1>7. AnsweredOnce'
    <2> SUFFICES ASSUME NEW i \in DOMAIN events', NEW s, s = events'[i].request
                 PROVE  /\ events'[i].generation = scope'[s].generation
                        /\ writes'[s] = 1 /\ s \notin unanswered'
                        /\ \A j \in DOMAIN events' : events'[j].request = s => j = i
      BY DEF AnsweredOnce
    <2>1. CASE i = Len(events) + 1
      BY <1>2, <1>3, <1>5, <1>6, <2>1
    <2>2. CASE i \in DOMAIN events
      <3>1. s = events[i].request /\ s # r /\ events'[i] = events[i]
        BY <1>5, <1>6, <2>2
      <3>2. /\ events[i].generation = scope[s].generation
            /\ writes[s] = 1 /\ s \notin unanswered
            /\ \A j \in DOMAIN events : events[j].request = s => j = i
        BY <1>1, <2>2, <3>1 DEF AnsweredOnce
      <3> QED BY <1>2, <1>5, <1>6, <3>1, <3>2
    <2> QED BY <1>5, <2>1, <2>2
  <1>8. \A s \in Requests : Outstanding(s)' => Outstanding(s)
    <2>1. \A s \in Requests \ {r} : Answering(s)' => Answering(s)
      BY <1>5, <1>6 DEF Answering
    <2> QED BY <1>2, <2>1 DEF Outstanding
  <1>9. SlotsHeld' /\ ResponseMatchesRequest'
    BY <1>1, <1>2, <1>8, LinkKept
  <1> QED BY <1>1, <1>4, <1>7, <1>9 DEF BleInvariant

LEMMA BleInitInvariant == BleInit => BleInvariant
  <1> SUFFICES ASSUME BleInit PROVE BleInvariant
    OBVIOUS
  <1>1. 0 \in Generations /\ 0 \in 0..Retry
    BY BleAssumption DEF Generations
  <1>2. BleTypeOK /\ LinkShape
    <2>1. channel \in Seq(Message) /\ events \in Seq(Response)
      BY DEF BleInit
    <2>2. native \in Native /\ LinkShape
      BY <1>1 DEF BleInit, Native, LinkShape
    <2> QED BY <1>1, <2>1, <2>2 DEF BleInit, BleTypeOK, Answer
  <1>3. channel = <<>> /\ events = <<>> /\ DOMAIN channel = {} /\ DOMAIN events = {}
    BY DEF BleInit
  <1>4. SentOnce /\ RepliedOnce /\ AnsweredOnce
    BY <1>3 DEF BleInit, SentOnce, RepliedOnce, AnsweredOnce
  <1>5. \A r \in Requests : ~Outstanding(r)
    BY <1>3 DEF BleInit, Outstanding, Answering
  <1>6. \A r \in Requests : scope[r].generation <= generation
    BY DEF BleInit
  <1>7. SlotsHeld
    <2>1. \A key \in BleRequestKey : pending[key] = NoRequest
      BY DEF BleInit
    <2> QED BY <1>5, <1>6, <2>1 DEF SlotsHeld
  <1>8. ResponseMatchesRequest
    BY DEF BleInit, ResponseMatchesRequest
  <1> QED BY <1>2, <1>4, <1>7, <1>8 DEF BleInvariant

LEMMA BleStep ==
    ASSUME BleInvariant, [BleNext]_bleVars
    PROVE  BleInvariant'
  <1>1. CASE UNCHANGED bleVars
    <2>1. /\ UNCHANGED <<generation, pair, ready, pending, quarantined, timers, phase, scope,
                         attempts, answer, answeredBy>>
          /\ UNCHANGED <<native, channel, events, sending, unanswered, writes>>
      BY <1>1 DEF bleVars, dart
    <2>2. BleTypeOK' /\ LinkShape' /\ SentOnce' /\ RepliedOnce' /\ AnsweredOnce'
      BY <2>1 DEF BleInvariant, BleTypeOK, LinkShape, SentOnce, RepliedOnce, AnsweredOnce
    <2>3. SlotsHeld'
      BY <2>1 DEF BleInvariant, SlotsHeld, Outstanding, Answering, KeyOf
    <2>4. ResponseMatchesRequest'
      BY <2>1 DEF BleInvariant, ResponseMatchesRequest
    <2> QED BY <2>2, <2>3, <2>4 DEF BleInvariant
  <1>2. ASSUME NEW r \in Requests,
               Request(r) \/ Poll(r) \/ SendTimeout(r) \/ NativeSend(r) \/ GlassesAnswer(r)
        PROVE  BleInvariant'
    BY <1>2, RequestStep, SendTimeoutStep, NativeSendStep, GlassesAnswerStep
  <1>3. ASSUME NEW key \in BleRequestKey, AckTimeout(key) PROVE BleInvariant'
    BY <1>3, AckTimeoutStep
  <1>4. ASSUME NEW p \in Pairs, ConnectToGlasses(p) PROVE BleInvariant'
    BY <1>4, ConnectStep
  <1>5. CASE DeliverCall \/ DeliverEvent
    BY <1>5, DeliverCallStep, DeliverEventStep
  <1>6. CASE \/ \E p \in Pairs : NativeConnect(p)
             \/ NativeReady
             \/ \E sides \in {{"L"}, {"R"}, Sides} : NativeDisconnect(sides)
    BY <1>6, LinkStep
  <1> QED BY <1>1, <1>2, <1>3, <1>4, <1>5, <1>6 DEF BleNext

\* Types, and how requests, replies, responses and slots hang together in every
\* reachable state.
THEOREM BleInvariantHolds == BleSpec => []BleInvariant
  BY BleInitInvariant, BleStep, PTL DEF BleSpec

-----------------------------------------------------------------------------
(* What callers rely on                                                    *)

\* A response carries no request identifier; it still completes the request
\* whose write it answers, and no other.
THEOREM ResponsesMatch == BleSpec => []ResponseMatchesRequest
  <1>1. BleInvariant => ResponseMatchesRequest
    BY DEF BleInvariant
  <1> QED BY <1>1, BleInvariantHolds, PTL

\* A caller told that nothing was written may repeat the effect elsewhere: the
\* bytes were not written and never will be.
THEOREM RefusalsAreTrue == BleSpec => []NotWrittenIsTrue
  <1>1. BleInvariant => NotWrittenIsTrue
    BY DEF BleInvariant, SentOnce, NotWrittenIsTrue
  <1> QED BY <1>1, BleInvariantHolds, PTL

\* requestRetry() never writes the bytes of a request twice.
THEOREM RetriesWriteOnce == BleSpec => []WrittenOnce
  <1>1. BleInvariant => WrittenOnce
    BY DEF BleInvariant, SentOnce, WrittenOnce
  <1> QED BY <1>1, BleInvariantHolds, PTL

\* A write that may still be answered keeps every other write with its
\* generation, leg and command from being accepted.
THEOREM UncertainWritesAreAlone == BleSpec => []OneUncertainWritePerKey
  <1>1. BleInvariant => OneUncertainWritePerKey
    <2> SUFFICES ASSUME BleInvariant, NEW r \in unanswered, NEW s \in unanswered,
                        Target[r] = Target[s]
                 PROVE  r = s
      BY DEF OneUncertainWritePerKey
    <2>1. r \in Requests /\ s \in Requests
      BY DEF BleInvariant, BleTypeOK
    <2>2. scope[r].generation = scope[s].generation
      BY <2>1 DEF BleInvariant, SentOnce
    <2>3. Outstanding(r) /\ Outstanding(s) /\ KeyOf(r) = KeyOf(s)
      BY <2>2 DEF Outstanding, KeyOf
    <2> QED BY <2>1, <2>3 DEF BleInvariant, SlotsHeld
  <1> QED BY <1>1, BleInvariantHolds, PTL

\* A key leaves quarantine by a late response to it or with its generation,
\* never because a leg was lost or a pair selected.
THEOREM QuarantineEndsRightly == BleSpec => QuarantineIsKept
  <1> DEFINE Ended(key) ==
               \/ key.generation # generation'
               \/ /\ events # <<>> /\ events' = Tail(events)
                  /\ Head(events).generation = key.generation
                  /\ Target[Head(events).request] = key.to
  <1>1. ASSUME BleInvariant, [BleNext]_bleVars, NEW key \in quarantined \ quarantined'
        PROVE  Ended(key)
    <2>0. key \in BleRequestKey /\ generation \in Generations /\ events \in Seq(Response)
      BY <1>1 DEF BleInvariant, BleTypeOK
    <2>1. ASSUME NEW g \in Generations, ~(g < generation), g # generation, AdoptGeneration(g)
          PROVE  key.generation # generation'
      BY <1>1, <2>1 DEF AdoptGeneration
    <2>2. CASE UNCHANGED quarantined \/ quarantined \subseteq quarantined'
      BY <1>1, <2>2
    <2>3. CASE DeliverEvent
      <3>1. PICK m \in Response : m = Head(events)
        BY <2>0, <2>3, TakenOff DEF DeliverEvent
      <3>2. /\ events # <<>> /\ events' = Tail(events)
            /\ key = [generation |-> m.generation, to |-> Target[m.request]]
        BY <1>1, <2>3, <3>1 DEF DeliverEvent, HandleResponse
      <3> QED BY <3>1, <3>2
    <2>4. CASE DeliverCall
      <3>1. PICK m \in Message : m = Head(channel)
        <4>1. channel \in Seq(Message)
          BY <1>1 DEF BleInvariant, BleTypeOK
        <4> QED BY <2>4, <4>1, TakenOff DEF DeliverCall
      <3>2. CASE m.type = "reply"
        BY <1>1, <2>4, <3>1, <3>2 DEF DeliverCall
      <3>3. CASE m.type \in {"connecting", "connected"} /\ HandleConnection(m)
        <4>1. m.generation \in Generations
          BY <3>3, MessageShape
        <4> QED BY <1>1, <2>1, <3>3, <4>1 DEF HandleConnection
      <3>4. CASE m.type = "disconnected" /\ HandleDisconnection(m)
        <4>1. m.generation \in Generations
          BY <3>4, MessageShape
        <4>2. FailPending(generation, m.sides) => quarantined \subseteq quarantined'
          BY DEF FailPending
        <4> QED BY <1>1, <2>1, <3>4, <4>1, <4>2 DEF HandleDisconnection
      <3> QED BY <2>4, <3>1, <3>2, <3>3, <3>4 DEF DeliverCall
    <2>5. CASE \/ UNCHANGED bleVars
               \/ \E r \in Requests : Request(r) \/ Poll(r) \/ NativeSend(r) \/ GlassesAnswer(r)
               \/ \E p \in Pairs : NativeConnect(p)
               \/ NativeReady
               \/ \E sides \in {{"L"}, {"R"}, Sides} : NativeDisconnect(sides)
      BY <2>2, <2>5 DEF bleVars, dart, Request, Poll, NativeSend, GlassesAnswer, NativeConnect,
         NativeReady, NativeDisconnect
    <2>6. CASE \/ \E r \in Requests : SendTimeout(r)
               \/ \E k \in BleRequestKey : AckTimeout(k)
               \/ \E p \in Pairs : ConnectToGlasses(p)
      BY <2>2, <2>6 DEF SendTimeout, QuarantinedIfOwned, AckTimeout, ConnectToGlasses, FailPending
    <2> QED BY <1>1, <2>3, <2>4, <2>5, <2>6 DEF BleNext
  <1>2. BleInvariant /\ [BleNext]_bleVars =>
          [\A key \in quarantined \ quarantined' : Ended(key)]_bleVars
    BY <1>1
  <1> QED BY <1>2, BleInvariantHolds, PTL DEF BleSpec, QuarantineIsKept

=============================================================================
