--------------------------- MODULE UdpGatewayProofs ---------------------------
(***************************************************************************)
(* Theorems about UdpGateway, for any adapters, datagrams and processors   *)
(* and any bounds: its type invariant; that a datagram is in one place at  *)
(* a time and is lost only to a crash or to a send of its own that threw   *)
(* or failed; that topics have a sensor's events in order once every loop  *)
(* runs.                                                                   *)
(***************************************************************************)
EXTENDS UdpGateway, FiniteSetTheorems, TLAPS

-----------------------------------------------------------------------------
(* The producer: messages are added at the end, and keep their datagrams.  *)

LEMMA MessageShape ==
    ASSUME NEW d \in Datagrams
    PROVE  MessageOf(d) \in Message /\ MessageOf(d).datagram = d
BY DatagramAssumption DEF MessageOf, Message

SameDatagrams ==
    /\ DOMAIN sends' = DOMAIN sends
    /\ \A i \in DOMAIN sends : sends'[i].payload.datagram = sends[i].payload.datagram

LEMMA AcceptAppends ==
    ASSUME ProducerTypeOK, NEW m \in Message, Accept(m)
    PROVE  /\ ProducerTypeOK'
           /\ Len(sends) \in Nat /\ DOMAIN sends = 1 .. Len(sends)
           /\ DOMAIN sends' = 1 .. Len(sends) + 1
           /\ \A i \in DOMAIN sends : sends'[i] = sends[i]
           /\ sends'[Len(sends) + 1].payload = m
<1> DEFINE s == [payload |-> m, offset |-> 0, phase |-> "inflight"]
<1>1. s \in Send /\ s.payload = m
  BY DEF Send, Phase
<1>2. sends' = Append(sends, s) /\ sends \in Seq(Send)
  BY DEF Accept, ProducerTypeOK
<1> HIDE DEF s
<1>3. sends' \in Seq(Send) /\ Len(sends') = Len(sends) + 1
  BY <1>1, <1>2
<1>4. /\ Len(sends) \in Nat /\ DOMAIN sends = 1 .. Len(sends)
      /\ DOMAIN sends' = 1 .. Len(sends) + 1
  BY <1>2, <1>3
<1>5. \A i \in DOMAIN sends : sends'[i] = sends[i]
  BY <1>1, <1>2
<1>6. sends'[Len(sends) + 1] = s
  BY <1>1, <1>2
<1> QED
  BY <1>1, <1>3, <1>4, <1>5, <1>6 DEF ProducerTypeOK

LEMMA UpdateKeepsDatagrams ==
    ASSUME ProducerTypeOK, NEW i \in DOMAIN sends, NEW s \in Send,
           s.payload = sends[i].payload, sends' = [sends EXCEPT ![i] = s]
    PROVE  ProducerTypeOK' /\ SameDatagrams
BY DEF ProducerTypeOK, SameDatagrams

LEMMA PlaceIsNat ==
    ASSUME ProducerTypeOK, NEW i \in DOMAIN sends
    PROVE  1 + Cardinality({j \in Queue(i) : Written(j)}) \in Nat \ {0}
<1>1. IsFiniteSet(DOMAIN sends)
  BY FS_Interval DEF ProducerTypeOK
<1>2. IsFiniteSet({j \in Queue(i) : Written(j)})
  BY <1>1, FS_Subset DEF Queue
<1> QED
  BY <1>2, FS_CardinalityType

LEMMA CompletionKeepsDatagrams ==
    ASSUME ProducerTypeOK, NEW i \in DOMAIN sends,
           Write(i) \/ SucceedSend(i) \/ FailSend(i)
    PROVE  ProducerTypeOK' /\ SameDatagrams
<1>1. sends[i] \in Send
  BY DEF ProducerTypeOK
<1>2. CASE Write(i)
  <2> DEFINE place == 1 + Cardinality({j \in Queue(i) : Written(j)})
             s == [sends[i] EXCEPT !.offset = place]
  <2>1. place \in Nat
    BY PlaceIsNat
  <2>2. sends' = [sends EXCEPT ![i] = s]
    BY <1>2 DEF Write
  <2> HIDE DEF place
  <2>3. s \in Send /\ s.payload = sends[i].payload
    BY <1>1, <2>1 DEF Send
  <2> HIDE DEF s
  <2> QED
    BY <2>2, <2>3, UpdateKeepsDatagrams
<1>3. ASSUME NEW p \in Phase, sends' = [sends EXCEPT ![i].phase = p]
      PROVE  ProducerTypeOK' /\ SameDatagrams
  <2> DEFINE s == [sends[i] EXCEPT !.phase = p]
  <2>1. s \in Send /\ s.payload = sends[i].payload
    BY <1>1 DEF Send
  <2>2. sends' = [sends EXCEPT ![i] = s]
    BY <1>3
  <2> HIDE DEF s
  <2> QED
    BY <2>1, <2>2, UpdateKeepsDatagrams
<1> QED
  BY <1>2, <1>3 DEF SucceedSend, FailSend, Phase

LEMMA LosingKeepsDatagrams ==
    ASSUME ProducerTypeOK, LoseProducer
    PROVE  ProducerTypeOK' /\ SameDatagrams
<1>1. sends \in Seq(Send) /\ DOMAIN sends = 1 .. Len(sends) /\ Len(sends) \in Nat
  BY DEF ProducerTypeOK
<1>2. ASSUME NEW i \in DOMAIN sends
      PROVE  sends'[i] \in Send /\ sends'[i].payload = sends[i].payload
  <2>1. sends[i] \in Send /\ sends'[i] \in {sends[i], [sends[i] EXCEPT !.phase = "dead"]}
    BY <1>1, <1>2 DEF LoseProducer
  <2> QED
    BY <2>1 DEF Send, Phase
<1>3. sends' = [i \in 1 .. Len(sends) |-> sends'[i]]
  BY <1>1 DEF LoseProducer
<1>4. sends' \in Seq(Send)
  BY <1>1, <1>2, <1>3
<1> QED
  BY <1>1, <1>2, <1>3, <1>4 DEF ProducerTypeOK, SameDatagrams

-----------------------------------------------------------------------------
(* The type invariant.                                                     *)

LEMMA TypeInit == Init => TypeOK
BY BoundsAssumption DEF Init, TypeOK, ProducerTypeOK, ProducerInit

LEMMA TypeNext == TypeOK /\ [Next]_vars => TypeOK'
<1> SUFFICES ASSUME TypeOK, [Next]_vars PROVE TypeOK'
  OBVIOUS
<1> USE BoundsAssumption DEF TypeOK
<1>1. ASSUME NEW a \in Adapters, StartAdapter(a) PROVE TypeOK'
  BY <1>1 DEF StartAdapter, Execute, Tasks, socketVars, ProducerTypeOK
<1>2. ASSUME NEW d \in Datagrams, Arrive(d) PROVE TypeOK'
  <2>1. AdapterOf[d] \in Adapters
    BY DatagramAssumption
  <2>2. arrived' \in [Adapters -> Seq(Datagrams)]
    BY <1>2, <2>1 DEF Arrive
  <2> QED
    BY <1>2, <2>2 DEF Arrive, poolVars, ProducerTypeOK
<1>3. ASSUME NEW w \in Workers, NEW a \in Adapters, Receive(w, a) PROVE TypeOK'
  <2>1. arrived[a][received[a] + 1] \in Datagrams
    BY <1>3 DEF Receive
  <2> QED
    BY <1>3, <2>1 DEF Receive, Execute, Tasks, ProducerTypeOK
<1>4. ASSUME NEW w \in Workers, Take(w) PROVE TypeOK'
  <2>1. Head(tasks) \in Tasks /\ Tail(tasks) \in Seq(Tasks)
    BY <1>4 DEF Take
  <2> QED
    BY <1>4, <2>1 DEF Take, socketVars, ProducerTypeOK
<1>5. ASSUME NEW w \in Workers, Handle(w) PROVE TypeOK'
  <2>1. ProducerTypeOK'
    BY <1>5, MessageShape, AcceptAppends DEF Handle
  <2> QED
    BY <1>5, <2>1 DEF Handle, socketVars
<1>6. ASSUME NEW w \in Workers, HandleThrows(w) PROVE TypeOK'
  BY <1>6 DEF HandleThrows, KafkaFault, socketVars, ProducerTypeOK
<1>7. ASSUME NEW i \in DOMAIN sends, BrokerAppend(i) \/ Acknowledge(i) \/ SendFails(i)
      PROVE  TypeOK'
  <2>1. ProducerTypeOK'
    BY <1>7, CompletionKeepsDatagrams DEF BrokerAppend, Acknowledge, SendFails
  <2>2. sends[i].payload.datagram \in Datagrams
    <3>1. sends[i] \in Send
      BY DEF ProducerTypeOK
    <3> QED
      BY <3>1 DEF Send, Message
  <2> QED
    BY <1>7, <2>1, <2>2 DEF BrokerAppend, Acknowledge, SendFails, KafkaFault, socketVars, poolVars
<1>8. CASE Crash
  <2>1. ProducerTypeOK'
    BY <1>8, LosingKeepsDatagrams DEF Crash
  <2> QED
    BY <1>8, <2>1 DEF Crash
<1>9. CASE UNCHANGED vars
  BY <1>9 DEF vars, ProducerTypeOK
<1> QED
  BY <1>1, <1>2, <1>3, <1>4, <1>5, <1>6, <1>7, <1>8, <1>9 DEF Next, Quiet

\* What the gateway does keeps the shape of its state: a task is a loop or a
\* datagram, a message goes to the topic of an adapter's type or is malformed.
THEOREM GatewayTypeCorrect == Spec => []TypeOK
BY TypeInit, TypeNext, PTL DEF Spec

-----------------------------------------------------------------------------
(* Where a datagram is.                                                    *)

Sent(d) == \E i \in DOMAIN sends : sends[i].payload.datagram = d

Placed(d) == InSocket(d) \/ Queued(d) \/ Handled(d) \/ Sent(d)

\* In each of the four at one place only, and in one of them only.
QueuedOnce(d) == \A i, j \in DOMAIN tasks : tasks[i] = d /\ tasks[j] = d => i = j

HandledOnce(d) == \A v, w \in Workers : worker[v] = d /\ worker[w] = d => v = w

SentOnce(d) ==
    \A i, j \in DOMAIN sends :
        sends[i].payload.datagram = d /\ sends[j].payload.datagram = d => i = j

Once(d) == QueuedOnce(d) /\ HandledOnce(d) /\ SentOnce(d)

Apart(d) ==
    /\ InSocket(d) => ~Queued(d) /\ ~Handled(d) /\ ~Sent(d)
    /\ Queued(d) => ~Handled(d) /\ ~Sent(d)
    /\ Handled(d) => ~Sent(d)

SocketsInv ==
    /\ \A a \in Adapters : received[a] <= Len(arrived[a])
    /\ \A a \in Adapters : \A i \in DOMAIN arrived[a] : AdapterOf[arrived[a][i]] = a
    /\ \A a \in Adapters : \A i, j \in DOMAIN arrived[a] :
          arrived[a][i] = arrived[a][j] => i = j

PlacesInv ==
    /\ SocketsInv
    /\ \A d \in Datagrams : Once(d) /\ Apart(d) /\ (Placed(d) => Arrived(d))

\* A datagram that has no place was taken.
MissingInv == \A d \in Datagrams : Arrived(d) /\ ~Placed(d) => d \in taken

GatewayInv == TypeOK /\ PlacesInv /\ MissingInv

LEMMA PlacesOf ==
    ASSUME NEW d
    PROVE  Placed(d) <=> Places(d) # {}
BY DEF Placed, InSocket, WaitsAt, Queued, Handled, Sent, Places

LEMMA OnePlace ==
    ASSUME NEW d \in Datagrams, PlacesInv
    PROVE  Cardinality(Places(d)) <= 1
<1> DEFINE a == AdapterOf[d]
<1>0. a \in Adapters /\ Once(d) /\ Apart(d) /\ SocketsInv
  BY DatagramAssumption DEF PlacesInv
<1>1. ASSUME NEW p \in Places(d), NEW q \in Places(d) PROVE p = q
  <2>1. /\ \A x \in {<<"socket", i>> : i \in {j \in DOMAIN arrived[a] : j > received[a] /\ arrived[a][j] = d}} :
              InSocket(d) /\ \E i \in DOMAIN arrived[a] : x = <<"socket", i>> /\ arrived[a][i] = d
        /\ \A x \in {<<"queue", i>> : i \in {j \in DOMAIN tasks : tasks[j] = d}} :
              Queued(d) /\ \E i \in DOMAIN tasks : x = <<"queue", i>> /\ tasks[i] = d
        /\ \A x \in {<<"thread", w>> : w \in {v \in Workers : worker[v] = d}} :
              Handled(d) /\ \E w \in Workers : x = <<"thread", w>> /\ worker[w] = d
        /\ \A x \in {<<"producer", i>> : i \in {j \in DOMAIN sends : sends[j].payload.datagram = d}} :
              Sent(d) /\ \E i \in DOMAIN sends : x = <<"producer", i>> /\ sends[i].payload.datagram = d
    BY DEF InSocket, WaitsAt, Queued, Handled, Sent
  <2>2. \A x \in Places(d) :
           \/ InSocket(d) /\ \E i \in DOMAIN arrived[a] : x = <<"socket", i>> /\ arrived[a][i] = d
           \/ Queued(d) /\ \E i \in DOMAIN tasks : x = <<"queue", i>> /\ tasks[i] = d
           \/ Handled(d) /\ \E w \in Workers : x = <<"thread", w>> /\ worker[w] = d
           \/ Sent(d) /\ \E i \in DOMAIN sends : x = <<"producer", i>> /\ sends[i].payload.datagram = d
    BY <2>1 DEF Places
  <2>3. CASE InSocket(d)
    BY <1>0, <1>1, <2>2, <2>3 DEF Apart, SocketsInv
  <2>4. CASE Queued(d)
    BY <1>0, <1>1, <2>2, <2>4 DEF Apart, Once, QueuedOnce, HandledOnce, SentOnce
  <2>5. CASE Handled(d)
    BY <1>0, <1>1, <2>2, <2>5 DEF Apart, Once, QueuedOnce, HandledOnce, SentOnce
  <2>6. CASE Sent(d)
    BY <1>0, <1>1, <2>2, <2>6 DEF Apart, Once, QueuedOnce, HandledOnce, SentOnce
  <2> QED
    BY <1>1, <2>2, <2>3, <2>4, <2>5, <2>6
<1>2. CASE Places(d) = {}
  BY <1>2, FS_EmptySet
<1>3. CASE Places(d) # {}
  <2>1. PICK p : Places(d) = {p}
    BY <1>1, <1>3
  <2>2. Cardinality({p}) = 1
    BY FS_Singleton
  <2> QED
    BY <2>1, <2>2
<1> QED
  BY <1>2, <1>3

LEMMA GatewayInvInit == Init => GatewayInv
<1> SUFFICES ASSUME Init PROVE GatewayInv
  OBVIOUS
<1>1. \A d \in Datagrams : AdapterOf[d] \in Adapters /\ d # NoTask
  BY DatagramAssumption, NoTaskAssumption DEF Tasks
<1>2. \A d \in Datagrams : ~Arrived(d) /\ ~Placed(d)
  BY <1>1 DEF Init, ProducerInit, Arrived, Reached, Placed, InSocket, Queued, Handled, Sent
<1>3. SocketsInv /\ \A d \in Datagrams : Once(d)
  BY <1>1 DEF Init, ProducerInit, SocketsInv, Once, QueuedOnce, HandledOnce, SentOnce
<1>4. MissingInv
  BY <1>2 DEF MissingInv
<1> QED
  BY <1>2, <1>3, <1>4, TypeInit DEF GatewayInv, PlacesInv, Apart, Placed

-----------------------------------------------------------------------------
(* How the parts change.                                                   *)

SameSocket(d) == (InSocket(d)' <=> InSocket(d)) /\ (Arrived(d)' <=> Arrived(d))

LEMMA SocketsUntouched ==
    ASSUME SocketsInv, UNCHANGED <<arrived, received>>
    PROVE  SocketsInv' /\ \A d \in Datagrams : SameSocket(d)
BY DEF SocketsInv, SameSocket, InSocket, WaitsAt, Arrived, Reached

LEMMA TasksUntouched ==
    ASSUME UNCHANGED tasks, NEW d
    PROVE  (Queued(d)' <=> Queued(d)) /\ (QueuedOnce(d) => QueuedOnce(d)')
BY DEF Queued, QueuedOnce

LEMMA WorkersUntouched ==
    ASSUME UNCHANGED worker, NEW d
    PROVE  (Handled(d)' <=> Handled(d)) /\ (HandledOnce(d) => HandledOnce(d)')
BY DEF Handled, HandledOnce

LEMMA SendsUntouched ==
    ASSUME SameDatagrams \/ UNCHANGED sends, NEW d
    PROVE  (Sent(d)' <=> Sent(d)) /\ (SentOnce(d) => SentOnce(d)')
BY DEF SameDatagrams, Sent, SentOnce

LEMMA ExecuteQueues ==
    ASSUME tasks \in Seq(Tasks), NEW t \in Tasks, Execute(t), NEW d
    PROVE  /\ Queued(d)' <=> Queued(d) \/ d = t
           /\ QueuedOnce(d) /\ ~(Queued(d) /\ d = t) => QueuedOnce(d)'
<1>1. /\ DOMAIN tasks = 1 .. Len(tasks) /\ Len(tasks) \in Nat
      /\ DOMAIN tasks' = 1 .. Len(tasks) + 1
      /\ \A i \in DOMAIN tasks : tasks'[i] = tasks[i]
      /\ tasks'[Len(tasks) + 1] = t
  BY DEF Execute
<1>2. Queued(d)' <=> Queued(d) \/ d = t
  BY <1>1 DEF Queued
<1>3. ASSUME QueuedOnce(d), ~(Queued(d) /\ d = t) PROVE QueuedOnce(d)'
  BY <1>1, <1>3 DEF Queued, QueuedOnce
<1> QED
  BY <1>2, <1>3

LEMMA TailQueues ==
    ASSUME tasks \in Seq(Tasks), tasks # <<>>, tasks' = Tail(tasks), NEW d, QueuedOnce(d)
    PROVE  /\ Queued(d)' <=> Queued(d) /\ d # Head(tasks)
           /\ QueuedOnce(d)'
           /\ Queued(Head(tasks))
<1>1. /\ DOMAIN tasks = 1 .. Len(tasks) /\ Len(tasks) \in Nat \ {0}
      /\ DOMAIN tasks' = 1 .. Len(tasks) - 1
      /\ \A i \in DOMAIN tasks' : i + 1 \in DOMAIN tasks /\ tasks'[i] = tasks[i + 1]
      /\ Head(tasks) = tasks[1]
  OBVIOUS
<1>2. ASSUME NEW i \in DOMAIN tasks, tasks[i] = d, d # Head(tasks) PROVE Queued(d)'
  <2>1. i - 1 \in DOMAIN tasks' /\ tasks'[i - 1] = d
    BY <1>1, <1>2
  <2> QED
    BY <2>1 DEF Queued
<1>3. ASSUME NEW i \in DOMAIN tasks', tasks'[i] = d PROVE Queued(d) /\ d # Head(tasks)
  <2>1. i + 1 \in DOMAIN tasks /\ tasks[i + 1] = d /\ i + 1 # 1 /\ 1 \in DOMAIN tasks
    BY <1>1, <1>3
  <2> QED
    BY <1>1, <2>1 DEF Queued, QueuedOnce
<1>4. Queued(d)' <=> Queued(d) /\ d # Head(tasks)
  BY <1>2, <1>3 DEF Queued
<1>5. QueuedOnce(d)'
  <2> SUFFICES ASSUME NEW i \in DOMAIN tasks', NEW j \in DOMAIN tasks',
                      tasks'[i] = d, tasks'[j] = d
               PROVE  i = j
    BY DEF QueuedOnce
  <2>1. i + 1 = j + 1
    BY <1>1 DEF QueuedOnce
  <2> QED
    BY <1>1, <2>1
<1>6. Queued(Head(tasks))
  BY <1>1 DEF Queued
<1> QED
  BY <1>4, <1>5, <1>6

LEMMA WorkerTakes ==
    ASSUME worker \in [Workers -> Tasks \cup {NoTask}], NEW w \in Workers,
           NEW t, worker' = [worker EXCEPT ![w] = t], NEW d, HandledOnce(d)
    PROVE  /\ worker[w] # d => (Handled(d)' <=> Handled(d) \/ d = t)
           /\ worker[w] = d /\ t # d => ~Handled(d)'
           /\ ~(Handled(d) /\ d = t) => HandledOnce(d)'
<1>1. worker'[w] = t /\ \A v \in Workers \ {w} : worker'[v] = worker[v]
  OBVIOUS
<1> QED
  BY <1>1 DEF Handled, HandledOnce

-----------------------------------------------------------------------------
(* How a datagram moves.                                                   *)

Kept(d) ==
    /\ InSocket(d)' <=> InSocket(d)
    /\ Queued(d)' <=> Queued(d)
    /\ Handled(d)' <=> Handled(d)
    /\ Sent(d)' <=> Sent(d)
    /\ Arrived(d)' <=> Arrived(d)
    /\ Once(d)'

\* d has one place after the step, and had one or was not there.
Moved(d) ==
    /\ Once(d)' /\ Apart(d)' /\ Placed(d)' /\ Arrived(d)'

LEMMA MovesKeepInv ==
    ASSUME GatewayInv, SocketsInv', taken \subseteq taken',
           \A d \in Datagrams : Kept(d) \/ Moved(d)
    PROVE  PlacesInv' /\ MissingInv'
<1>1. \A d \in Datagrams : Once(d)' /\ Apart(d)' /\ (Placed(d)' => Arrived(d)')
  BY DEF GatewayInv, PlacesInv, Kept, Moved, Apart, Placed
<1>2. \A d \in Datagrams : Arrived(d)' /\ ~Placed(d)' => Arrived(d) /\ ~Placed(d)
  BY DEF Kept, Moved, Placed
<1>3. MissingInv'
  BY <1>2 DEF GatewayInv, MissingInv
<1> QED
  BY <1>1, <1>3 DEF PlacesInv

-----------------------------------------------------------------------------
(* The steps.                                                              *)

LEMMA DatagramFacts ==
    ASSUME GatewayInv, NEW d \in Datagrams
    PROVE  /\ AdapterOf[d] \in Adapters /\ d \in Tasks /\ d # NoTask /\ d \notin Adapters
           /\ Once(d) /\ Apart(d) /\ (Placed(d) => Arrived(d))
           /\ QueuedOnce(d) /\ HandledOnce(d) /\ SentOnce(d)
BY DatagramAssumption, NoTaskAssumption DEF GatewayInv, PlacesInv, Tasks, Once

LEMMA StartKeeps ==
    ASSUME GatewayInv, NEW a \in Adapters, StartAdapter(a)
    PROVE  SocketsInv' /\ \A d \in Datagrams : Kept(d)
<1>1. UNCHANGED <<arrived, received, worker, sends>> /\ Execute(a)
  BY DEF StartAdapter, socketVars
<1>2. SocketsInv' /\ \A d \in Datagrams : SameSocket(d)
  BY <1>1, SocketsUntouched DEF GatewayInv, PlacesInv
<1>3. ASSUME NEW d \in Datagrams PROVE Kept(d)
  <2>1. d # a /\ QueuedOnce(d) /\ HandledOnce(d) /\ SentOnce(d)
    BY DatagramFacts
  <2>2. (Queued(d)' <=> Queued(d)) /\ QueuedOnce(d)'
    BY <1>1, <2>1, ExecuteQueues DEF Tasks, GatewayInv, TypeOK
  <2> QED
    BY <1>1, <1>2, <2>1, <2>2, WorkersUntouched, SendsUntouched DEF Kept, Once, SameSocket
<1> QED
  BY <1>2, <1>3

LEMMA ArriveKeeps ==
    ASSUME GatewayInv, NEW d \in Datagrams, Arrive(d)
    PROVE  SocketsInv' /\ \A e \in Datagrams : Kept(e) \/ Moved(e)
<1> DEFINE a == AdapterOf[d]
<1>0. /\ a \in Adapters /\ SocketsInv /\ TypeOK
      /\ arrived \in [Adapters -> Seq(Datagrams)] /\ received \in [Adapters -> Nat]
      /\ ~Arrived(d) /\ \A b \in Adapters : \A i \in DOMAIN arrived[b] : arrived[b][i] # d
  BY DatagramFacts DEF GatewayInv, PlacesInv, TypeOK, Arrive, Arrived, Reached
<1>1. /\ arrived' = [arrived EXCEPT ![a] = Append(arrived[a], d)]
      /\ UNCHANGED <<received, tasks, worker, sends>>
  BY DEF Arrive, poolVars
<1>2. /\ \A b \in Adapters \ {a} : arrived'[b] = arrived[b]
      /\ DOMAIN arrived[a] = 1 .. Len(arrived[a]) /\ Len(arrived[a]) \in Nat
      /\ DOMAIN arrived'[a] = 1 .. Len(arrived[a]) + 1
      /\ Len(arrived'[a]) = Len(arrived[a]) + 1
      /\ \A i \in DOMAIN arrived[a] : arrived'[a][i] = arrived[a][i]
      /\ arrived'[a][Len(arrived[a]) + 1] = d
  <2>1. arrived[a] \in Seq(Datagrams) /\ arrived'[a] = Append(arrived[a], d)
    BY <1>0, <1>1
  <2> QED
    BY <1>0, <1>1, <2>1
<1> HIDE DEF a
<1>3. SocketsInv'
  <2>1. \A b \in Adapters : received'[b] <= Len(arrived'[b])
    BY <1>0, <1>1, <1>2 DEF SocketsInv
  <2>0. \A i \in DOMAIN arrived'[a] : i \in DOMAIN arrived[a] \/ i = Len(arrived[a]) + 1
    BY <1>2
  <2>2. ASSUME NEW b \in Adapters, NEW i \in DOMAIN arrived'[b]
        PROVE  AdapterOf[arrived'[b][i]] = b
    <3>1. CASE b = a
      <4>1. CASE i \in DOMAIN arrived[a]
        BY <1>0, <1>2, <3>1, <4>1 DEF SocketsInv
      <4>2. CASE i = Len(arrived[a]) + 1
        BY <1>2, <3>1, <4>2 DEF a
      <4> QED
        BY <2>2, <2>0, <3>1, <4>1, <4>2
    <3>2. CASE b # a
      BY <1>0, <1>2, <2>2, <3>2 DEF SocketsInv
    <3> QED
      BY <3>1, <3>2
  <2>3. ASSUME NEW b \in Adapters, NEW i \in DOMAIN arrived'[b], NEW j \in DOMAIN arrived'[b],
               arrived'[b][i] = arrived'[b][j]
        PROVE  i = j
    <3>1. CASE b = a
      <4>1. /\ i \in DOMAIN arrived[a] \/ i = Len(arrived[a]) + 1
            /\ j \in DOMAIN arrived[a] \/ j = Len(arrived[a]) + 1
        BY <2>3, <2>0, <3>1
      <4>2. i \in DOMAIN arrived[a] <=> j \in DOMAIN arrived[a]
        BY <1>0, <1>2, <2>3, <3>1, <4>1
      <4>3. CASE i \in DOMAIN arrived[a]
        <5>1. arrived[a][i] = arrived[a][j]
          BY <1>2, <2>3, <3>1, <4>2, <4>3
        <5> QED
          BY <1>0, <4>2, <4>3, <5>1 DEF SocketsInv
      <4> QED
        BY <4>1, <4>2, <4>3
    <3>2. CASE b # a
      BY <1>0, <1>2, <2>3, <3>2 DEF SocketsInv
    <3> QED
      BY <3>1, <3>2
  <2> QED
    BY <2>1, <2>2, <2>3 DEF SocketsInv
<1>4. ASSUME NEW e \in Datagrams
      PROVE  /\ (Queued(e)' <=> Queued(e)) /\ (Handled(e)' <=> Handled(e))
             /\ (Sent(e)' <=> Sent(e)) /\ Once(e)'
  BY <1>1, DatagramFacts, TasksUntouched, WorkersUntouched, SendsUntouched DEF Once
<1>5. ASSUME NEW e \in Datagrams, e # d PROVE Kept(e)
  <2>1. AdapterOf[e] \in Adapters
    BY DatagramFacts
  <2>2. CASE AdapterOf[e] # a
    BY <1>1, <1>2, <1>4, <2>1, <2>2 DEF Kept, InSocket, WaitsAt, Arrived, Reached
  <2>3. CASE AdapterOf[e] = a
    <3>1. \A i : i \in DOMAIN arrived'[a] /\ arrived'[a][i] = e
                 <=> i \in DOMAIN arrived[a] /\ arrived[a][i] = e
      BY <1>2, <1>5
    <3> QED
      BY <1>1, <1>4, <2>3, <3>1 DEF Kept, InSocket, WaitsAt, Arrived, Reached
  <2> QED
    BY <2>2, <2>3
<1>6. Moved(d)
  <2>1. ~Queued(d) /\ ~Handled(d) /\ ~Sent(d)
    BY <1>0, DatagramFacts DEF Placed
  <2>2. received[a] < Len(arrived[a]) + 1
    BY <1>0, <1>2 DEF SocketsInv
  <2>3. InSocket(d)' /\ Arrived(d)'
    <3>1. \E i \in DOMAIN arrived'[a] : i > received'[a] /\ arrived'[a][i] = d
      BY <1>0, <1>1, <1>2, <2>2
    <3> QED
      BY <3>1 DEF InSocket, WaitsAt, Arrived, Reached, a
  <2> QED
    BY <1>4, <2>1, <2>3 DEF Moved, Apart, Placed
<1> QED
  BY <1>3, <1>5, <1>6

LEMMA ReceiveKeeps ==
    ASSUME GatewayInv, NEW w \in Workers, NEW a \in Adapters, Receive(w, a)
    PROVE  SocketsInv' /\ \A e \in Datagrams : Kept(e) \/ Moved(e)
<1>0. /\ SocketsInv
      /\ arrived \in [Adapters -> Seq(Datagrams)] /\ received \in [Adapters -> Nat]
      /\ tasks \in Seq(Tasks)
  BY DEF GatewayInv, PlacesInv, TypeOK
<1>8. PICK n \in Nat : n = received[a] + 1
  BY <1>0
<1>9. PICK d \in Datagrams : d = arrived[a][n]
  BY <1>0, <1>8 DEF Receive
<1>1. /\ received' = [received EXCEPT ![a] = n] /\ Execute(d)
      /\ UNCHANGED <<arrived, worker, sends>>
  BY <1>8, <1>9 DEF Receive
<1>2. /\ n \in DOMAIN arrived[a] /\ n \in Nat /\ d \in Datagrams /\ AdapterOf[d] = a
      /\ n <= Len(arrived[a])
      /\ received'[a] = n /\ \A b \in Adapters \ {a} : received'[b] = received[b]
  <2>1. n \in DOMAIN arrived[a] /\ n <= Len(arrived[a]) /\ n \in Nat
    BY <1>0, <1>8 DEF Receive
  <2> QED
    BY <1>0, <1>1, <1>9, <2>1 DEF SocketsInv
<1>3. SocketsInv'
  BY <1>0, <1>1, <1>2 DEF SocketsInv
<1>4. ASSUME NEW e \in Datagrams
      PROVE  /\ (Handled(e)' <=> Handled(e)) /\ (Sent(e)' <=> Sent(e))
             /\ HandledOnce(e)' /\ SentOnce(e)' /\ (Arrived(e)' <=> Arrived(e))
             /\ (Queued(e)' <=> Queued(e) \/ e = d)
             /\ (~(Queued(e) /\ e = d) => QueuedOnce(e)')
  <2>1. (Arrived(e)' <=> Arrived(e)) /\ d \in Tasks
    BY <1>1, <1>2 DEF Arrived, Reached, Tasks
  <2> QED
    BY <1>0, <1>1, <2>1, DatagramFacts, WorkersUntouched, SendsUntouched, ExecuteQueues
<1>5. ASSUME NEW e \in Datagrams, e # d PROVE Kept(e)
  <2>1. AdapterOf[e] \in Adapters
    BY DatagramFacts
  <2>2. ASSUME NEW i PROVE WaitsAt(e, i)' <=> WaitsAt(e, i)
    <3>1. CASE AdapterOf[e] # a
      BY <1>1, <1>2, <2>1, <3>1 DEF WaitsAt
    <3>2. CASE AdapterOf[e] = a
      <4>1. i \in DOMAIN arrived[a] /\ arrived[a][i] = e => i \in Nat /\ i # n
        BY <1>0, <1>5, <1>9
      <4>2. i \in DOMAIN arrived[a] /\ arrived[a][i] = e => (i > received[a] <=> i > n)
        BY <1>0, <1>8, <4>1
      <4> QED
        BY <1>1, <1>2, <3>2, <4>2 DEF WaitsAt
    <3> QED
      BY <3>1, <3>2
  <2>3. InSocket(e)' <=> InSocket(e)
    BY <1>1, <2>2 DEF InSocket
  <2> QED
    BY <1>4, <1>5, <2>3 DEF Kept, Once
<1>6. Moved(d)
  <2>1. InSocket(d)
    BY <1>0, <1>2, <1>8, <1>9 DEF InSocket, WaitsAt
  <2>2. ~InSocket(d)'
    <3>1. \A i \in DOMAIN arrived[a] : arrived[a][i] = d => i = n
      BY <1>0, <1>2, <1>9 DEF SocketsInv
    <3> QED
      BY <1>1, <1>2, <3>1 DEF InSocket, WaitsAt
  <2>3. ~Queued(d) /\ ~Handled(d) /\ ~Sent(d) /\ Arrived(d)
    BY <1>2, <2>1, DatagramFacts DEF Apart, Placed
  <2> QED
    BY <1>2, <1>4, <2>2, <2>3 DEF Moved, Once, Apart, Placed
<1> QED
  BY <1>3, <1>5, <1>6

LEMMA TakeKeeps ==
    ASSUME GatewayInv, NEW w \in Workers, Take(w)
    PROVE  SocketsInv' /\ \A e \in Datagrams : Kept(e) \/ Moved(e)
<1>1. /\ tasks \in Seq(Tasks) /\ tasks # <<>> /\ tasks' = Tail(tasks)
      /\ worker \in [Workers -> Tasks \cup {NoTask}] /\ worker[w] = NoTask
      /\ UNCHANGED <<arrived, received, sends>>
  BY DEF GatewayInv, TypeOK, Take, socketVars
<1>2. PICK t : t = Head(tasks)
  OBVIOUS
<1>3. worker' = [worker EXCEPT ![w] = t]
  BY <1>2 DEF Take
<1>4. SocketsInv' /\ \A d \in Datagrams : SameSocket(d)
  BY <1>1, SocketsUntouched DEF GatewayInv, PlacesInv
<1>5. ASSUME NEW e \in Datagrams PROVE Kept(e) \/ Moved(e)
  <2>1. /\ e # NoTask /\ Apart(e) /\ (Placed(e) => Arrived(e))
        /\ QueuedOnce(e) /\ HandledOnce(e) /\ SentOnce(e)
    BY DatagramFacts
  <2>2. /\ (InSocket(e)' <=> InSocket(e)) /\ (Arrived(e)' <=> Arrived(e))
        /\ (Sent(e)' <=> Sent(e)) /\ SentOnce(e)'
    BY <1>1, <1>4, <2>1, SendsUntouched DEF SameSocket
  <2>3. (Queued(e)' <=> Queued(e) /\ e # t) /\ QueuedOnce(e)' /\ (e = t => Queued(e))
    BY <1>1, <1>2, <2>1, TailQueues
  <2>4. (Handled(e)' <=> Handled(e) \/ e = t) /\ (~(Handled(e) /\ e = t) => HandledOnce(e)')
    <3>1. worker \in [Workers -> Tasks \cup {NoTask}] /\ worker[w] # e /\ HandledOnce(e)
      BY <1>1, <2>1
    <3>2. worker'[w] = t /\ \A v \in Workers \ {w} : worker'[v] = worker[v]
      BY <1>3, <3>1
    <3>3. Handled(e)' <=> Handled(e) \/ e = t
      BY <3>1, <3>2 DEF Handled
    <3>4. ~(Handled(e) /\ e = t) => HandledOnce(e)'
      BY <3>1, <3>2 DEF Handled, HandledOnce
    <3> QED
      BY <3>3, <3>4
  <2>5. CASE e = t
    BY <2>1, <2>2, <2>3, <2>4, <2>5 DEF Moved, Once, Apart, Placed
  <2>6. CASE e # t
    BY <2>1, <2>2, <2>3, <2>4, <2>6 DEF Kept, Once
  <2> QED
    BY <2>5, <2>6
<1> QED
  BY <1>4, <1>5

\* A thread is done with the datagram it handled.
LEMMA ThreadLeaves ==
    ASSUME GatewayInv, NEW w \in Workers, NEW d \in Datagrams, worker[w] = d,
           worker' = [worker EXCEPT ![w] = NoTask],
           NEW e \in Datagrams
    PROVE  (Handled(e)' <=> Handled(e) /\ e # d) /\ HandledOnce(e)'
<1>1. e # NoTask /\ d # NoTask /\ HandledOnce(e)
  BY DatagramFacts
<1>2. worker \in [Workers -> Tasks \cup {NoTask}]
  BY DEF GatewayInv, TypeOK
<1>3. /\ worker[w] # e => (Handled(e)' <=> Handled(e) \/ e = NoTask)
      /\ worker[w] = e /\ NoTask # e => ~Handled(e)'
      /\ ~(Handled(e) /\ e = NoTask) => HandledOnce(e)'
  BY <1>1, <1>2, WorkerTakes
<1> QED
  BY <1>1, <1>3

LEMMA HandleKeeps ==
    ASSUME GatewayInv, NEW w \in Workers, Handle(w)
    PROVE  SocketsInv' /\ \A e \in Datagrams : Kept(e) \/ Moved(e)
<1>1. PICK d \in Datagrams : d = worker[w]
  BY DEF Handle
<1>2. /\ Accept(MessageOf(d)) /\ worker' = [worker EXCEPT ![w] = NoTask]
      /\ UNCHANGED <<arrived, received, tasks>>
  BY <1>1 DEF Handle, socketVars
<1>3. SocketsInv' /\ \A e \in Datagrams : SameSocket(e)
  BY <1>2, SocketsUntouched DEF GatewayInv, PlacesInv
<1>4. /\ Len(sends) \in Nat /\ DOMAIN sends = 1 .. Len(sends)
      /\ DOMAIN sends' = 1 .. Len(sends) + 1
      /\ \A i \in DOMAIN sends : sends'[i] = sends[i]
      /\ sends'[Len(sends) + 1].payload.datagram = d
  BY <1>2, MessageShape, AcceptAppends DEF GatewayInv, TypeOK
<1>5. ASSUME NEW e \in Datagrams PROVE Kept(e) \/ Moved(e)
  <2>1. /\ Apart(e) /\ (Placed(e) => Arrived(e))
        /\ QueuedOnce(e) /\ HandledOnce(e) /\ SentOnce(e)
    BY DatagramFacts
  <2>2. /\ (InSocket(e)' <=> InSocket(e)) /\ (Arrived(e)' <=> Arrived(e))
        /\ (Queued(e)' <=> Queued(e)) /\ QueuedOnce(e)'
    BY <1>2, <1>3, <2>1, TasksUntouched DEF SameSocket
  <2>3. (Handled(e)' <=> Handled(e) /\ e # d) /\ HandledOnce(e)' /\ (e = d => Handled(e))
    BY <1>1, <1>2, ThreadLeaves DEF Handled
  <2>4. Sent(e)' <=> Sent(e) \/ e = d
    BY <1>4 DEF Sent
  <2>5. ~(Sent(e) /\ e = d) => SentOnce(e)'
    BY <1>4, <2>1 DEF Sent, SentOnce
  <2>6. CASE e = d
    BY <2>1, <2>2, <2>3, <2>4, <2>5, <2>6 DEF Moved, Once, Apart, Placed
  <2>7. CASE e # d
    BY <2>1, <2>2, <2>3, <2>4, <2>5, <2>7 DEF Kept, Once
  <2> QED
    BY <2>6, <2>7
<1> QED
  BY <1>3, <1>5

\* The one step that loses a datagram without a crash.
LEMMA HandleThrowsLosesOne ==
    ASSUME GatewayInv, NEW w \in Workers, HandleThrows(w)
    PROVE  PlacesInv' /\ MissingInv'
<1>1. PICK d \in Datagrams : d = worker[w]
  BY DEF HandleThrows
<1>2. /\ worker' = [worker EXCEPT ![w] = NoTask]
      /\ UNCHANGED <<arrived, received, tasks, sends>>
      /\ taken' = taken \cup {d}
  BY <1>1 DEF HandleThrows, KafkaFault, socketVars
<1>3. SocketsInv' /\ \A e \in Datagrams : SameSocket(e)
  BY <1>2, SocketsUntouched DEF GatewayInv, PlacesInv
<1>4. ASSUME NEW e \in Datagrams
      PROVE  /\ Once(e)' /\ Apart(e)' /\ (Placed(e)' => Arrived(e)')
             /\ Arrived(e)' /\ ~Placed(e)' => Arrived(e) /\ (~Placed(e) \/ e = d)
  <2>1. /\ Apart(e) /\ (Placed(e) => Arrived(e))
        /\ QueuedOnce(e) /\ HandledOnce(e) /\ SentOnce(e)
    BY DatagramFacts
  <2>2. /\ (InSocket(e)' <=> InSocket(e)) /\ (Arrived(e)' <=> Arrived(e))
        /\ (Queued(e)' <=> Queued(e)) /\ QueuedOnce(e)'
        /\ (Sent(e)' <=> Sent(e)) /\ SentOnce(e)'
    BY <1>2, <1>3, <2>1, TasksUntouched, SendsUntouched DEF SameSocket
  <2>3. (Handled(e)' <=> Handled(e) /\ e # d) /\ HandledOnce(e)'
    BY <1>1, <1>2, ThreadLeaves
  <2> QED
    BY <2>1, <2>2, <2>3 DEF Once, Apart, Placed
<1>5. MissingInv'
  BY <1>2, <1>4 DEF GatewayInv, MissingInv
<1> QED
  BY <1>3, <1>4, <1>5 DEF PlacesInv

LEMMA QuietStepKeeps ==
    ASSUME GatewayInv, UNCHANGED <<arrived, received, tasks, worker>>,
           SameDatagrams \/ UNCHANGED sends
    PROVE  SocketsInv' /\ \A e \in Datagrams : Kept(e)
<1>1. SocketsInv' /\ \A e \in Datagrams : SameSocket(e)
  BY SocketsUntouched DEF GatewayInv, PlacesInv
<1>2. ASSUME NEW e \in Datagrams PROVE Kept(e)
  BY <1>1, DatagramFacts, TasksUntouched, WorkersUntouched, SendsUntouched
     DEF Kept, Once, SameSocket
<1> QED
  BY <1>1, <1>2

\* Only messages in the producer are left after a crash: it takes the rest.
LEMMA CrashKeepsPlaces ==
    ASSUME GatewayInv, Crash
    PROVE  PlacesInv' /\ MissingInv'
<1>1. /\ received' = [a \in Adapters |-> Len(arrived[a])] /\ arrived' = arrived
      /\ tasks' = <<>> /\ worker' = [v \in Workers |-> NoTask]
      /\ taken' = taken \cup {d \in Datagrams : Underway(d)}
  BY DEF Crash
<1>2. arrived \in [Adapters -> Seq(Datagrams)] /\ SocketsInv /\ ProducerTypeOK
  BY DEF GatewayInv, TypeOK, PlacesInv
<1>3. SameDatagrams
  BY <1>2, LosingKeepsDatagrams DEF Crash
<1>4. SocketsInv'
  BY <1>1, <1>2 DEF SocketsInv
<1>5. ASSUME NEW e \in Datagrams
      PROVE  /\ Once(e)' /\ Apart(e)' /\ (Placed(e)' => Arrived(e)')
             /\ Arrived(e)' /\ ~Placed(e)' => e \in taken'
  <2>1. /\ AdapterOf[e] \in Adapters /\ e # NoTask /\ (Placed(e) => Arrived(e)) /\ SentOnce(e)
    BY DatagramFacts
  <2>2. ~Queued(e)' /\ QueuedOnce(e)' /\ ~Handled(e)' /\ HandledOnce(e)'
    BY <1>1, <2>1 DEF Queued, QueuedOnce, Handled, HandledOnce
  <2>3. ~InSocket(e)'
    BY <1>1, <1>2, <2>1 DEF InSocket, WaitsAt
  <2>4. (Sent(e)' <=> Sent(e)) /\ SentOnce(e)'
    BY <1>3, <2>1, SendsUntouched
  <2>5. Arrived(e)' <=> Arrived(e)
    BY <1>1 DEF Arrived, Reached
  <2>6. ASSUME Arrived(e), ~Sent(e) PROVE e \in taken'
    <3>1. CASE ~Placed(e)
      BY <1>1, <2>6, <3>1 DEF GatewayInv, MissingInv
    <3>2. CASE Placed(e)
      BY <1>1, <2>6, <3>2 DEF Placed, Underway
    <3> QED
      BY <3>1, <3>2
  <2> QED
    BY <2>1, <2>2, <2>3, <2>4, <2>5, <2>6 DEF Once, Apart, Placed
<1> QED
  BY <1>4, <1>5 DEF PlacesInv, MissingInv

\* What was taken stays so.
LEMMA TakenStays == TypeOK /\ [Next]_vars => taken \subseteq taken'
BY DEF Next, StartAdapter, Arrive, Receive, Take, Handle, HandleThrows, BrokerAppend,
       Acknowledge, SendFails, Crash, Quiet, vars

LEMMA GatewayInvNext == GatewayInv /\ [Next]_vars => GatewayInv'
<1> SUFFICES ASSUME GatewayInv, [Next]_vars PROVE GatewayInv'
  OBVIOUS
<1>1. TypeOK' /\ taken \subseteq taken'
  BY TypeNext, TakenStays DEF GatewayInv
<1>2. ASSUME SocketsInv', \A d \in Datagrams : Kept(d) \/ Moved(d)
      PROVE  PlacesInv' /\ MissingInv'
  BY <1>1, <1>2, MovesKeepInv
<1>3. ASSUME NEW a \in Adapters, StartAdapter(a) PROVE PlacesInv' /\ MissingInv'
  BY <1>2, <1>3, StartKeeps
<1>4. ASSUME NEW d \in Datagrams, Arrive(d) PROVE PlacesInv' /\ MissingInv'
  BY <1>2, <1>4, ArriveKeeps
<1>5. ASSUME NEW w \in Workers, NEW a \in Adapters, Receive(w, a)
      PROVE  PlacesInv' /\ MissingInv'
  BY <1>2, <1>5, ReceiveKeeps
<1>6. ASSUME NEW w \in Workers, Take(w) PROVE PlacesInv' /\ MissingInv'
  BY <1>2, <1>6, TakeKeeps
<1>7. ASSUME NEW w \in Workers, Handle(w) PROVE PlacesInv' /\ MissingInv'
  BY <1>2, <1>7, HandleKeeps
<1>8. ASSUME NEW w \in Workers, HandleThrows(w) PROVE PlacesInv' /\ MissingInv'
  BY <1>8, HandleThrowsLosesOne
<1>9. ASSUME NEW i \in DOMAIN sends, BrokerAppend(i) \/ Acknowledge(i) \/ SendFails(i)
      PROVE  PlacesInv' /\ MissingInv'
  <2>1. SameDatagrams
    BY <1>9, CompletionKeepsDatagrams
       DEF BrokerAppend, Acknowledge, SendFails, GatewayInv, TypeOK
  <2>2. UNCHANGED <<arrived, received, tasks, worker>>
    BY <1>9 DEF BrokerAppend, Acknowledge, SendFails, socketVars, poolVars
  <2> QED
    BY <1>2, <2>1, <2>2, QuietStepKeeps
<1>10. CASE Crash
  BY <1>1, <1>10, CrashKeepsPlaces DEF GatewayInv
<1>11. CASE UNCHANGED vars
  <2>1. SocketsInv' /\ \A d \in Datagrams : Kept(d)
    BY <1>11, QuietStepKeeps DEF vars
  <2> QED
    BY <1>1, <1>2, <2>1 DEF GatewayInv
<1> QED
  BY <1>1, <1>3, <1>4, <1>5, <1>6, <1>7, <1>8, <1>9, <1>10, <1>11 DEF Next, Quiet, GatewayInv

LEMMA GatewayInvAlways == Spec => []GatewayInv
BY GatewayInvInit, GatewayInvNext, PTL DEF Spec

-----------------------------------------------------------------------------
(* The order of the datagrams that arrived with every loop running. The    *)
(* loops keep their threads until a crash takes sockets, queue and threads *)
(* with it, and with no more processors than adapters they leave one       *)
(* thread, which handles one datagram at a time.                           *)

LEMMA OneThreadLeft ==
    ASSUME TypeOK, Processors <= Cardinality(Adapters), AllListening,
           NEW v \in Workers, worker[v] \notin Adapters,
           NEW w \in Workers, worker[w] \notin Adapters
    PROVE  v = w
<1> SUFFICES ASSUME v # w PROVE FALSE
  OBVIOUS
<1> DEFINE T == (Workers \ {v}) \ {w}
           f == [a \in Adapters |-> CHOOSE u \in Workers : worker[u] = a]
<1>1. \A a \in Adapters : f[a] \in T /\ worker[f[a]] = a
  BY DEF AllListening, Listening
<1>2. f \in Injection(Adapters, T)
  BY <1>1 DEF Injection, IsInjective
<1>3. IsFiniteSet(Workers) /\ Cardinality(Workers) = Processors + 1 /\ Processors \in Nat
  BY ProcessorsAssumption, FS_Interval DEF Workers
<1>4. IsFiniteSet(Workers \ {v}) /\ Cardinality(Workers \ {v}) = Processors
  BY <1>3, FS_RemoveElement
<1>5. IsFiniteSet(T) /\ Cardinality(T) = Processors - 1
  BY <1>3, <1>4, FS_RemoveElement
<1> HIDE DEF T, f
<1>6. IsFiniteSet(Adapters) /\ Cardinality(Adapters) <= Cardinality(T)
  BY <1>2, <1>5, FS_Injection
<1>7. Cardinality(Adapters) \in Nat
  BY <1>6, FS_CardinalityType
<1> QED
  BY <1>3, <1>5, <1>6, <1>7

CalmHolds == \A d \in calm : Arrived(d) /\ (InSocket(d) \/ Queued(d) \/ Handled(d) => AllListening)

\* e came before d, and is not behind d anywhere.
InTurn(e, d) ==
    /\ \A i, j \in DOMAIN tasks : tasks[i] = e /\ tasks[j] = d => i < j
    /\ Handled(d) \/ Sent(d) => ~Queued(e)
    /\ Sent(d) => ~Handled(e)
    /\ \A i, j \in DOMAIN sends :
          sends[i].payload.datagram = e /\ sends[j].payload.datagram = d => i < j

CalmInTurn == \A d \in calm, e \in Datagrams : CameBefore(e, d) => InTurn(e, d)

CalmInv == Processors <= Cardinality(Adapters) => CalmHolds /\ CalmInTurn

LEMMA CalmInvInit == Init => CalmInv
BY DEF Init, CalmInv, CalmHolds, CalmInTurn

\* Steps after which nothing arrived, and no loop has lost its thread.
LEMMA CalmStays ==
    ASSUME CalmHolds, UNCHANGED <<arrived, calm>>, calm \subseteq Datagrams,
           \A a \in Adapters : Listening(a) => Listening(a)',
           \A d \in calm : InSocket(d)' \/ Queued(d)' \/ Handled(d)'
                           => InSocket(d) \/ Queued(d) \/ Handled(d)
    PROVE  CalmHolds'
BY DEF CalmHolds, Arrived, Reached, AllListening

LEMMA SameCameBefore ==
    ASSUME UNCHANGED arrived
    PROVE  \A d, e : CameBefore(d, e)' <=> CameBefore(d, e)
BY DEF CameBefore

\* Both are of one adapter, and are two.
LEMMA CameBeforeFacts ==
    ASSUME GatewayInv, NEW d \in Datagrams, NEW e \in Datagrams, CameBefore(e, d)
    PROVE  /\ AdapterOf[e] = AdapterOf[d] /\ e # d
           /\ InSocket(e) => InSocket(d)
           /\ Arrived(e) /\ Arrived(d)
<1> DEFINE a == AdapterOf[e]
<1>1. PICK i \in DOMAIN arrived[a], j \in DOMAIN arrived[a] :
           i < j /\ arrived[a][i] = e /\ arrived[a][j] = d
  BY DEF CameBefore
<1>2. a \in Adapters /\ SocketsInv
  BY DatagramFacts DEF GatewayInv, PlacesInv
<1>3. arrived[a] \in Seq(Datagrams) /\ received[a] \in Nat
  BY <1>2 DEF GatewayInv, TypeOK
<1>4. AdapterOf[d] = a
  BY <1>1, <1>2 DEF SocketsInv
<1> HIDE DEF a
<1>5. i \in Nat /\ j \in Nat
  BY <1>1, <1>3
<1>6. e # d
  BY <1>1, <1>2, <1>5 DEF SocketsInv
<1>7. InSocket(e) => InSocket(d)
  <2> SUFFICES ASSUME NEW k \in DOMAIN arrived[a], k > received[a], arrived[a][k] = e
               PROVE  InSocket(d)
    BY DEF InSocket, WaitsAt, a
  <2>1. k = i
    BY <1>1, <1>2 DEF SocketsInv
  <2>2. j > received[a]
    BY <1>1, <1>3, <1>5, <2>1
  <2> QED
    BY <1>1, <1>4, <2>2 DEF InSocket, WaitsAt
<1>8. Arrived(e) /\ Arrived(d)
  BY <1>1, <1>4 DEF Arrived, Reached, a
<1> QED
  BY <1>4, <1>6, <1>7, <1>8 DEF a

\* What the step has to do with tasks, threads and sends keeps the order of a
\* pair, if none of its conditions gets harder to meet.
LEMMA TurnStays ==
    ASSUME NEW d, NEW e, InTurn(e, d),
           \A i, j \in DOMAIN tasks' : tasks'[i] = e /\ tasks'[j] = d => i < j,
           Sent(d)' <=> Sent(d), Handled(d)' => Handled(d), Queued(e)' => Queued(e),
           Handled(e)' => Handled(e), SameDatagrams \/ UNCHANGED sends
    PROVE  InTurn(e, d)'
BY DEF InTurn, SameDatagrams

LEMMA StartKeepsTurns ==
    ASSUME GatewayInv, CalmHolds, CalmInTurn, NEW a \in Adapters, StartAdapter(a)
    PROVE  CalmHolds' /\ CalmInTurn'
<1>1. UNCHANGED <<arrived, calm, worker, sends>> /\ Execute(a) /\ calm \subseteq Datagrams
      /\ tasks \in Seq(Tasks) /\ a \in Tasks
  BY DEF StartAdapter, socketVars, GatewayInv, TypeOK, Tasks
<1>2. \A d \in Datagrams : Kept(d)
  BY StartKeeps
<1>3. CalmHolds'
  <2>1. \A b \in Adapters : Listening(b) => Listening(b)'
    BY <1>1 DEF Listening
  <2> QED
    BY <1>1, <1>2, <2>1, CalmStays DEF Kept
<1>4. ASSUME NEW d \in calm, NEW e \in Datagrams, CameBefore(e, d) PROVE InTurn(e, d)'
  <2>1. InTurn(e, d) /\ d \in Datagrams /\ d # a /\ e # a
    BY <1>1, <1>4, DatagramFacts DEF CalmInTurn
  <2>2. /\ DOMAIN tasks' = 1 .. Len(tasks) + 1 /\ DOMAIN tasks = 1 .. Len(tasks)
        /\ \A i \in DOMAIN tasks : tasks'[i] = tasks[i]
        /\ tasks'[Len(tasks) + 1] = a /\ Len(tasks) \in Nat
    BY <1>1 DEF Execute
  <2>3. \A i, j \in DOMAIN tasks' : tasks'[i] = e /\ tasks'[j] = d => i < j
    BY <2>1, <2>2 DEF InTurn
  <2> QED
    BY <1>1, <1>2, <2>1, <2>3, TurnStays DEF Kept
<1> QED
  BY <1>1, <1>3, <1>4, SameCameBefore DEF CalmInTurn

LEMMA ArriveKeepsTurns ==
    ASSUME GatewayInv, CalmHolds, CalmInTurn, NEW x \in Datagrams, Arrive(x)
    PROVE  CalmHolds' /\ CalmInTurn'
<1> DEFINE a == AdapterOf[x]
<1>1. /\ UNCHANGED <<tasks, worker, sends>> /\ calm \subseteq Datagrams
      /\ calm' = (IF AllListening THEN calm \cup {x} ELSE calm)
      /\ arrived' = [arrived EXCEPT ![a] = Append(arrived[a], x)]
      /\ ~Arrived(x) /\ a \in Adapters
      /\ arrived \in [Adapters -> Seq(Datagrams)]
  BY DatagramFacts DEF Arrive, poolVars, GatewayInv, TypeOK, Arrived, Reached
<1>2. ~Queued(x) /\ ~Handled(x) /\ ~Sent(x)
  BY <1>1, DatagramFacts DEF Placed
<1>3. \A d \in Datagrams : (Queued(d)' <=> Queued(d)) /\ (Handled(d)' <=> Handled(d))
                           /\ (Sent(d)' <=> Sent(d))
  BY <1>1 DEF Queued, Handled, Sent
<1>4. AllListening => AllListening'
  BY <1>1 DEF AllListening, Listening
<1>5. /\ \A b \in Adapters \ {a} : arrived'[b] = arrived[b]
      /\ DOMAIN arrived[a] = 1 .. Len(arrived[a]) /\ Len(arrived[a]) \in Nat
      /\ DOMAIN arrived'[a] = 1 .. Len(arrived[a]) + 1
      /\ \A i \in DOMAIN arrived[a] : arrived'[a][i] = arrived[a][i]
      /\ arrived'[a][Len(arrived[a]) + 1] = x
  <2>1. arrived[a] \in Seq(Datagrams) /\ arrived'[a] = Append(arrived[a], x)
    BY <1>1
  <2> QED
    BY <1>1, <2>1
<1> HIDE DEF a
<1>6. \A d \in Datagrams \ {x} : Arrived(d) => Arrived(d)'
  BY <1>5, DatagramFacts DEF Arrived, Reached
<1>7. Arrived(x)'
  <2>1. Len(arrived[a]) + 1 \in DOMAIN arrived'[a]
    BY <1>5
  <2> QED
    BY <1>5, <2>1 DEF Arrived, Reached, a
<1>8. \A d \in Datagrams \ {x} : Kept(d) \/ Moved(d)
  BY ArriveKeeps
<1>9. ASSUME NEW d \in calm' PROVE Arrived(d)' /\ (InSocket(d)' \/ Queued(d)' \/ Handled(d)' => AllListening')
  <2>1. CASE d = x
    <3>1. d \notin calm
      BY <1>1, <2>1 DEF CalmHolds
    <3> QED
      BY <1>1, <1>4, <1>7, <1>9, <2>1, <3>1
  <2>2. CASE d # x
    <3>1. d \in calm /\ d \in Datagrams /\ Arrived(d)
      BY <1>1, <1>9, <2>2 DEF CalmHolds
    <3>2. InSocket(d)' => InSocket(d)
      <4>1. CASE AdapterOf[d] # a
        BY <1>1, <1>5, <3>1, <4>1, DatagramFacts DEF InSocket, WaitsAt, Arrive
      <4>2. CASE AdapterOf[d] = a
        <5>1. \A i \in DOMAIN arrived'[a] : arrived'[a][i] = d => i \in DOMAIN arrived[a]
          BY <1>5, <2>2
        <5>2. received' = received
          BY DEF Arrive
        <5> QED
          BY <1>5, <4>2, <5>1, <5>2 DEF InSocket, WaitsAt
      <4> QED
        BY <4>1, <4>2
    <3> QED
      BY <1>3, <1>4, <1>6, <2>2, <3>1, <3>2 DEF CalmHolds
  <2> QED
    BY <2>1, <2>2
<1>10. ASSUME NEW d \in calm', NEW e \in Datagrams, CameBefore(e, d)' PROVE InTurn(e, d)'
  <2>1. CASE d = x
    BY <1>2, <1>3, <2>1 DEF InTurn, Queued, Handled, Sent
  <2>2. CASE d # x
    <3>1. d \in calm /\ d \in Datagrams
      BY <1>1, <1>10, <2>2
    <3>2. CASE e = x
      <4>1. PICK i \in DOMAIN arrived'[a], j \in DOMAIN arrived'[a] :
                 i < j /\ arrived'[a][i] = x /\ arrived'[a][j] = d
        BY <1>10, <3>2 DEF CameBefore, a
      <4>2. j \in DOMAIN arrived[a] /\ i \in DOMAIN arrived[a]
        BY <1>5, <2>2, <4>1
      <4>3. Arrived(x)
        BY <1>5, <4>1, <4>2 DEF Arrived, Reached, a
      <4> QED
        BY <1>1, <4>3
    <3>3. CASE e # x
      <4>1. CameBefore(e, d)
        <5>1. CASE AdapterOf[e] = a
          BY <1>5, <1>10, <2>2, <3>3, <5>1 DEF CameBefore
        <5>2. CASE AdapterOf[e] # a
          BY <1>5, <1>10, <5>2, DatagramFacts DEF CameBefore
        <5> QED
          BY <5>1, <5>2
      <4> QED
        BY <1>1, <3>1, <4>1 DEF CalmInTurn, InTurn, Queued, Handled, Sent
    <3> QED
      BY <3>2, <3>3
  <2> QED
    BY <2>1, <2>2
<1> QED
  BY <1>9, <1>10 DEF CalmHolds, CalmInTurn

LEMMA ReceiveKeepsTurns ==
    ASSUME GatewayInv, CalmHolds, CalmInTurn,
           NEW w \in Workers, NEW a \in Adapters, Receive(w, a)
    PROVE  CalmHolds' /\ CalmInTurn'
<1>0. /\ SocketsInv /\ calm \subseteq Datagrams /\ tasks \in Seq(Tasks)
      /\ arrived \in [Adapters -> Seq(Datagrams)] /\ received \in [Adapters -> Nat]
  BY DEF GatewayInv, PlacesInv, TypeOK
<1>1. PICK n \in Nat : n = received[a] + 1
  BY <1>0
<1>2. n \in DOMAIN arrived[a] /\ received[a] < n
  BY <1>0, <1>1 DEF Receive
<1>3. PICK x \in Datagrams : x = arrived[a][n]
  BY <1>0, <1>2
<1>4. /\ UNCHANGED <<arrived, calm, worker, sends>> /\ Execute(x)
      /\ received' = [received EXCEPT ![a] = n]
  BY <1>1, <1>3 DEF Receive
<1>5. AdapterOf[x] = a
  BY <1>0, <1>2, <1>3 DEF SocketsInv
<1>6. InSocket(x)
  BY <1>2, <1>3, <1>5 DEF InSocket, WaitsAt
<1>7. ~Queued(x) /\ ~Handled(x) /\ ~Sent(x)
  BY <1>6, DatagramFacts DEF Apart
<1>8. /\ DOMAIN tasks' = 1 .. Len(tasks) + 1 /\ DOMAIN tasks = 1 .. Len(tasks)
      /\ \A i \in DOMAIN tasks : tasks'[i] = tasks[i]
      /\ tasks'[Len(tasks) + 1] = x /\ Len(tasks) \in Nat
  BY <1>0, <1>4 DEF Execute, Tasks
<1>9. \A d \in Datagrams : InSocket(d)' => InSocket(d)
  <2>1. received[a] \in Nat /\ received' \in [Adapters -> Nat]
    BY <1>0, <1>4
  <2>2. ASSUME NEW d \in Datagrams, NEW i \in DOMAIN arrived[AdapterOf[d]], WaitsAt(d, i)'
        PROVE  WaitsAt(d, i)
    <3>1. AdapterOf[d] \in Adapters
      BY DatagramFacts
    <3>2. i \in Nat
      BY <1>0, <2>2, <3>1
    <3> QED
      BY <1>0, <1>2, <1>4, <2>2, <3>1, <3>2 DEF WaitsAt
  <2> QED
    BY <1>4, <2>2 DEF InSocket
<1>10. \A d \in Datagrams : /\ Queued(d)' => Queued(d) \/ d = x
                            /\ Handled(d)' <=> Handled(d)
                            /\ Sent(d)' <=> Sent(d)
  BY <1>4, <1>8 DEF Queued, Handled, Sent
<1>11. CalmHolds'
  <2>1. \A b \in Adapters : Listening(b) => Listening(b)'
    BY <1>4 DEF Listening
  <2> QED
    BY <1>0, <1>4, <1>6, <1>9, <1>10, <2>1, CalmStays
<1>12. ASSUME NEW d \in calm, NEW e \in Datagrams, CameBefore(e, d) PROVE InTurn(e, d)'
  <2>0. d \in Datagrams /\ e # d /\ InTurn(e, d) /\ (InSocket(e) => InSocket(d))
    BY <1>0, <1>12, CameBeforeFacts DEF CalmInTurn
  <2>1. CASE e = x
    <3>1. ~Queued(d) /\ ~Handled(d) /\ ~Sent(d)
      BY <1>6, <2>0, <2>1, DatagramFacts DEF Apart
    <3> QED
      BY <1>10, <2>0, <2>1, <3>1 DEF InTurn, Queued, Sent
  <2>2. CASE d = x
    <3>1. ~Handled(d)' /\ ~Sent(d)'
      BY <1>7, <1>10, <2>2
    <3>2. \A i, j \in DOMAIN tasks' : tasks'[i] = e /\ tasks'[j] = d => i < j
      <4>1. \A j \in DOMAIN tasks' : tasks'[j] = d => j = Len(tasks) + 1
        BY <1>7, <1>8, <2>2 DEF Queued
      <4>2. \A i \in DOMAIN tasks' : tasks'[i] = e => i < Len(tasks) + 1
        BY <1>8, <2>0, <2>2
      <4> QED
        BY <4>1, <4>2
    <3> QED
      BY <3>1, <3>2 DEF InTurn, Sent
  <2>3. CASE e # x /\ d # x
    <3>1. \A i, j \in DOMAIN tasks' : tasks'[i] = e /\ tasks'[j] = d => i < j
      BY <1>8, <2>0, <2>3 DEF InTurn
    <3> QED
      BY <1>4, <1>10, <2>0, <2>3, <3>1, TurnStays
  <2> QED
    BY <2>1, <2>2, <2>3
<1> QED
  BY <1>4, <1>11, <1>12, SameCameBefore DEF CalmInTurn

LEMMA TakeKeepsTurns ==
    ASSUME GatewayInv, CalmHolds, CalmInTurn, NEW w \in Workers, Take(w)
    PROVE  CalmHolds' /\ CalmInTurn'
<1>1. /\ tasks \in Seq(Tasks) /\ tasks # <<>> /\ tasks' = Tail(tasks)
      /\ worker \in [Workers -> Tasks \cup {NoTask}] /\ worker[w] = NoTask
      /\ UNCHANGED <<arrived, received, calm, sends>> /\ calm \subseteq Datagrams
  BY DEF GatewayInv, TypeOK, Take, socketVars
<1>2. PICK t : t = Head(tasks)
  OBVIOUS
<1>3. worker' = [worker EXCEPT ![w] = t]
  BY <1>2 DEF Take
<1>4. worker'[w] = t /\ \A v \in Workers \ {w} : worker'[v] = worker[v]
  BY <1>1, <1>3
<1>5. /\ DOMAIN tasks = 1 .. Len(tasks) /\ Len(tasks) \in Nat \ {0}
      /\ DOMAIN tasks' = 1 .. Len(tasks) - 1
      /\ \A i \in DOMAIN tasks' : i + 1 \in DOMAIN tasks /\ tasks'[i] = tasks[i + 1]
      /\ tasks[1] = t
  BY <1>1, <1>2
<1>6. \A d \in Datagrams : /\ Queued(d)' => Queued(d)
                           /\ Handled(d)' <=> Handled(d) \/ d = t
                           /\ Sent(d)' <=> Sent(d)
                           /\ InSocket(d)' <=> InSocket(d)
  <2>1. \A d \in Datagrams : Queued(d)' => Queued(d)
    BY <1>5 DEF Queued
  <2>2. ASSUME NEW d \in Datagrams PROVE Handled(d)' <=> Handled(d) \/ d = t
    <3>1. worker[w] # d
      BY <1>1, DatagramFacts
    <3> QED
      BY <1>4, <3>1 DEF Handled
  <2>3. \A d \in Datagrams : (Sent(d)' <=> Sent(d)) /\ (InSocket(d)' <=> InSocket(d))
    BY <1>1 DEF Sent, InSocket, WaitsAt
  <2> QED
    BY <2>1, <2>2, <2>3
<1>7. Queued(t)
  BY <1>5 DEF Queued
<1>8. CalmHolds'
  <2>1. \A b \in Adapters : Listening(b) => Listening(b)'
    <3>1. \A b \in Adapters : b # NoTask
      BY NoTaskAssumption DEF Tasks
    <3> QED
      BY <1>1, <1>4, <3>1 DEF Listening
  <2> QED
    BY <1>1, <1>6, <1>7, <2>1, CalmStays
<1>9. ASSUME NEW d \in calm, NEW e \in Datagrams, CameBefore(e, d) PROVE InTurn(e, d)'
  <2>0. d \in Datagrams /\ e # d /\ InTurn(e, d)
    BY <1>1, <1>9, CameBeforeFacts DEF CalmInTurn
  <2>1. \A i, j \in DOMAIN tasks' : tasks'[i] = e /\ tasks'[j] = d => i < j
    <3>1. ASSUME NEW i \in DOMAIN tasks', NEW j \in DOMAIN tasks', tasks'[i] = e, tasks'[j] = d
          PROVE  i < j
      <4>1. i + 1 < j + 1
        BY <1>5, <2>0, <3>1 DEF InTurn
      <4> QED
        BY <1>5, <4>1
    <3> QED
      BY <3>1
  <2>2. Handled(d)' \/ Sent(d)' => ~Queued(e)'
    <3>1. CASE d = t
      <4>1. \A i \in DOMAIN tasks : tasks[i] # e
        BY <1>5, <2>0, <3>1 DEF InTurn
      <4> QED
        BY <1>6, <4>1 DEF Queued
    <3>2. CASE d # t
      BY <1>6, <2>0, <3>2 DEF InTurn
    <3> QED
      BY <3>1, <3>2
  <2>3. Sent(d)' => ~Handled(e)'
    BY <1>6, <1>7, <2>0 DEF InTurn
  <2>4. \A i, j \in DOMAIN sends' :
           sends'[i].payload.datagram = e /\ sends'[j].payload.datagram = d => i < j
    BY <1>1, <2>0 DEF InTurn
  <2> QED
    BY <2>1, <2>2, <2>3, <2>4 DEF InTurn
<1> QED
  BY <1>1, <1>8, <1>9, SameCameBefore DEF CalmInTurn

\* A thread without a loop handles the only datagram that is handled, so that
\* what came before it is in the producer, or nowhere.
LEMMA HandleKeepsTurns ==
    ASSUME GatewayInv, CalmHolds, CalmInTurn, Processors <= Cardinality(Adapters),
           NEW w \in Workers, Handle(w)
    PROVE  CalmHolds' /\ CalmInTurn'
<1>1. PICK x \in Datagrams : x = worker[w]
  BY DEF Handle
<1>2. /\ Accept(MessageOf(x)) /\ worker' = [worker EXCEPT ![w] = NoTask]
      /\ UNCHANGED <<arrived, received, calm, tasks>> /\ calm \subseteq Datagrams
      /\ worker \in [Workers -> Tasks \cup {NoTask}]
  BY <1>1 DEF Handle, socketVars, GatewayInv, TypeOK
<1>3. /\ Len(sends) \in Nat /\ DOMAIN sends = 1 .. Len(sends)
      /\ DOMAIN sends' = 1 .. Len(sends) + 1
      /\ \A i \in DOMAIN sends : sends'[i] = sends[i]
      /\ sends'[Len(sends) + 1].payload.datagram = x
  BY <1>2, MessageShape, AcceptAppends DEF GatewayInv, TypeOK
<1>4. \A d \in Datagrams : /\ Queued(d)' <=> Queued(d)
                           /\ Handled(d)' <=> Handled(d) /\ d # x
                           /\ Sent(d)' <=> Sent(d) \/ d = x
                           /\ InSocket(d)' <=> InSocket(d)
  <2>1. \A d \in Datagrams : Handled(d)' <=> Handled(d) /\ d # x
    BY <1>1, <1>2, ThreadLeaves
  <2>2. \A d \in Datagrams : Sent(d)' <=> Sent(d) \/ d = x
    BY <1>3 DEF Sent
  <2>3. \A d \in Datagrams : (Queued(d)' <=> Queued(d)) /\ (InSocket(d)' <=> InSocket(d))
    BY <1>2 DEF Queued, InSocket, WaitsAt
  <2> QED
    BY <2>1, <2>2, <2>3
<1>5. Handled(x) /\ ~Queued(x) /\ ~Sent(x)
  BY <1>1, DatagramFacts DEF Handled, Apart
<1>6. CalmHolds'
  <2>1. \A b \in Adapters : Listening(b) => Listening(b)'
    BY <1>1, <1>2, DatagramFacts DEF Listening
  <2> QED
    BY <1>2, <1>4, <2>1, CalmStays
<1>7. ASSUME NEW d \in calm, NEW e \in Datagrams, CameBefore(e, d) PROVE InTurn(e, d)'
  <2>0. d \in Datagrams /\ e # d /\ InTurn(e, d)
    BY <1>2, <1>7, CameBeforeFacts DEF CalmInTurn
  <2>1. CASE d = x
    <3>1. ~Handled(e)
      <4> SUFFICES ASSUME NEW v \in Workers, worker[v] = e PROVE FALSE
        BY DEF Handled
      <4>1. AllListening
        BY <1>5, <1>7, <2>1 DEF CalmHolds
      <4>2. worker[v] \notin Adapters /\ worker[w] \notin Adapters
        BY <1>1, DatagramFacts
      <4>3. v = w
        BY <4>1, <4>2, OneThreadLeft DEF GatewayInv
      <4> QED
        BY <1>1, <2>0, <2>1, <4>3
    <3>2. ~Queued(e)
      BY <1>5, <2>0, <2>1 DEF InTurn
    <3>3. \A i, j \in DOMAIN sends' :
             sends'[i].payload.datagram = e /\ sends'[j].payload.datagram = d => i < j
      <4>1. \A j \in DOMAIN sends' : sends'[j].payload.datagram = d => j = Len(sends) + 1
        BY <1>3, <1>5, <2>1 DEF Sent
      <4>2. \A i \in DOMAIN sends' : sends'[i].payload.datagram = e => i < Len(sends) + 1
        BY <1>3, <2>0, <2>1
      <4> QED
        BY <4>1, <4>2
    <3> QED
      BY <1>2, <1>4, <2>0, <3>1, <3>2, <3>3 DEF InTurn
  <2>2. CASE e = x
    <3>1. ~Sent(d)
      BY <1>5, <2>0, <2>2 DEF InTurn
    <3>2. ~Sent(d)' /\ ~Queued(e)'
      BY <1>4, <1>5, <2>0, <2>2, <3>1
    <3> QED
      BY <1>2, <2>0, <3>2 DEF InTurn, Sent
  <2>3. CASE e # x /\ d # x
    <3>1. \A i, j \in DOMAIN sends' :
             sends'[i].payload.datagram = e /\ sends'[j].payload.datagram = d => i < j
      BY <1>3, <2>0, <2>3 DEF InTurn
    <3> QED
      BY <1>2, <1>4, <2>0, <2>3, <3>1 DEF InTurn
  <2> QED
    BY <2>1, <2>2, <2>3
<1> QED
  BY <1>2, <1>6, <1>7, SameCameBefore DEF CalmInTurn

LEMMA HandleThrowsKeepsTurns ==
    ASSUME GatewayInv, CalmHolds, CalmInTurn, NEW w \in Workers, HandleThrows(w)
    PROVE  CalmHolds' /\ CalmInTurn'
<1>1. PICK x \in Datagrams : x = worker[w]
  BY DEF HandleThrows
<1>2. /\ worker' = [worker EXCEPT ![w] = NoTask]
      /\ UNCHANGED <<arrived, received, calm, tasks, sends>> /\ calm \subseteq Datagrams
      /\ worker \in [Workers -> Tasks \cup {NoTask}]
  BY <1>1 DEF HandleThrows, socketVars, GatewayInv, TypeOK
<1>3. \A d \in Datagrams : /\ Handled(d)' => Handled(d)
                           /\ Queued(d)' <=> Queued(d)
                           /\ Sent(d)' <=> Sent(d)
                           /\ InSocket(d)' <=> InSocket(d)
  <2>1. \A d \in Datagrams : Handled(d)' => Handled(d)
    BY <1>1, <1>2, ThreadLeaves
  <2> QED
    BY <1>2, <2>1 DEF Queued, Sent, InSocket, WaitsAt
<1>4. CalmHolds'
  <2>1. \A b \in Adapters : Listening(b) => Listening(b)'
    BY <1>1, <1>2, DatagramFacts DEF Listening
  <2> QED
    BY <1>2, <1>3, <2>1, CalmStays
<1>5. ASSUME NEW d \in calm, NEW e \in Datagrams, CameBefore(e, d) PROVE InTurn(e, d)'
  <2>1. InTurn(e, d) /\ d \in Datagrams
    BY <1>2, <1>5 DEF CalmInTurn
  <2> QED
    BY <1>2, <1>3, <2>1 DEF InTurn
<1> QED
  BY <1>2, <1>4, <1>5, SameCameBefore DEF CalmInTurn

LEMMA ProducerKeepsTurns ==
    ASSUME CalmHolds, CalmInTurn, SameDatagrams \/ UNCHANGED sends, calm \subseteq Datagrams,
           UNCHANGED <<arrived, received, calm, tasks, worker>>
    PROVE  CalmHolds' /\ CalmInTurn'
<1>1. \A d : /\ Handled(d)' <=> Handled(d)
             /\ Queued(d)' <=> Queued(d)
             /\ Sent(d)' <=> Sent(d)
             /\ InSocket(d)' <=> InSocket(d)
  BY DEF SameDatagrams, Handled, Queued, Sent, InSocket, WaitsAt
<1>2. CalmHolds'
  BY <1>1, CalmStays DEF Listening
<1>3. ASSUME NEW d \in calm, NEW e \in Datagrams, CameBefore(e, d) PROVE InTurn(e, d)'
  <2>1. InTurn(e, d)
    BY <1>3 DEF CalmInTurn
  <2>2. \A i, j \in DOMAIN tasks' : tasks'[i] = e /\ tasks'[j] = d => i < j
    BY <2>1 DEF InTurn
  <2> QED
    BY <1>1, <2>1, <2>2, TurnStays
<1> QED
  BY <1>2, <1>3, SameCameBefore DEF CalmInTurn

LEMMA CrashKeepsTurns ==
    ASSUME GatewayInv, CalmHolds, CalmInTurn, Crash
    PROVE  CalmHolds' /\ CalmInTurn'
<1>1. /\ received' = [a \in Adapters |-> Len(arrived[a])] /\ UNCHANGED <<arrived, calm>>
      /\ tasks' = <<>> /\ worker' = [v \in Workers |-> NoTask] /\ calm \subseteq Datagrams
      /\ arrived \in [Adapters -> Seq(Datagrams)] /\ ProducerTypeOK
  BY DEF Crash, GatewayInv, TypeOK
<1>2. SameDatagrams
  BY <1>1, LosingKeepsDatagrams DEF Crash
<1>3. ASSUME NEW d \in Datagrams PROVE ~InSocket(d)' /\ ~Queued(d)' /\ ~Handled(d)'
  <2>1. AdapterOf[d] \in Adapters /\ d # NoTask
    BY DatagramFacts
  <2> QED
    BY <1>1, <2>1 DEF InSocket, WaitsAt, Queued, Handled
<1>4. CalmHolds'
  BY <1>1, <1>3 DEF CalmHolds, Arrived, Reached
<1>5. ASSUME NEW d \in calm, NEW e \in Datagrams, CameBefore(e, d) PROVE InTurn(e, d)'
  <2>1. InTurn(e, d) /\ d \in Datagrams
    BY <1>1, <1>5 DEF CalmInTurn
  <2>2. Sent(d)' <=> Sent(d)
    BY <1>2 DEF SameDatagrams, Sent
  <2> QED
    BY <1>1, <1>2, <1>3, <2>1, <2>2, TurnStays
<1> QED
  BY <1>1, <1>4, <1>5, SameCameBefore DEF CalmInTurn

LEMMA CalmInvNext == GatewayInv /\ CalmInv /\ [Next]_vars => CalmInv'
<1> SUFFICES ASSUME GatewayInv, CalmHolds, CalmInTurn, Processors <= Cardinality(Adapters),
                    [Next]_vars
             PROVE  CalmHolds' /\ CalmInTurn'
  BY DEF CalmInv
<1>1. calm \subseteq Datagrams
  BY DEF GatewayInv, TypeOK
<1>2. ASSUME NEW a \in Adapters, StartAdapter(a) PROVE CalmHolds' /\ CalmInTurn'
  BY <1>2, StartKeepsTurns
<1>3. ASSUME NEW d \in Datagrams, Arrive(d) PROVE CalmHolds' /\ CalmInTurn'
  BY <1>3, ArriveKeepsTurns
<1>4. ASSUME NEW w \in Workers, NEW a \in Adapters, Receive(w, a)
      PROVE  CalmHolds' /\ CalmInTurn'
  BY <1>4, ReceiveKeepsTurns
<1>5. ASSUME NEW w \in Workers, Take(w) PROVE CalmHolds' /\ CalmInTurn'
  BY <1>5, TakeKeepsTurns
<1>6. ASSUME NEW w \in Workers, Handle(w) PROVE CalmHolds' /\ CalmInTurn'
  BY <1>6, HandleKeepsTurns
<1>7. ASSUME NEW w \in Workers, HandleThrows(w) PROVE CalmHolds' /\ CalmInTurn'
  BY <1>7, HandleThrowsKeepsTurns
<1>8. ASSUME NEW i \in DOMAIN sends, BrokerAppend(i) \/ Acknowledge(i) \/ SendFails(i)
      PROVE  CalmHolds' /\ CalmInTurn'
  <2>1. SameDatagrams
    BY <1>8, CompletionKeepsDatagrams
       DEF BrokerAppend, Acknowledge, SendFails, GatewayInv, TypeOK
  <2>2. UNCHANGED <<arrived, received, calm, tasks, worker>>
    BY <1>8 DEF BrokerAppend, Acknowledge, SendFails, socketVars, poolVars
  <2> QED
    BY <1>1, <2>1, <2>2, ProducerKeepsTurns
<1>9. CASE Crash
  BY <1>9, CrashKeepsTurns
<1>10. CASE UNCHANGED vars
  BY <1>1, <1>10, ProducerKeepsTurns DEF vars
<1> QED
  BY <1>2, <1>3, <1>4, <1>5, <1>6, <1>7, <1>8, <1>9, <1>10 DEF Next, Quiet

-----------------------------------------------------------------------------
(* What is sent in order is in the topics in order: the gateway's producer *)
(* is a KafkaProducer.                                                     *)

Producer == INSTANCE KafkaProducerProofs WITH Payloads <- Message, QueueOf <- MessageQueue

LEMMA SameProducer ==
    /\ ProducerInit <=> Producer!ProducerInit
    /\ \A m \in Message : Accept(m) <=> Producer!Accept(m)
    /\ \A i \in DOMAIN sends : /\ Write(i) <=> Producer!Write(i)
                               /\ SucceedSend(i) <=> Producer!SucceedSend(i)
                               /\ FailSend(i) <=> Producer!FailSend(i)
    /\ LoseProducer <=> Producer!LoseProducer
    /\ \A i, j \in DOMAIN sends : Precedes(i, j) <=> Producer!Precedes(i, j)
<1>1. ProducerInit <=> Producer!ProducerInit
  BY DEF ProducerInit, Producer!ProducerInit
<1>2. \A m \in Message : Accept(m) <=> Producer!Accept(m)
  BY DEF Accept, Producer!Accept
<1>3. \A i \in DOMAIN sends : /\ SucceedSend(i) <=> Producer!SucceedSend(i)
                              /\ FailSend(i) <=> Producer!FailSend(i)
  BY DEF SucceedSend, Producer!SucceedSend, FailSend, Producer!FailSend, Written,
         Producer!Written
<1>4. LoseProducer <=> Producer!LoseProducer
  BY DEF LoseProducer, Producer!LoseProducer, Pending, Producer!Pending
<1>5. \A i, j \in DOMAIN sends : Precedes(i, j) <=> Producer!Precedes(i, j)
  BY DEF Precedes, Producer!Precedes, Written, Producer!Written, Queue, Producer!Queue
<1>6. ASSUME NEW i \in DOMAIN sends PROVE Write(i) <=> Producer!Write(i)
  <2>1. Producer!Cardinality({j \in Queue(i) : Written(j)}) = Cardinality({j \in Queue(i) : Written(j)})
    BY DEF Producer!Cardinality, Cardinality
  <2> QED
    BY <2>1 DEF Write, Producer!Write, Waiting, Producer!Waiting, Written, Producer!Written,
                Queue, Producer!Queue
<1> QED
  BY <1>1, <1>2, <1>3, <1>4, <1>5, <1>6

LEMMA ProducerRuns == TypeOK /\ [Next]_vars => [Producer!ProducerNext]_sends
<1> SUFFICES ASSUME TypeOK, [Next]_vars PROVE [Producer!ProducerNext]_sends
  OBVIOUS
<1>1. ASSUME NEW w \in Workers, Handle(w) PROVE Producer!ProducerNext
  <2>1. MessageOf(worker[w]) \in Message
    BY <1>1, MessageShape DEF Handle
  <2>2. Producer!Accept(MessageOf(worker[w]))
    BY <1>1, <2>1, SameProducer DEF Handle
  <2> QED
    BY <2>1, <2>2 DEF Producer!ProducerNext
<1>2. ASSUME NEW i \in DOMAIN sends, BrokerAppend(i) \/ Acknowledge(i) \/ SendFails(i)
      PROVE  Producer!ProducerNext
  <2>1. Write(i) \/ SucceedSend(i) \/ FailSend(i)
    BY <1>2 DEF BrokerAppend, Acknowledge, SendFails
  <2> QED
    BY <2>1, SameProducer DEF Producer!ProducerNext
<1>3. ASSUME Crash PROVE Producer!ProducerNext
  BY <1>3, SameProducer DEF Crash, Producer!ProducerNext
<1>4. ASSUME NEW w \in Workers, Take(w) \/ HandleThrows(w) PROVE sends' = sends
  BY <1>4 DEF Take, HandleThrows
<1>5. ASSUME NEW a \in Adapters, StartAdapter(a) PROVE sends' = sends
  BY <1>5 DEF StartAdapter
<1>6. ASSUME NEW d \in Datagrams, Arrive(d) PROVE sends' = sends
  BY <1>6 DEF Arrive
<1>7. ASSUME NEW w \in Workers, NEW a \in Adapters, Receive(w, a) PROVE sends' = sends
  BY <1>7 DEF Receive
<1>8. CASE UNCHANGED vars
  BY <1>8 DEF vars
<1> QED
  BY <1>1, <1>2, <1>3, <1>4, <1>5, <1>6, <1>7, <1>8 DEF Next, Quiet

LEMMA ProducerImplemented == Spec => Producer!ProducerSpec
<1>1. Init => Producer!ProducerInit
  BY SameProducer DEF Init
<1> QED
  BY <1>1, ProducerRuns, GatewayTypeCorrect, PTL DEF Spec, Producer!ProducerSpec

PartitionsInOrder == \A i, j \in DOMAIN sends : Precedes(i, j) => i < j

LEMMA TopicsInOrder == Spec => []PartitionsInOrder
<1>2. Spec => Producer!ProducerSpec
  BY ProducerImplemented
<1>3. Producer!PartitionsKeepOrder => PartitionsInOrder
  BY SameProducer DEF PartitionsInOrder, Producer!PartitionsKeepOrder
<1> QED
  BY <1>2, <1>3, Producer!SendsKeepOrder, PTL

\* No message has a place beyond the messages its partition has.
PlacesFilled ==
    \A i \in DOMAIN sends :
        Written(i) => sends[i].offset <= Cardinality({j \in Queue(i) : Written(j)})

LEMMA PlacesAreFilled == Spec => []PlacesFilled
<1>1. ASSUME Producer!ProducerInv PROVE PlacesFilled
  <2> SUFFICES ASSUME NEW i \in DOMAIN sends, Written(i)
               PROVE  sends[i].offset <= Cardinality({j \in Queue(i) : Written(j)})
    BY DEF PlacesFilled
  <2>1. Producer!Written(i) /\ Producer!Stored(i) = {j \in Queue(i) : Written(j)}
    BY DEF Producer!Stored, Producer!Queue, Queue, Producer!Written, Written
  <2>2. Producer!Cardinality({j \in Queue(i) : Written(j)}) = Cardinality({j \in Queue(i) : Written(j)})
    BY DEF Producer!Cardinality, Cardinality
  <2> QED
    BY <1>1, <2>1, <2>2 DEF Producer!ProducerInv, Producer!QueuesInOrder
<1> QED
  BY <1>1, ProducerImplemented, Producer!ProducerInvAlways, PTL

\* The message that is written goes to the end of its partition.
LEMMA AppendGoesLast ==
    ASSUME TypeOK, PlacesFilled, NEW i \in DOMAIN sends, BrokerAppend(i)
    PROVE  /\ SameDatagrams /\ ~Written(i) /\ Written(i)'
           /\ sends'[i].payload = sends[i].payload /\ sends'[i].offset \in Nat
           /\ \A j \in DOMAIN sends \ {i} : sends'[j] = sends[j]
           /\ \A j \in Queue(i) : Written(j) => sends[j].offset < sends'[i].offset
<1>0. ProducerTypeOK /\ Write(i)
  BY DEF TypeOK, BrokerAppend
<1>1. PICK place : place = 1 + Cardinality({j \in Queue(i) : Written(j)})
  OBVIOUS
<1>2. IsFiniteSet({j \in Queue(i) : Written(j)})
  <2>1. IsFiniteSet(DOMAIN sends)
    BY <1>0, FS_Interval DEF ProducerTypeOK
  <2> QED
    BY <2>1, FS_Subset DEF Queue
<1>3. place \in Nat \ {0}
  BY <1>1, <1>2, FS_CardinalityType
<1>4. sends' = [sends EXCEPT ![i].offset = place] /\ ~Written(i)
  BY <1>0, <1>1 DEF Write, Waiting
<1>5. sends[i] \in Send /\ DOMAIN sends = 1 .. Len(sends)
  BY <1>0 DEF ProducerTypeOK
<1>6. /\ sends'[i].payload = sends[i].payload /\ sends'[i].offset = place
      /\ \A j \in DOMAIN sends \ {i} : sends'[j] = sends[j]
  BY <1>4, <1>5 DEF Send
<1>7. ASSUME NEW j \in Queue(i), Written(j) PROVE sends[j].offset < place
  <2>1. j \in DOMAIN sends /\ Queue(j) = Queue(i)
    BY DEF Queue
  <2>2. sends[j].offset <= Cardinality({k \in Queue(i) : Written(k)})
    BY <1>7, <2>1 DEF PlacesFilled
  <2>3. sends[j] \in Send
    BY <1>0, <2>1 DEF ProducerTypeOK
  <2>4. sends[j].offset \in Nat /\ Cardinality({k \in Queue(i) : Written(k)}) \in Nat
    BY <1>2, <2>3, FS_CardinalityType DEF Send
  <2> QED
    BY <1>1, <2>2, <2>4
<1>8. SameDatagrams
  BY <1>0, CompletionKeepsDatagrams
<1> QED
  BY <1>3, <1>4, <1>6, <1>7, <1>8 DEF Written

\* Places in the topics are given by the broker only, and kept.
PlacesStay ==
    /\ \A i \in DOMAIN sends : /\ i \in DOMAIN sends'
                               /\ sends'[i].payload = sends[i].payload
                               /\ sends'[i].offset = sends[i].offset
    /\ \A i \in DOMAIN sends' : Written(i)' => i \in DOMAIN sends

LEMMA NothingWritten ==
    ASSUME TypeOK,
           \/ \E w \in Workers : Handle(w)
           \/ \E i \in DOMAIN sends : Acknowledge(i)
           \/ Crash
           \/ UNCHANGED sends
    PROVE  PlacesStay
<1>0. /\ ProducerTypeOK /\ DOMAIN sends = 1 .. Len(sends) /\ Len(sends) \in Nat
      /\ \A i \in DOMAIN sends : sends[i] \in Send
  BY DEF TypeOK, ProducerTypeOK
<1>1. CASE \E w \in Workers : Handle(w)
  <2>1. PICK w \in Workers : Handle(w)
    BY <1>1
  <2>2. MessageOf(worker[w]) \in Message /\ Accept(MessageOf(worker[w]))
    BY <2>1, MessageShape DEF Handle
  <2>3. PICK n : n = Len(sends) + 1
    OBVIOUS
  <2>4. /\ DOMAIN sends' = 1 .. n /\ \A i \in DOMAIN sends : sends'[i] = sends[i]
    BY <1>0, <2>2, <2>3, AcceptAppends
  <2>5. sends'[n].offset = 0
    <3> DEFINE s == [payload |-> MessageOf(worker[w]), offset |-> 0, phase |-> "inflight"]
    <3>1. sends' = Append(sends, s) /\ s \in Send /\ s.offset = 0
      BY <2>2 DEF Accept, Send, Phase
    <3> HIDE DEF s
    <3>2. sends'[n] = s
      BY <2>3, <3>1 DEF TypeOK, ProducerTypeOK
    <3> QED
      BY <3>1, <3>2
  <2> QED
    BY <1>0, <2>3, <2>4, <2>5 DEF PlacesStay, Written
<1>2. CASE \E i \in DOMAIN sends : Acknowledge(i)
  <2>1. PICK k \in DOMAIN sends : sends' = [sends EXCEPT ![k].phase = "acked"]
    BY <1>2 DEF Acknowledge, SucceedSend
  <2> DEFINE s == [sends[k] EXCEPT !.phase = "acked"]
  <2>2. s.payload = sends[k].payload /\ s.offset = sends[k].offset
    BY <1>0 DEF Send
  <2>3. sends' = [sends EXCEPT ![k] = s]
    BY <2>1
  <2> HIDE DEF s
  <2> QED
    BY <2>2, <2>3 DEF PlacesStay
<1>3. CASE Crash
  <2>1. DOMAIN sends' = DOMAIN sends
        /\ \A i \in DOMAIN sends : sends'[i] \in {sends[i], [sends[i] EXCEPT !.phase = "dead"]}
    BY <1>3 DEF Crash, LoseProducer
  <2>2. \A i \in DOMAIN sends : /\ sends'[i].payload = sends[i].payload
                                /\ sends'[i].offset = sends[i].offset
    BY <1>0, <2>1 DEF Send
  <2> QED
    BY <2>1, <2>2 DEF PlacesStay
<1>4. CASE UNCHANGED sends
  BY <1>4 DEF PlacesStay
<1> QED
  BY <1>1, <1>2, <1>3, <1>4

LEMMA TurnsMeanQueue == TypeOK /\ CalmInv /\ PartitionsInOrder => QueueOnceListening
<1> SUFFICES ASSUME TypeOK, CalmInTurn, PartitionsInOrder,
                    NEW i \in DOMAIN sends, NEW j \in DOMAIN sends, Precedes(i, j),
                    sends[i].payload.datagram \in calm,
                    CameBefore(sends[j].payload.datagram, sends[i].payload.datagram)
             PROVE  FALSE
  BY DEF CalmInv, QueueOnceListening
<1>1. sends[j].payload.datagram \in Datagrams
  <2>1. sends[j] \in Send
    BY DEF TypeOK, ProducerTypeOK
  <2>2. sends[j].payload \in Message
    BY <2>1 DEF Send
  <2> QED
    BY <2>2 DEF Message
<1>2. j < i /\ i < j /\ i \in Nat /\ j \in Nat
  BY <1>1 DEF CalmInTurn, InTurn, PartitionsInOrder, TypeOK, ProducerTypeOK
<1> QED
  BY <1>2

\* With no more processors than adapters, what arrives once every loop runs is
\* in the topics in the order of its arrival, per sensor: crashes, throwing and
\* failing sends, and any number of datagrams and threads change nothing in it.
THEOREM LikeAQueueOnceListening == Spec => []QueueOnceListening
<1>1. Spec => [](GatewayInv /\ CalmInv)
  BY GatewayInvAlways, CalmInvInit, CalmInvNext, PTL DEF Spec
<1> QED
  BY <1>1, GatewayTypeCorrect, TopicsInOrder, TurnsMeanQueue, PTL

-----------------------------------------------------------------------------
(* Where a datagram that arrived is to be found.                           *)

\* A message is what handle() makes of its datagram, and is written, or still
\* to be, unless its datagram was taken.
Accounted(i) ==
    /\ sends[i].payload = MessageOf(sends[i].payload.datagram)
    /\ Written(i) \/ Waiting(i) \/ sends[i].payload.datagram \in taken

AllAccounted == \A i \in DOMAIN sends : Accounted(i)

\* A message that keeps its payload, and its place, or gets one.
LEMMA AccountedStays ==
    ASSUME TypeOK, [Next]_vars, NEW i \in DOMAIN sends, Accounted(i),
           sends'[i].payload = sends[i].payload,
           Written(i) => Written(i)',
           Waiting(i) => Written(i)' \/ Waiting(i)' \/ sends[i].payload.datagram \in taken'
    PROVE  Accounted(i)'
<1>1. MessageOf(sends[i].payload.datagram)' = MessageOf(sends[i].payload.datagram)
  BY DEF MessageOf
<1> QED
  BY <1>1, TakenStays DEF Accounted

LEMMA AllAccountedNext == TypeOK /\ AllAccounted /\ [Next]_vars => AllAccounted'
<1> SUFFICES ASSUME TypeOK, AllAccounted, [Next]_vars PROVE AllAccounted'
  OBVIOUS
<1>0. /\ ProducerTypeOK /\ DOMAIN sends = 1 .. Len(sends) /\ Len(sends) \in Nat
      /\ \A i \in DOMAIN sends : sends[i] \in Send
  BY DEF TypeOK, ProducerTypeOK
<1>1. CASE sends' = sends
  BY <1>1, AccountedStays DEF AllAccounted, Written, Waiting
<1>2. ASSUME NEW w \in Workers, Handle(w) PROVE AllAccounted'
  <2>1. PICK m : m = MessageOf(worker[w])
    OBVIOUS
  <2>2. m \in Message /\ Accept(m) /\ m.datagram = worker[w]
    BY <1>2, <2>1, MessageShape DEF Handle
  <2>3. PICK n : n = Len(sends) + 1
    OBVIOUS
  <2>4. /\ DOMAIN sends' = 1 .. n /\ \A i \in DOMAIN sends : sends'[i] = sends[i]
    BY <1>0, <2>2, <2>3, AcceptAppends
  <2>5. sends'[n] = [payload |-> m, offset |-> 0, phase |-> "inflight"]
    <3> DEFINE s == [payload |-> m, offset |-> 0, phase |-> "inflight"]
    <3>1. sends' = Append(sends, s) /\ s \in Send
      BY <2>2 DEF Accept, Send, Phase
    <3> HIDE DEF s
    <3>2. sends'[n] = s
      BY <2>3, <3>1 DEF TypeOK, ProducerTypeOK
    <3> QED
      BY <3>2 DEF s
  <2>6. \A i \in DOMAIN sends : Accounted(i)'
    BY <2>4, AccountedStays DEF AllAccounted, Written, Waiting
  <2>7. Accounted(n)'
    <3>1. sends'[n].payload = m /\ sends'[n].offset = 0 /\ sends'[n].phase = "inflight"
      BY <2>5
    <3>2. MessageOf(sends[n].payload.datagram)' = m
      BY <2>1, <2>2, <3>1 DEF MessageOf
    <3> QED
      BY <3>1, <3>2 DEF Accounted, Waiting, Written
  <2> QED
    BY <1>0, <2>3, <2>4, <2>6, <2>7 DEF AllAccounted
<1>3. ASSUME NEW k \in DOMAIN sends, Write(k) PROVE AllAccounted'
  <2>1. PICK place : /\ place = 1 + Cardinality({j \in Queue(k) : Written(j)})
                     /\ sends' = [sends EXCEPT ![k].offset = place]
    BY <1>3 DEF Write
  <2>2. place \in Nat \ {0}
    BY <1>0, <2>1, PlaceIsNat
  <2>3. place > 0
    BY <2>2
  <2>4. /\ DOMAIN sends' = DOMAIN sends
        /\ sends'[k].payload = sends[k].payload /\ sends'[k].offset = place
        /\ \A i \in DOMAIN sends \ {k} : sends'[i] = sends[i]
    BY <1>0, <2>1 DEF Send
  <2>5. ASSUME NEW i \in DOMAIN sends PROVE Accounted(i)'
    BY <2>3, <2>4, AccountedStays DEF AllAccounted, Written, Waiting
  <2> QED
    BY <2>4, <2>5 DEF AllAccounted
<1>4. ASSUME NEW k \in DOMAIN sends, NEW p \in Phase, sends' = [sends EXCEPT ![k].phase = p],
             Written(k) \/ sends[k].payload.datagram \in taken'
      PROVE  AllAccounted'
  <2>1. /\ DOMAIN sends' = DOMAIN sends
        /\ sends'[k].payload = sends[k].payload /\ sends'[k].offset = sends[k].offset
        /\ \A i \in DOMAIN sends \ {k} : sends'[i] = sends[i]
    BY <1>0, <1>4 DEF Send
  <2>2. ASSUME NEW i \in DOMAIN sends PROVE Accounted(i)'
    BY <1>4, <2>1, AccountedStays DEF AllAccounted, Written, Waiting
  <2> QED
    BY <2>1, <2>2 DEF AllAccounted
<1>5. CASE Crash
  <2>1. DOMAIN sends' = DOMAIN sends
        /\ \A i \in DOMAIN sends : sends'[i] \in {sends[i], [sends[i] EXCEPT !.phase = "dead"]}
    BY <1>5 DEF Crash, LoseProducer
  <2>2. \A i \in DOMAIN sends : /\ sends'[i].payload = sends[i].payload
                                /\ sends'[i].offset = sends[i].offset
    BY <1>0, <2>1 DEF Send
  <2>3. ASSUME NEW i \in DOMAIN sends, Waiting(i) PROVE sends[i].payload.datagram \in taken'
    <3>1. sends[i].payload.datagram \in Datagrams
      BY <1>0 DEF Send, Message
    <3> QED
      BY <1>5, <2>3, <3>1 DEF Crash, Underway
  <2>4. ASSUME NEW i \in DOMAIN sends PROVE Accounted(i)'
    BY <2>2, <2>3, AccountedStays DEF AllAccounted, Written
  <2> QED
    BY <2>1, <2>4 DEF AllAccounted
<1>6. ASSUME NEW k \in DOMAIN sends, SendFails(k)
      PROVE  Written(k) \/ sends[k].payload.datagram \in taken'
  BY <1>6 DEF SendFails
<1>7. ASSUME NEW k \in DOMAIN sends, BrokerAppend(k) \/ Acknowledge(k) \/ SendFails(k)
      PROVE  AllAccounted'
  BY <1>3, <1>4, <1>6, <1>7 DEF BrokerAppend, Acknowledge, SucceedSend, SendFails, FailSend, Phase
<1>8. ASSUME NEW w \in Workers, Take(w) \/ HandleThrows(w) PROVE sends' = sends
  BY <1>8 DEF Take, HandleThrows
<1>9. ASSUME \/ \E a \in Adapters : StartAdapter(a)
             \/ \E d \in Datagrams : Arrive(d)
             \/ \E w \in Workers, a \in Adapters : Receive(w, a)
             \/ UNCHANGED vars
      PROVE  sends' = sends
  BY <1>9 DEF StartAdapter, Arrive, Receive, vars
<1> QED
  BY <1>1, <1>2, <1>5, <1>7, <1>8, <1>9 DEF Next, Quiet

LEMMA AllAccountedAlways == Spec => []AllAccounted
<1>1. Init => AllAccounted
  BY DEF Init, ProducerInit, AllAccounted
<1> QED
  BY <1>1, AllAccountedNext, GatewayTypeCorrect, PTL DEF Spec

\* A datagram that arrived is in the process, or in a topic, or was taken.
LEMMA ArrivedIsSomewhere ==
    ASSUME GatewayInv, AllAccounted, NEW d \in Datagrams, Arrived(d)
    PROVE  Underway(d) \/ Delivered(MessageOf(d)) \/ d \in taken
<1>1. CASE ~Placed(d)
  BY <1>1 DEF GatewayInv, MissingInv
<1>2. ASSUME NEW i \in DOMAIN sends, sends[i].payload.datagram = d
      PROVE  Underway(d) \/ Delivered(MessageOf(d)) \/ d \in taken
  <2>1. Accounted(i)
    BY DEF AllAccounted
  <2> QED
    BY <1>2, <2>1 DEF Accounted, Underway, Delivered
<1> QED
  BY <1>1, <1>2 DEF Placed, Sent, Underway

\* A datagram is in one place; and one that arrived is in the process or in a
\* topic, or a crash or a failure of its own send took it: for any adapters,
\* datagrams, processors and bounds.
THEOREM NothingTwiceNothingLostEver == Spec => []NothingTwiceNothingLost
<1>1. GatewayInv /\ AllAccounted => NothingTwiceNothingLost
  BY OnePlace, ArrivedIsSomewhere DEF GatewayInv, NothingTwiceNothingLost
<1> QED
  BY <1>1, GatewayInvAlways, AllAccountedAlways, PTL
=============================================================================
