------------------------- MODULE ChallengeMgtProofs -------------------------
(***************************************************************************)
(* Proofs about ChallengeMgt: for every number of dispatchers and worker   *)
(* goroutines, tokens are neither lost nor duplicated, a raised flag has a *)
(* worker to lower it, and the three channels implement TaskSlot.          *)
(***************************************************************************)
EXTENDS ChallengeMgt, TLAPS

\* The positions at which a dispatcher holds a token or is blocked.
Loud == {"go", "goSync", "wait", "waitSync"}

\* Node.Start sets the channels up with their tokens in place.
LEMMA InitInv == Init => IInv
  <1> SUFFICES ASSUME Init PROVE IInv
    OBVIOUS
  <1>1. TypeOK
    BY WindowAssumption DEF Init, TypeOK, Chan, Task, PcState, Snapshot,
       NoSnapshot, ProveState, WorkerState
  <1>2. \A c \in Chan : TokenAt(c)
    BY DEF Init, TokenAt, InHand, Active, Chan, Task
  <1>3. \A c \in Chan : QueueAt(c)
    BY DEF Init, QueueAt, Blocked, Chan, Task
  <1>4. FlagWillBeLowered
    BY DEF Init, FlagWillBeLowered
  <1>5. QED
    BY <1>1, <1>2, <1>3, <1>4 DEF IInv

\* A dispatcher's step between positions without a token keeps the invariant of
\* every channel.
LEMMA QuietStep ==
  ASSUME IInv, NEW d \in Dispatcher, NEW l \in PcState, NEW p \in Task,
         pc[d] \notin Loud, l \notin Loud,
         pc' = [pc EXCEPT ![d] = l], part' = [part EXCEPT ![d] = p],
         UNCHANGED <<len, queue, worker>>
  PROVE  \A c \in Chan : (TokenAt(c) /\ QueueAt(c))'
  <1>1. \A c \in Chan : \A e \in Dispatcher : InHand(e, c)' <=> InHand(e, c)
    BY DEF IInv, TypeOK, InHand, Loud
  <1>2. \A c \in Chan : \A e \in Dispatcher : Blocked(e, c)' <=> Blocked(e, c)
    BY DEF IInv, TypeOK, Blocked, Loud
  <1>3. \A c \in Chan : TokenAt(c)'
    BY <1>1 DEF IInv, TokenAt, Active
  <1>4. \A c \in Chan : \A i \in 1..Len(queue[c]) : queue[c][i] \in Dispatcher
    BY DEF IInv, TypeOK
  <1>5. \A c \in Chan : QueueAt(c)'
    BY <1>2, <1>4 DEF IInv, QueueAt
  <1>6. QED
    BY <1>3, <1>5

\* Where a dispatcher is before, blocked in, and after its receive on channel c.
RecvPc(c) == IF c = "sync" THEN "recvSync" ELSE "recv"
WaitPc(c) == IF c = "sync" THEN "waitSync" ELSE "wait"

\* A receive moves the token into the dispatcher's hand, or queues it.
LEMMA ReceiveStep ==
  ASSUME IInv, NEW d \in Dispatcher, NEW k \in Chan,
         pc[d] = RecvPc(k), k # "sync" => part[d] = k,
         Receive(d, k, WaitPc(k), Resumed(k)),
         UNCHANGED <<part, worker>>
  PROVE  /\ len' \in [Chan -> {0, 1}] /\ queue' \in [Chan -> Seq(Dispatcher)]
         /\ pc' \in [Dispatcher -> PcState]
         /\ \A c \in Chan : (TokenAt(c) /\ QueueAt(c))'
  <1> USE DEF RecvPc, WaitPc, Resumed
  <1>0. /\ len \in [Chan -> {0, 1}] /\ queue \in [Chan -> Seq(Dispatcher)]
        /\ pc \in [Dispatcher -> PcState] /\ part \in [Dispatcher -> Task]
    BY DEF IInv, TypeOK
  <1>q. \A c \in Chan : \A i \in 1..Len(queue[c]) : queue[c][i] \in Dispatcher
    BY <1>0
  <1>t. TokenAt(k) /\ QueueAt(k)
    BY DEF IInv
  <1>1. CASE len[k] = 1
    <2>1. /\ len' = [len EXCEPT ![k] = 0] /\ queue' = queue
          /\ pc' = [pc EXCEPT ![d] = Resumed(k)]
      BY <1>1 DEF Receive
    <2>2. \A c \in Chan : \A e \in Dispatcher :
            InHand(e, c)' <=> InHand(e, c) \/ (e = d /\ c = k)
      BY <2>1, <1>0 DEF InHand, Task, Chan
    <2>3. \A c \in Chan : \A e \in Dispatcher : Blocked(e, c)' <=> Blocked(e, c)
      BY <2>1, <1>0 DEF Blocked
    <2>4. ASSUME NEW c \in Chan PROVE TokenAt(c)'
      <3>0. \A v \in Slot : Active(c, v)' <=> Active(c, v)
        BY DEF Active
      <3>1. CASE c # k
        BY <3>0, <3>1, <2>1, <2>2, <1>0 DEF IInv, TokenAt
      <3>2. CASE c = k
        <4>1. /\ \A e \in Dispatcher : InHand(e, k)' <=> e = d
              /\ \A v \in Slot : ~Active(k, v)'
              /\ len'[k] # 1
          BY <3>0, <3>2, <2>1, <2>2, <1>0, <1>1, <1>t DEF TokenAt
        <4>2. QED
          BY <3>2, <4>1 DEF TokenAt
      <3>3. QED
        BY <3>1, <3>2
    <2>5. \A c \in Chan : QueueAt(c)'
      BY <2>1, <2>3, <1>0, <1>q DEF IInv, QueueAt
    <2>6. QED
      BY <2>1, <2>4, <2>5, <1>0 DEF PcState
  <1>2. CASE len[k] # 1
    <2>1. /\ queue' = [queue EXCEPT ![k] = Append(queue[k], d)] /\ len' = len
          /\ pc' = [pc EXCEPT ![d] = WaitPc(k)]
      BY <1>2 DEF Receive
    <2>2. \A c \in Chan : \A e \in Dispatcher : InHand(e, c)' <=> InHand(e, c)
      BY <2>1, <1>0 DEF InHand
    <2>3. \A c \in Chan : \A e \in Dispatcher :
            Blocked(e, c)' <=> Blocked(e, c) \/ (e = d /\ c = k)
      BY <2>1, <1>0 DEF Blocked, Task, Chan
    <2>4. \A c \in Chan : TokenAt(c)'
      BY <2>1, <2>2 DEF IInv, TokenAt, Active
    <2>5. ASSUME NEW c \in Chan PROVE QueueAt(c)'
      <3>1. CASE c # k
        BY <3>1, <2>1, <2>3, <1>0, <1>q DEF IInv, QueueAt
      <3>2. CASE c = k
        <4>1. /\ Len(queue'[k]) = Len(queue[k]) + 1
              /\ queue'[k][Len(queue[k]) + 1] = d
              /\ \A i \in 1..Len(queue[k]) : queue'[k][i] = queue[k][i]
          BY <2>1, <1>0
        <4>2. Len(queue[k]) \in Nat
          BY <1>0
        <4>3. \A i \in 1..Len(queue[k]) : queue[k][i] # d
          BY <1>q, <1>0, <1>t DEF QueueAt, Blocked
        <4>4. (\A i \in 1..Len(queue[k]) : Blocked(queue[k][i], k))'
          BY <4>1, <4>2, <1>q, <1>0, <1>t, <2>1 DEF QueueAt, Blocked
        <4>5. \A e \in Dispatcher : Blocked(e, k)'
                => \E i \in 1..Len(queue'[k]) : queue'[k][i] = e
          <5> SUFFICES ASSUME NEW e \in Dispatcher, Blocked(e, k)'
                       PROVE  \E i \in 1..Len(queue'[k]) : queue'[k][i] = e
            OBVIOUS
          <5>1. CASE e = d
            BY <5>1, <4>1, <4>2
          <5>2. CASE e # d
            <6>1. PICK j \in 1..Len(queue[k]) : queue[k][j] = e
              BY <5>2, <2>3, <1>t DEF QueueAt
            <6>2. j \in 1..Len(queue'[k]) /\ queue'[k][j] = e
              BY <6>1, <4>1, <4>2
            <6>3. QED
              BY <6>2
          <5>3. QED
            BY <5>1, <5>2
        <4>6. \A i, j \in 1..Len(queue'[k]) : queue'[k][i] = queue'[k][j] => i = j
          <5> SUFFICES ASSUME NEW i \in 1..Len(queue'[k]), NEW j \in 1..Len(queue'[k]),
                              queue'[k][i] = queue'[k][j]
                       PROVE  i = j
            OBVIOUS
          <5>1. CASE i \in 1..Len(queue[k]) /\ j \in 1..Len(queue[k])
            BY <5>1, <4>1, <1>t DEF QueueAt
          <5>2. CASE i \notin 1..Len(queue[k]) \/ j \notin 1..Len(queue[k])
            BY <5>2, <4>1, <4>2, <4>3
          <5>3. QED
            BY <5>1, <5>2
        <4>7. QED
          BY <3>2, <2>1, <1>2, <4>4, <4>5, <4>6 DEF QueueAt
      <3>3. QED
        BY <3>1, <3>2
    <2>6. QED
      BY <2>1, <2>4, <2>5, <1>0 DEF PcState
  <1>3. QED
    BY <1>1, <1>2

\* A worker that returns its token hands it to the oldest blocked dispatcher or
\* puts it back into the channel.
LEMMA SendStep ==
  ASSUME IInv, NEW k \in Chan, NEW w \in Slot, Active(k, w), Send(k),
         NEW s \in {"tail", "gone"}, worker' = [worker EXCEPT ![k][w] = s],
         UNCHANGED part
  PROVE  /\ len' \in [Chan -> {0, 1}] /\ queue' \in [Chan -> Seq(Dispatcher)]
         /\ pc' \in [Dispatcher -> PcState]
         /\ \A c \in Chan : (TokenAt(c) /\ QueueAt(c))'
  <1>0. /\ len \in [Chan -> {0, 1}] /\ queue \in [Chan -> Seq(Dispatcher)]
        /\ pc \in [Dispatcher -> PcState] /\ part \in [Dispatcher -> Task]
        /\ worker \in [Chan -> [Slot -> WorkerState]]
    BY DEF IInv, TypeOK
  <1>q. \A c \in Chan : \A i \in 1..Len(queue[c]) : queue[c][i] \in Dispatcher
    BY <1>0
  <1>t. TokenAt(k) /\ QueueAt(k)
    BY DEF IInv
  <1>a. \A c \in Chan : \A v \in Slot :
          Active(c, v)' <=> Active(c, v) /\ ~(c = k /\ v = w)
    BY <1>0 DEF Active
  <1>1. CASE queue[k] = <<>>
    <2>1. /\ len' = [len EXCEPT ![k] = 1] /\ queue' = queue /\ pc' = pc /\ len[k] = 0
      BY <1>1 DEF Send
    <2>2. \A c \in Chan : \A e \in Dispatcher :
            (InHand(e, c)' <=> InHand(e, c)) /\ (Blocked(e, c)' <=> Blocked(e, c))
      BY <2>1 DEF InHand, Blocked
    <2>3. ASSUME NEW c \in Chan PROVE TokenAt(c)'
      <3>1. CASE c # k
        BY <3>1, <2>1, <2>2, <1>0, <1>a DEF IInv, TokenAt
      <3>2. CASE c = k
        <4>1. /\ \A e \in Dispatcher : ~InHand(e, k)
              /\ \A v \in Slot : Active(k, v) => v = w
          BY <1>t DEF TokenAt
        <4>2. /\ \A e \in Dispatcher : ~InHand(e, k)'
              /\ \A v \in Slot : ~Active(k, v)'
          BY <4>1, <2>2, <1>a
        <4>3. len'[k] = 1
          BY <2>1, <1>0
        <4>4. QED
          BY <3>2, <4>2, <4>3 DEF TokenAt
      <3>3. QED
        BY <3>1, <3>2
    <2>4. \A c \in Chan : QueueAt(c)'
      BY <2>1, <2>2, <1>0, <1>1, <1>q DEF IInv, QueueAt
    <2>5. QED
      BY <2>1, <2>3, <2>4, <1>0
  <1>2. CASE queue[k] # <<>>
    <2> DEFINE h == queue[k][1]
    <2>0. Len(queue[k]) \in Nat /\ 1 \in 1..Len(queue[k])
      BY <1>0, <1>2
    <2>h. h \in Dispatcher /\ Blocked(h, k) /\ Head(queue[k]) = h
      BY <1>0, <1>2, <1>q, <2>0 DEF IInv, QueueAt
    <2>1. /\ len' = len /\ queue' = [queue EXCEPT ![k] = Tail(queue[k])]
          /\ pc' = [pc EXCEPT ![h] = Resumed(k)]
      BY <1>2, <2>h DEF Send
    <2>2. \A c \in Chan : \A e \in Dispatcher :
            InHand(e, c)' <=> InHand(e, c) \/ (e = h /\ c = k)
      BY <2>1, <2>h, <1>0 DEF InHand, Blocked, Resumed, Task, Chan
    <2>3. \A c \in Chan : \A e \in Dispatcher :
            Blocked(e, c)' <=> Blocked(e, c) /\ ~(e = h /\ c = k)
      BY <2>1, <2>h, <1>0 DEF Blocked, Resumed, Task, Chan
    <2>4. ASSUME NEW c \in Chan PROVE TokenAt(c)'
      <3>1. CASE c # k
        BY <3>1, <2>1, <2>2, <1>0, <1>a DEF IInv, TokenAt
      <3>2. CASE c = k
        <4>1. /\ \A e \in Dispatcher : ~InHand(e, k)
              /\ \A v \in Slot : Active(k, v) => v = w
              /\ len[k] # 1
          BY <1>t DEF TokenAt
        <4>2. /\ \A e \in Dispatcher : InHand(e, k)' <=> e = h
              /\ \A v \in Slot : ~Active(k, v)'
              /\ len'[k] # 1
          BY <4>1, <2>1, <2>2, <1>a
        <4>3. QED
          BY <3>2, <4>2, <2>h DEF TokenAt
      <3>3. QED
        BY <3>1, <3>2
    <2>5. ASSUME NEW c \in Chan PROVE QueueAt(c)'
      <3>1. CASE c # k
        BY <3>1, <2>1, <2>3, <1>0, <1>q DEF IInv, QueueAt
      <3>2. CASE c = k
        <4>1. /\ Len(queue'[k]) = Len(queue[k]) - 1
              /\ \A i \in 1..Len(queue'[k]) : queue'[k][i] = queue[k][i + 1]
          BY <2>1, <1>0, <1>2
        <4>2. ASSUME NEW i \in 1..Len(queue'[k])
              PROVE  i + 1 \in 1..Len(queue[k]) /\ queue[k][i + 1] # h
          <5>1. i + 1 \in 1..Len(queue[k]) /\ i + 1 # 1
            BY <4>1, <2>0
          <5>2. \A a, b \in 1..Len(queue[k]) : queue[k][a] = queue[k][b] => a = b
            BY <1>t DEF QueueAt
          <5>3. QED
            BY <5>1, <5>2, <2>0
        <4>3. (\A i \in 1..Len(queue[k]) : Blocked(queue[k][i], k))'
          <5> SUFFICES ASSUME NEW i \in 1..Len(queue'[k])
                       PROVE  Blocked(queue[k][i], k)'
            OBVIOUS
          <5>1. PICK e \in Dispatcher : e = queue[k][i + 1] /\ Blocked(e, k) /\ e # h
            BY <4>2, <1>q, <1>t DEF QueueAt
          <5>2. Blocked(e, k)'
            BY <5>1, <2>3
          <5>3. queue'[k][i] = e
            BY <4>1, <5>1
          <5>4. QED
            BY <5>2, <5>3 DEF Blocked
        <4>4. \A e \in Dispatcher : Blocked(e, k)'
                => \E i \in 1..Len(queue'[k]) : queue'[k][i] = e
          <5> SUFFICES ASSUME NEW e \in Dispatcher, Blocked(e, k)'
                       PROVE  \E i \in 1..Len(queue'[k]) : queue'[k][i] = e
            OBVIOUS
          <5>1. PICK j \in 1..Len(queue[k]) : queue[k][j] = e
            BY <2>3, <1>t DEF QueueAt
          <5>2. j # 1
            BY <5>1, <2>3
          <5>3. j - 1 \in 1..Len(queue'[k]) /\ queue'[k][j - 1] = e
            BY <5>1, <5>2, <4>1, <2>0
          <5>4. QED
            BY <5>3
        <4>5. \A i, j \in 1..Len(queue'[k]) : queue'[k][i] = queue'[k][j] => i = j
          <5> SUFFICES ASSUME NEW i \in 1..Len(queue'[k]), NEW j \in 1..Len(queue'[k]),
                              queue'[k][i] = queue'[k][j]
                       PROVE  i = j
            OBVIOUS
          <5>1. queue[k][i + 1] = queue[k][j + 1]
            BY <4>1
          <5>2. i + 1 = j + 1
            BY <5>1, <4>2, <1>t DEF QueueAt
          <5>3. QED
            BY <5>2
        <4>6. len'[k] # 1
          BY <1>2, <1>t, <2>1 DEF QueueAt
        <4>7. QED
          BY <3>2, <4>3, <4>4, <4>5, <4>6 DEF QueueAt
      <3>3. QED
        BY <3>1, <3>2
    <2>6. Tail(queue[k]) \in Seq(Dispatcher)
      BY <1>0, <1>2
    <2>7. queue' \in [Chan -> Seq(Dispatcher)]
      BY <2>1, <2>6, <1>0
    <2>8. pc' \in [Dispatcher -> PcState]
      BY <2>1, <1>0 DEF PcState, Resumed
    <2>9. QED
      BY <2>1, <2>4, <2>5, <2>7, <2>8, <1>0
  <1>3. QED
    BY <1>1, <1>2

\* The go statement passes the token on to the goroutine it starts.
LEMMA SpawnStep ==
  ASSUME IInv, NEW d \in Dispatcher, NEW k \in Chan, InHand(d, k),
         NEW w \in Slot, worker[k][w] = "gone",
         worker' = [worker EXCEPT ![k][w] = "run"],
         NEW l \in PcState, l \notin Loud, NEW p \in Task,
         pc' = [pc EXCEPT ![d] = l], part' = [part EXCEPT ![d] = p],
         UNCHANGED <<len, queue>>
  PROVE  \A c \in Chan : (TokenAt(c) /\ QueueAt(c))'
  <1>0. /\ pc \in [Dispatcher -> PcState] /\ part \in [Dispatcher -> Task]
        /\ worker \in [Chan -> [Slot -> WorkerState]]
        /\ \A c \in Chan : \A i \in 1..Len(queue[c]) : queue[c][i] \in Dispatcher
    BY DEF IInv, TypeOK
  <1>1. \A c \in Chan : \A e \in Dispatcher :
          InHand(e, c)' <=> InHand(e, c) /\ ~(e = d /\ c = k)
    BY <1>0 DEF InHand, Loud, Chan, Task
  <1>2. \A c \in Chan : \A e \in Dispatcher : Blocked(e, c)' <=> Blocked(e, c)
    BY <1>0 DEF InHand, Blocked, Loud, Chan, Task
  <1>3. \A c \in Chan : \A v \in Slot :
          Active(c, v)' <=> Active(c, v) \/ (c = k /\ v = w)
    BY <1>0 DEF Active
  <1>4. ASSUME NEW c \in Chan PROVE TokenAt(c)'
    <2>1. CASE c # k
      BY <2>1, <1>1, <1>3 DEF IInv, TokenAt
    <2>2. CASE c = k
      <3>1. /\ \A e \in Dispatcher : InHand(e, k) => e = d
            /\ \A v \in Slot : ~Active(k, v)
            /\ len[k] # 1
        BY DEF IInv, TokenAt
      <3>2. /\ \A e \in Dispatcher : ~InHand(e, k)'
            /\ \A v \in Slot : Active(k, v)' <=> v = w
            /\ len'[k] # 1
        BY <3>1, <1>1, <1>3
      <3>3. QED
        BY <2>2, <3>2 DEF TokenAt
    <2>3. QED
      BY <2>1, <2>2
  <1>5. \A c \in Chan : QueueAt(c)'
    BY <1>0, <1>2 DEF IInv, QueueAt
  <1>6. QED
    BY <1>4, <1>5

\* A worker's step that leaves its token where it is.
LEMMA WorkerStep ==
  ASSUME IInv, NEW k \in Chan, NEW w \in Slot, NEW s \in WorkerState,
         worker[k][w] \in {"run", "flagged"} <=> s \in {"run", "flagged"},
         worker' = [worker EXCEPT ![k][w] = s],
         UNCHANGED <<len, queue, pc, part>>
  PROVE  \A c \in Chan : (TokenAt(c) /\ QueueAt(c))'
  <1>1. \A c \in Chan : \A v \in Slot : Active(c, v)' <=> Active(c, v)
    BY DEF IInv, TypeOK, Active
  <1>2. \A c \in Chan : TokenAt(c)'
    BY <1>1 DEF IInv, TokenAt, InHand
  <1>3. \A c \in Chan : QueueAt(c)'
    BY DEF IInv, QueueAt, Blocked
  <1>4. QED
    BY <1>2, <1>3

\* Blocks and transactions touch only the chain's variables.
LEMMA ChainInv == ASSUME IInv, Tick \/ \E t \in Task : ChainAccepts(t) PROVE IInv'
  <1>1. UNCHANGED <<len, queue, pc, part, snap, due, worker, flag>>
    BY DEF Tick, ChainAccepts
  <1>2. block' \in Nat /\ start' \in Nat /\ prove' \in [Task -> ProveState]
    <2>0. block \in Nat /\ start \in Nat /\ prove \in [Task -> ProveState]
      BY DEF IInv, TypeOK
    <2>1. CASE Tick
      <3>1. block' = block + 1
        BY <2>1 DEF Tick
      <3>2. \/ start' = block + 1 /\ prove' = [t \in Task |-> "none"]
            \/ start' = start /\ prove' = prove
        BY <2>1 DEF Tick
      <3>3. QED
        BY <2>0, <3>1, <3>2 DEF ProveState
    <2>2. ASSUME NEW t \in Task, ChainAccepts(t) 
               PROVE  block' \in Nat /\ start' \in Nat /\ prove' \in [Task -> ProveState]
      BY <2>0, <2>2 DEF ChainAccepts, ProveState
    <2>3. QED
      BY <2>1, <2>2
  <1>3. TypeOK'
    BY <1>1, <1>2 DEF IInv, TypeOK
  <1>4. \A c \in Chan : TokenAt(c)'
    BY <1>1 DEF IInv, TokenAt, InHand, Active
  <1>5. \A c \in Chan : QueueAt(c)'
    BY <1>1 DEF IInv, QueueAt, Blocked
  <1>6. FlagWillBeLowered'
    BY <1>1 DEF IInv, FlagWillBeLowered
  <1>7. QED
    BY <1>3, <1>4, <1>5, <1>6 DEF IInv

\* Dispatcher d goes to a position without a token; its locals keep their types.
MovesQuietly(d) ==
  /\ \E l \in PcState \ Loud, p \in Task :
       pc' = [pc EXCEPT ![d] = l] /\ part' = [part EXCEPT ![d] = p]
  /\ pc' \in [Dispatcher -> PcState] /\ part' \in [Dispatcher -> Task]
  /\ snap' \in [Dispatcher -> Snapshot]
  /\ due' \in [Dispatcher -> SUBSET Task]

\* Returning and going on to the other half keep the types, and leave the
\* dispatcher without a token.
LEMMA PartFacts ==
  ASSUME TypeOK, NEW d \in Dispatcher, NextPart(d) \/ Return(d)
  PROVE  MovesQuietly(d)
  <1>1. NoSnapshot \in Snapshot
    BY DEF NoSnapshot, Snapshot, ProveState
  <1>2. CASE Return(d)
    BY <1>1, <1>2 DEF MovesQuietly, Return, TypeOK, PcState, Loud, Task
  <1>3. CASE NextPart(d) /\ part[d] = "idle"
    <2>1. /\ pc' = [pc EXCEPT ![d] = "test"] /\ "test" \in PcState \ Loud
          /\ part' = [part EXCEPT ![d] = "service"] /\ "service" \in Task
          /\ due' = [due EXCEPT ![d] = @ \ {"idle"}] /\ snap' = snap
      BY <1>3 DEF NextPart, PcState, Loud, Task
    <2>2. due' \in [Dispatcher -> SUBSET Task]
      BY <2>1 DEF TypeOK
    <2>3. QED
      BY <2>1, <2>2 DEF MovesQuietly, TypeOK
  <1>4. QED
    BY <1>2, <1>3 DEF NextPart

\* A dispatcher's steps that move no token: its queries and its len tests.
LEMMA QuietInv ==
  ASSUME IInv, NEW d \in Dispatcher,
         \/ SpawnDispatcher(d) \/ QuerySnapshot(d) \/ QueryBlock(d)
         \/ TestTask(d) \/ TestSync(d)
  PROVE  IInv'
  <1>0. TypeOK
    BY DEF IInv
  <1>1. /\ UNCHANGED <<block, start, prove, len, queue, worker, flag>>
        /\ pc[d] \notin Loud
    BY DEF SpawnDispatcher, QuerySnapshot, QueryBlock, TestTask, TestSync, Loud
  <1>2. MovesQuietly(d)
    <2>1. CASE NextPart(d) \/ Return(d)
      BY <1>0, <2>1, PartFacts
    <2>2. ASSUME NEW l \in PcState \ Loud, pc' = [pc EXCEPT ![d] = l], part' = part,
                 snap' \in [Dispatcher -> Snapshot],
                 due' \in [Dispatcher -> SUBSET Task]
          PROVE  MovesQuietly(d)
      <3>1. part' = [part EXCEPT ![d] = part[d]] /\ part[d] \in Task
        BY <1>0, <2>2 DEF TypeOK
      <3>2. l \in PcState
        OBVIOUS
      <3>3. pc' \in [Dispatcher -> PcState] /\ part' \in [Dispatcher -> Task]
        BY <1>0, <2>2, <3>1, <3>2 DEF TypeOK
      <3>4. QED
        BY <2>2, <3>1, <3>3 DEF MovesQuietly
    <2>3. {"snapshot", "block", "test", "testSync", "recvSync", "recv"}
            \subseteq PcState \ Loud
      BY DEF PcState, Loud
    <2>4. CASE SpawnDispatcher(d)
      BY <1>0, <2>2, <2>3, <2>4 DEF SpawnDispatcher, TypeOK
    <2>5. CASE QuerySnapshot(d)
      <3>1. [start |-> start, prove |-> prove] \in Snapshot
        BY <1>0 DEF TypeOK, Snapshot
      <3>2. CASE Return(d)
        BY <2>1, <3>2
      <3>3. CASE ~Return(d)
        <4>1. /\ snap' = [snap EXCEPT ![d] = [start |-> start, prove |-> prove]]
              /\ pc' = [pc EXCEPT ![d] = "block"] /\ UNCHANGED <<part, due>>
          BY <2>5, <3>3 DEF QuerySnapshot
        <4>2. snap' \in [Dispatcher -> Snapshot]
          BY <1>0, <3>1, <4>1 DEF TypeOK
        <4>3. QED
          BY <1>0, <2>2, <2>3, <4>1, <4>2 DEF TypeOK
      <3>4. QED
        BY <3>2, <3>3
    <2>6. CASE QueryBlock(d)
      <3>1. NoSnapshot \in Snapshot
        BY DEF NoSnapshot, Snapshot, ProveState
      <3>2. {t \in Task : IsDue(t, snap[d], block)} \in SUBSET Task
        OBVIOUS
      <3>3. CASE Return(d)
        BY <2>1, <3>3
      <3>4. CASE ~Return(d)
        <4>1. /\ due' = [due EXCEPT ![d] = {t \in Task : IsDue(t, snap[d], block)}]
              /\ snap' = [snap EXCEPT ![d] = NoSnapshot]
              /\ pc' = [pc EXCEPT ![d] = "test"] /\ UNCHANGED part
          BY <2>6, <3>4 DEF QueryBlock
        <4>2. snap' \in [Dispatcher -> Snapshot] /\ due' \in [Dispatcher -> SUBSET Task]
          BY <1>0, <3>1, <3>2, <4>1 DEF TypeOK
        <4>3. QED
          BY <2>2, <2>3, <4>1, <4>2
      <3>5. QED
        BY <3>3, <3>4
    <2>7. CASE TestTask(d)
      BY <1>0, <2>1, <2>2, <2>3, <2>7 DEF TestTask, TypeOK
    <2>8. CASE TestSync(d)
      BY <1>0, <2>2, <2>3, <2>8 DEF TestSync, TypeOK
    <2>9. QED
      BY <2>4, <2>5, <2>6, <2>7, <2>8
  <1>3. TypeOK'
    BY <1>0, <1>1, <1>2 DEF MovesQuietly, TypeOK
  <1>4. \A c \in Chan : (TokenAt(c) /\ QueueAt(c))'
    BY <1>1, <1>2, QuietStep DEF MovesQuietly
  <1>5. FlagWillBeLowered'
    BY <1>1 DEF IInv, FlagWillBeLowered
  <1>6. QED
    BY <1>3, <1>4, <1>5 DEF IInv

\* A dispatcher's receives.
LEMMA ReceiveInv ==
  ASSUME IInv, NEW d \in Dispatcher, ReceiveSync(d) \/ ReceiveTask(d)
  PROVE  IInv'
  <1>1. UNCHANGED <<block, start, prove, part, snap, due, worker, flag>>
    BY DEF ReceiveSync, ReceiveTask
  <1>2. part[d] \in Task /\ Task \subseteq Chan /\ "sync" \in Chan /\ "sync" \notin Task
    BY DEF IInv, TypeOK, Chan, Task
  <1>3. PICK k \in Chan : /\ pc[d] = RecvPc(k) /\ (k # "sync" => part[d] = k)
                          /\ Receive(d, k, WaitPc(k), Resumed(k))
    BY <1>2 DEF ReceiveSync, ReceiveTask, RecvPc, WaitPc, Resumed
  <1>4. /\ len' \in [Chan -> {0, 1}] /\ queue' \in [Chan -> Seq(Dispatcher)]
        /\ pc' \in [Dispatcher -> PcState]
        /\ \A c \in Chan : (TokenAt(c) /\ QueueAt(c))'
    BY <1>1, <1>3, ReceiveStep
  <1>5. TypeOK'
    BY <1>1, <1>4 DEF IInv, TypeOK
  <1>6. FlagWillBeLowered'
    BY <1>1 DEF IInv, FlagWillBeLowered
  <1>7. QED
    BY <1>4, <1>5, <1>6 DEF IInv

\* A dispatcher's go statements.
LEMMA GoInv ==
  ASSUME IInv, NEW d \in Dispatcher, GoSync(d) \/ GoTask(d)
  PROVE  IInv'
  <1>0. TypeOK
    BY DEF IInv
  <1>1. UNCHANGED <<block, start, prove, len, queue, flag>>
    BY DEF GoSync, GoTask
  <1>2. part[d] \in Task /\ Task \subseteq Chan /\ "sync" \in Chan /\ "sync" \notin Task
    BY <1>0 DEF TypeOK, Chan, Task
  <1>3. PICK k \in Chan : InHand(d, k) /\ Spawn(k)
    BY <1>2 DEF GoSync, GoTask, InHand
  <1>4. PICK w \in Slot : /\ worker[k][w] = "gone"
                          /\ worker' = [worker EXCEPT ![k][w] = "run"]
    BY <1>3 DEF Spawn
  <1>5. MovesQuietly(d)
    <2>1. CASE GoTask(d)
      BY <1>0, <2>1, PartFacts DEF GoTask
    <2>2. CASE GoSync(d)
      <3>1. /\ pc' = [pc EXCEPT ![d] = "recv"] /\ "recv" \in PcState \ Loud
            /\ UNCHANGED <<part, snap, due>>
        BY <2>2 DEF GoSync, PcState, Loud
      <3>2. part' = [part EXCEPT ![d] = part[d]]
        BY <1>0, <3>1 DEF TypeOK
      <3>3. pc' \in [Dispatcher -> PcState]
        BY <1>0, <3>1 DEF TypeOK
      <3>4. QED
        BY <1>0, <1>2, <3>1, <3>2, <3>3 DEF MovesQuietly, TypeOK
    <2>3. QED
      BY <2>1, <2>2
  <1>6. worker' \in [Chan -> [Slot -> WorkerState]]
    BY <1>0, <1>4 DEF TypeOK, WorkerState
  <1>7. TypeOK'
    BY <1>0, <1>1, <1>5, <1>6 DEF MovesQuietly, TypeOK
  <1>8. \A c \in Chan : (TokenAt(c) /\ QueueAt(c))'
    BY <1>1, <1>3, <1>4, <1>5, SpawnStep DEF MovesQuietly
  <1>9. FlagWillBeLowered'
    <2>1. \A t \in Task, v \in Slot : worker[t][v] \in {"flagged", "tail"}
                                      => worker'[t][v] = worker[t][v]
      BY <1>0, <1>4 DEF TypeOK, Chan
    <2>2. flag' = flag
      BY <1>1
    <2>3. QED
      BY <2>1, <2>2 DEF IInv, FlagWillBeLowered
  <1>10. QED
    BY <1>7, <1>8, <1>9 DEF IInv

\* A worker's steps on its flag.
LEMMA FlagInv ==
  ASSUME IInv, NEW t \in Task, NEW w \in Slot,
         RaiseFlag(t, w) \/ LowerFlag(t, w) \/ (t = "service" /\ LowerFlagEarly(w))
  PROVE  IInv'
  <1>0. TypeOK
    BY DEF IInv
  <1>1. UNCHANGED <<block, start, prove, len, queue, pc, part, snap, due>>
    BY DEF RaiseFlag, LowerFlag, LowerFlagEarly
  <1>2. t \in Chan
    BY DEF Chan
  <1>3. PICK s \in WorkerState :
          /\ worker' = [worker EXCEPT ![t][w] = s]
          /\ worker[t][w] \in {"run", "flagged"} <=> s \in {"run", "flagged"}
          /\ flag'[t] => s = "flagged"
    <2>1. CASE RaiseFlag(t, w)
      BY <2>1 DEF RaiseFlag, WorkerState
    <2>2. CASE LowerFlag(t, w)
      BY <1>0, <2>2 DEF LowerFlag, WorkerState, TypeOK
    <2>3. CASE t = "service" /\ LowerFlagEarly(w)
      BY <1>0, <1>2, <2>3 DEF LowerFlagEarly, TypeOK, WorkerState
    <2>4. QED
      BY <2>1, <2>2, <2>3
  <1>4. flag' \in [Task -> BOOLEAN] /\ \A u \in Task : u # t => flag'[u] = flag[u]
    BY <1>0 DEF RaiseFlag, LowerFlag, LowerFlagEarly, TypeOK
  <1>5. TypeOK'
    BY <1>0, <1>1, <1>3, <1>4 DEF TypeOK
  <1>6. \A c \in Chan : (TokenAt(c) /\ QueueAt(c))'
    BY <1>1, <1>2, <1>3, WorkerStep
  <1>7. FlagWillBeLowered'
    <2>1. worker'[t][w] = s /\ \A u \in Task : u # t => worker'[u] = worker[u]
      BY <1>0, <1>2, <1>3 DEF TypeOK, Chan
    <2>2. ASSUME NEW u \in Task, flag'[u]
          PROVE  \E v \in Slot : worker'[u][v] \in {"flagged", "tail"}
      <3>1. CASE u = t
        BY <1>3, <2>1, <2>2, <3>1
      <3>2. CASE u # t
        BY <1>4, <2>1, <2>2, <3>2 DEF IInv, FlagWillBeLowered
      <3>3. QED
        BY <3>1, <3>2
    <2>3. QED
      BY <2>2 DEF FlagWillBeLowered
  <1>8. QED
    BY <1>5, <1>6, <1>7 DEF IInv

\* A worker's deferred send.
LEMMA SendInv ==
  ASSUME IInv, NEW w \in Slot, SyncDone(w) \/ \E t \in Task : ReturnToken(t, w)
  PROVE  IInv'
  <1>0. TypeOK
    BY DEF IInv
  <1>1. UNCHANGED <<block, start, prove, part, snap, due, flag>>
    BY DEF SyncDone, ReturnToken
  <1>2. Task \subseteq Chan /\ "sync" \in Chan /\ "sync" \notin Task
    BY DEF Chan, Task
  <1>3. PICK k \in Chan, s \in {"tail", "gone"} :
          /\ Active(k, w) /\ Send(k) /\ worker' = [worker EXCEPT ![k][w] = s]
          /\ k \in Task => s = "tail"
    BY <1>2 DEF SyncDone, ReturnToken, Active
  <1>4. /\ len' \in [Chan -> {0, 1}] /\ queue' \in [Chan -> Seq(Dispatcher)]
        /\ pc' \in [Dispatcher -> PcState]
        /\ \A c \in Chan : (TokenAt(c) /\ QueueAt(c))'
    BY <1>1, <1>3, SendStep
  <1>5. TypeOK'
    BY <1>0, <1>1, <1>3, <1>4 DEF TypeOK, WorkerState
  <1>6. FlagWillBeLowered'
    BY <1>0, <1>1, <1>2, <1>3 DEF IInv, FlagWillBeLowered, TypeOK
  <1>7. QED
    BY <1>4, <1>5, <1>6 DEF IInv

\* Every step of the dispatchers, the workers and the chain keeps IInv.
LEMMA NextInv == IInv /\ [Next]_vars => IInv'
  <1> SUFFICES ASSUME IInv, [Next]_vars PROVE IInv'
    OBVIOUS
  <1>1. CASE UNCHANGED vars
    <2>1. TypeOK'
      BY <1>1 DEF IInv, TypeOK, vars
    <2>2. \A c \in Chan : TokenAt(c)'
      BY <1>1 DEF IInv, TokenAt, InHand, Active, vars
    <2>3. \A c \in Chan : QueueAt(c)'
      BY <1>1 DEF IInv, QueueAt, Blocked, vars
    <2>4. FlagWillBeLowered'
      BY <1>1 DEF IInv, FlagWillBeLowered, vars
    <2>5. QED
      BY <2>1, <2>2, <2>3, <2>4 DEF IInv
  <1>2. CASE Tick \/ \E t \in Task : ChainAccepts(t)
    BY <1>2, ChainInv
  <1>3. ASSUME NEW d \in Dispatcher, SpawnDispatcher(d) \/ Step(d) PROVE IInv'
    BY <1>3, QuietInv, ReceiveInv, GoInv DEF Step
  <1>4. ASSUME NEW t \in Task, NEW w \in Slot,
               RaiseFlag(t, w) \/ ReturnToken(t, w) \/ LowerFlag(t, w)
        PROVE  IInv'
    BY <1>4, FlagInv, SendInv
  <1>5. ASSUME NEW w \in Slot, LowerFlagEarly(w) \/ SyncDone(w) PROVE IInv'
    <2>1. "service" \in Task
      BY DEF Task
    <2>2. QED
      BY <1>5, <2>1, FlagInv, SendInv
  <1>6. QED
    BY <1>1, <1>2, <1>3, <1>4, <1>5 DEF Next

\* IInv, and with it every safety property of the dispatcher, always holds.
LEMMA Invariant == Spec => []IInv
  BY InitInv, NextInv, PTL DEF Spec

\* Type correctness of the dispatcher model: in particular len(ch) of the three
\* capacity-one channels stays 0 or 1.
THEOREM TypeCorrect == Spec => []TypeOK
  <1>1. IInv => TypeOK
    BY DEF IInv
  <1>2. QED
    BY <1>1, Invariant, PTL

\* For any number of overlapping ChallengeMgt goroutines, two bodies of the same
\* task never run at the same time.
THEOREM OneWorkerAtATime == Spec => []OneWorker
  <1>1. IInv => OneWorker
    BY DEF IInv, TokenAt, OneWorker
  <1>2. QED
    BY <1>1, Invariant, PTL

\* For any number of overlapping ChallengeMgt goroutines, no token is ever lost.
THEOREM TokensAreNotLost == Spec => []TokenNotLost
  <1>1. IInv => TokenNotLost
    BY DEF IInv, TokenAt, TokenNotLost
  <1>2. QED
    BY <1>1, Invariant, PTL

\* A raised Challenging flag always has a worker that will lower it.
THEOREM FlagsWillBeLowered == Spec => []FlagWillBeLowered
  <1>1. IInv => FlagWillBeLowered
    BY DEF IInv
  <1>2. QED
    BY <1>1, Invariant, PTL
-----------------------------------------------------------------------------
(* The three channels implement TaskSlot. *)

\* With a single active goroutine, Runner names it.
RunnerNamed ==
  \A c \in Chan : /\ \A w \in Slot : Active(c, w) <=> Runner(c) = w
                  /\ Runner(c) \in Slot \cup {Nobody}

\* Under the invariant the running goroutine of a channel is named by Runner.
LEMMA RunnerFacts == IInv => RunnerNamed
  <1> SUFFICES ASSUME IInv, NEW c \in Chan
               PROVE  /\ \A w \in Slot : Active(c, w) <=> Runner(c) = w
                      /\ Runner(c) \in Slot \cup {Nobody}
    BY DEF RunnerNamed
  <1>1. \A v, w \in Slot : Active(c, v) /\ Active(c, w) => v = w
    BY DEF IInv, TokenAt
  <1>2. CASE \E w \in Slot : Active(c, w)
    <2>1. Runner(c) \in Slot /\ Active(c, Runner(c))
      BY <1>2 DEF Runner
    <2>2. QED
      BY <1>1, <2>1
  <1>3. CASE ~\E w \in Slot : Active(c, w)
    BY <1>3, NobodyAssumption DEF Runner
  <1>4. QED
    BY <1>2, <1>3

\* A step touches at most one goroutine.
LEMMA OneGoroutine ==
  ASSUME IInv, [Next]_vars
  PROVE  \/ worker' = worker
         \/ \E k \in Chan, v \in Slot, s \in WorkerState :
              worker' = [worker EXCEPT ![k][v] = s]
  <1>1. Task \subseteq Chan /\ "sync" \in Chan
    BY DEF Chan
  <1>2. {"run", "flagged", "tail", "gone"} \subseteq WorkerState
    BY DEF WorkerState
  <1>3. CASE \E d \in Dispatcher : GoTask(d) \/ GoSync(d)
    <2>1. PICK d \in Dispatcher : GoTask(d) \/ GoSync(d)
      BY <1>3
    <2>2. CASE GoSync(d)
      BY <1>1, <1>2, <2>2 DEF GoSync, Spawn
    <2>3. CASE GoTask(d)
      <3>1. part[d] \in Chan
        BY <1>1 DEF IInv, TypeOK
      <3>2. QED
        BY <1>2, <2>3, <3>1 DEF GoTask, Spawn
    <2>4. QED
      BY <2>1, <2>2, <2>3
  <1>4. CASE \E t \in Task, w \in Slot :
               RaiseFlag(t, w) \/ ReturnToken(t, w) \/ LowerFlag(t, w)
    BY <1>1, <1>2, <1>4 DEF RaiseFlag, ReturnToken, LowerFlag
  <1>5. CASE \E w \in Slot : LowerFlagEarly(w) \/ SyncDone(w)
    BY <1>1, <1>2, <1>5 DEF LowerFlagEarly, SyncDone
  <1>6. CASE \E d \in Dispatcher : SpawnDispatcher(d) \/ (Step(d) /\ ~GoTask(d) /\ ~GoSync(d))
    BY <1>6 DEF SpawnDispatcher, Step, QuerySnapshot, QueryBlock, TestTask, TestSync,
       ReceiveSync, ReceiveTask
  <1>7. CASE Tick \/ UNCHANGED vars \/ \E t \in Task : ChainAccepts(t)
    BY <1>7 DEF Tick, ChainAccepts, vars
  <1>8. QED
    BY <1>3, <1>4, <1>5, <1>6, <1>7 DEF Next

\* A step that changes the runner of a channel starts it in the empty slot or
\* empties the slot.
LEMMA RunnerStep ==
  ASSUME IInv, RunnerNamed, RunnerNamed', [Next]_vars, NEW c \in Chan
  PROVE  \/ Runner(c)' = Runner(c)
         \/ Runner(c) = Nobody /\ \E w \in Slot : Runner(c)' = w
         \/ Runner(c) # Nobody /\ Runner(c)' = Nobody
  <1>1. \E v : \A w \in Slot : w # v => (Active(c, w)' <=> Active(c, w))
    <2>1. CASE worker' = worker
      BY <2>1 DEF Active
    <2>2. CASE worker' # worker
      <3>1. PICK k \in Chan, v \in Slot, s \in WorkerState :
              worker' = [worker EXCEPT ![k][v] = s]
        BY <2>2, OneGoroutine
      <3>2. \A w \in Slot : w # v => worker'[c][w] = worker[c][w]
        BY <3>1 DEF IInv, TypeOK
      <3>3. QED
        BY <3>2 DEF Active
    <2>3. QED
      BY <2>1, <2>2
  <1>2. PICK v : \A w \in Slot : w # v => (Active(c, w)' <=> Active(c, w))
    BY <1>1
  <1>3. /\ \A w \in Slot : Active(c, w) <=> Runner(c) = w
        /\ Runner(c) \in Slot \cup {Nobody}
    BY DEF RunnerNamed
  <1>4. /\ \A w \in Slot : Active(c, w)' <=> Runner(c)' = w
        /\ Runner(c)' \in Slot \cup {Nobody}
    BY DEF RunnerNamed
  <1>5. QED
    BY <1>2, <1>3, <1>4, NobodyAssumption

\* The three channels implement TaskSlot: for any number of dispatchers, the
\* goroutines of a channel run strictly one after the other.
THEOREM ChannelsAreSlots == Spec => TasksAreSlots
  <1>1. "idle" \in Chan /\ "service" \in Chan /\ "sync" \in Chan
    BY DEF Chan, Task
  <1>2. RunnerNamed => IdleTask!Init /\ ServiceTask!Init /\ SyncTask!Init
    BY <1>1 DEF RunnerNamed, IdleTask!Init, ServiceTask!Init, SyncTask!Init
  <1>3. IInv /\ RunnerNamed /\ RunnerNamed' /\ [Next]_vars
          => /\ [IdleTask!Next]_(Runner("idle"))
             /\ [ServiceTask!Next]_(Runner("service"))
             /\ [SyncTask!Next]_(Runner("sync"))
    <2> SUFFICES ASSUME IInv, RunnerNamed, RunnerNamed', [Next]_vars
                 PROVE  /\ [IdleTask!Next]_(Runner("idle"))
                        /\ [ServiceTask!Next]_(Runner("service"))
                        /\ [SyncTask!Next]_(Runner("sync"))
      OBVIOUS
    <2>1. [IdleTask!Next]_(Runner("idle"))
      BY <1>1, RunnerStep DEF IdleTask!Next, IdleTask!Start, IdleTask!Finish
    <2>2. [ServiceTask!Next]_(Runner("service"))
      BY <1>1, RunnerStep DEF ServiceTask!Next, ServiceTask!Start, ServiceTask!Finish
    <2>3. [SyncTask!Next]_(Runner("sync"))
      BY <1>1, RunnerStep DEF SyncTask!Next, SyncTask!Start, SyncTask!Finish
    <2>4. QED
      BY <2>1, <2>2, <2>3
  <1>4. QED
    BY <1>2, <1>3, RunnerFacts, Invariant, PTL
       DEF Spec, TasksAreSlots, IdleTask!Spec, ServiceTask!Spec, SyncTask!Spec
=============================================================================
