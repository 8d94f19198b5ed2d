---------------------------- MODULE ChallengeMgt ----------------------------
(***************************************************************************)
(* The challenge dispatcher of a storage miner: ChallengeMgt of            *)
(* node/challenge.go and the part of Node.Start (node/node.go) that spawns *)
(* it.                                                                     *)
(*                                                                         *)
(* Node.Start spawns a new ChallengeMgt goroutine every 12 seconds while a *)
(* task token is available, without waiting for the previous one, so       *)
(* several dispatchers overlap.  Each reads the challenge snapshot of the  *)
(* miner from the chain, then the block number, and then, first for the    *)
(* idle and then for the service challenge, tests len(ch) and receives     *)
(* from ch in two separate steps.  The three channels have capacity one;   *)
(* a receive on an empty channel queues, first come first served, and a    *)
(* send hands its token to the oldest waiting receiver.                    *)
(*                                                                         *)
(* The workers started here (idleChallenge, serviceChallenge, SyncTeeInfo) *)
(* are reduced to what they do with the token and with the Challenging     *)
(* flag of node/runstatus; IdleChallenge.tla models the idle worker's      *)
(* body.  The chain is external.                                           *)
(***************************************************************************)
EXTENDS Naturals, Sequences

CONSTANTS Dispatcher,     \* the ChallengeMgt goroutines, each started at most once
          Slot,           \* goroutines that can be alive at once for one channel
          RoundLength,    \* blocks from the start of a challenge to the next
          IdleWindow,     \* IdleSlip    = start + IdleWindow
          ServiceWindow,  \* ServiceSlip = start + ServiceWindow
          VerifyWindow,   \* VerifySlip  = start + VerifyWindow
          MaxBlock,       \* bound: the last block produced
          Nobody          \* the empty slot of TaskSlot

ASSUME NobodyAssumption == Nobody \notin Slot

ASSUME WindowAssumption ==
  /\ RoundLength \in Nat \ {0}
  /\ {IdleWindow, ServiceWindow, VerifyWindow, MaxBlock} \subseteq Nat

Task == {"idle", "service"}   \* idleChallTaskCh, serviceChallTaskCh
Chan == Task \cup {"sync"}    \* ... and syncTeeCh

VARIABLES
  block,    \* chain: the latest block number
  start,    \* chain: ChallengeElement.Start of the miner's challenge
  prove,    \* chain: ProveInfo of that challenge, per task
  len,      \* len(ch) for each channel
  queue,    \* dispatchers blocked in a receive on each channel, oldest first
  pc,       \* where each dispatcher is
  part,     \* the half of ChallengeMgt it is in: "idle" or "service"
  snap,     \* the snapshot it read
  due,      \* the tasks its snapshot and block number make due
  worker,   \* goroutines of each channel
  flag      \* runstatus: IdleChallenging, ServiceChallenging

chainVars == <<block, start, prove>>
chanVars == <<len, queue>>
dispVars == <<pc, part, snap, due>>
vars == <<block, start, prove, len, queue, pc, part, snap, due, worker, flag>>

ProveState == {"none", "proved", "verified"}
Snapshot == [start : Nat, prove : [Task -> ProveState]]

\* "gone": no goroutine.  "run": started, its flag not yet touched.
\* "flagged": after SetXxxChallenging(true).  "tail": the deferred function has
\* returned the token and not yet reset the flag.
WorkerState == {"gone", "run", "flagged", "tail"}

\* Not started, returned, reading the snapshot, reading the block number, before
\* the len(ch) test of a part, before the len(syncTeeCh) test, before and blocked
\* in the two receives, and between a receive and its go statement.
PcState == {"off", "done", "snapshot", "block", "test", "testSync", "recvSync",
            "waitSync", "goSync", "recv", "wait", "go"}

TypeOK ==
  /\ block \in Nat /\ start \in Nat
  /\ prove \in [Task -> ProveState]
  /\ len \in [Chan -> {0, 1}]
  /\ queue \in [Chan -> Seq(Dispatcher)]
  /\ pc \in [Dispatcher -> PcState]
  /\ part \in [Dispatcher -> Task]
  /\ snap \in [Dispatcher -> Snapshot]
  /\ due \in [Dispatcher -> SUBSET Task]
  /\ worker \in [Chan -> [Slot -> WorkerState]]
  /\ flag \in [Task -> BOOLEAN]

NoSnapshot == [start |-> 0, prove |-> [t \in Task |-> "none"]]

\* Node.Start: the task channels hold a token; syncTeeCh is empty and the first
\* SyncTeeInfo, started directly, will put the token in.  The process starts while
\* a challenge is open.
Init ==
  /\ block = RoundLength /\ start = RoundLength
  /\ prove = [t \in Task |-> "none"]
  /\ len = [c \in Chan |-> IF c = "sync" THEN 0 ELSE 1]
  /\ queue = [c \in Chan |-> <<>>]
  /\ pc = [d \in Dispatcher |-> "off"]
  /\ part = [d \in Dispatcher |-> "idle"]
  /\ snap = [d \in Dispatcher |-> NoSnapshot]
  /\ due = [d \in Dispatcher |-> {}]
  /\ \E w \in Slot :
       worker = [c \in Chan |-> [v \in Slot |->
                   IF c = "sync" /\ v = w THEN "run" ELSE "gone"]]
  /\ flag = [t \in Task |-> FALSE]
-----------------------------------------------------------------------------
(* The chain (external). *)

\* A block is produced; every RoundLength blocks it carries a new challenge.
Tick ==
  /\ block < MaxBlock
  /\ block' = block + 1
  /\ IF (block + 1) % RoundLength = 0
     THEN start' = block + 1 /\ prove' = [t \in Task |-> "none"]
     ELSE UNCHANGED <<start, prove>>
  /\ UNCHANGED <<len, queue, pc, part, snap, due, worker, flag>>

Slip(t, s) == s + (IF t = "idle" THEN IdleWindow ELSE ServiceWindow)
VerifySlip(s) == s + VerifyWindow

\* The chain takes a proof or a verification result from a running worker.
ChainAccepts(t) ==
  /\ \E w \in Slot : worker[t][w] \in {"run", "flagged"}
  /\ \/ /\ prove[t] = "none" /\ block <= Slip(t, start)
        /\ prove' = [prove EXCEPT ![t] = "proved"]
     \/ /\ prove[t] = "proved" /\ block <= VerifySlip(start)
        /\ prove' = [prove EXCEPT ![t] = "verified"]
  /\ UNCHANGED <<block, start, len, queue, pc, part, snap, due, worker, flag>>
-----------------------------------------------------------------------------
(* Channels. *)

\* <-ch by dispatcher d: take the buffered token and go on at `then', or queue
\* and block at `wait'.
Receive(d, c, wait, then) ==
  IF len[c] = 1
  THEN /\ len' = [len EXCEPT ![c] = 0]
       /\ pc' = [pc EXCEPT ![d] = then]
       /\ UNCHANGED queue
  ELSE /\ queue' = [queue EXCEPT ![c] = Append(@, d)]
       /\ pc' = [pc EXCEPT ![d] = wait]
       /\ UNCHANGED len

\* Where a dispatcher blocked on channel c goes on when it is given the token.
Resumed(c) == IF c = "sync" THEN "goSync" ELSE "go"

\* ch <- true: to the oldest waiting receiver, else into the buffer, else block.
Send(c) ==
  IF queue[c] # <<>>
  THEN /\ queue' = [queue EXCEPT ![c] = Tail(@)]
       /\ pc' = [pc EXCEPT ![Head(queue[c])] = Resumed(c)]
       /\ UNCHANGED len
  ELSE /\ len[c] = 0
       /\ len' = [len EXCEPT ![c] = 1]
       /\ UNCHANGED <<queue, pc>>

\* go f(ch): a goroutine of channel c is started.
Spawn(c) ==
  \E w \in Slot : /\ worker[c][w] = "gone"
                  /\ worker' = [worker EXCEPT ![c][w] = "run"]
-----------------------------------------------------------------------------
(* ChallengeMgt. *)

\* Node.Start: every 12 seconds, when a task token is in its channel.
SpawnDispatcher(d) ==
  /\ pc[d] = "off"
  /\ \E t \in Task : len[t] > 0
  /\ pc' = [pc EXCEPT ![d] = "snapshot"]
  /\ UNCHANGED <<block, start, prove, len, queue, part, snap, due, worker, flag>>

\* The goroutine's locals are dropped when it returns.
Return(d) ==
  /\ pc' = [pc EXCEPT ![d] = "done"]
  /\ part' = [part EXCEPT ![d] = "idle"]
  /\ snap' = [snap EXCEPT ![d] = NoSnapshot]
  /\ due' = [due EXCEPT ![d] = {}]

\* QueryChallengeSnapShot: an RPC error, or no challenge for this miner, ends the
\* dispatcher.
QuerySnapshot(d) ==
  /\ pc[d] = "snapshot"
  /\ \/ /\ snap' = [snap EXCEPT ![d] = [start |-> start, prove |-> prove]]
        /\ pc' = [pc EXCEPT ![d] = "block"]
        /\ UNCHANGED <<part, due>>
     \/ Return(d)
  /\ UNCHANGED <<block, start, prove, len, queue, worker, flag>>

\* The task is due: no proof yet and its slip ahead, or a proof without result
\* and the verify slip ahead.
IsDue(t, s, latest) ==
  CASE s.prove[t] = "none"     -> Slip(t, s.start) > latest
    [] s.prove[t] = "proved"   -> VerifySlip(s.start) > latest
    [] s.prove[t] = "verified" -> FALSE

\* QueryBlockNumber: an error ends the dispatcher.  From here on the snapshot is
\* only handed to the workers, whose arguments this module leaves out.
QueryBlock(d) ==
  /\ pc[d] = "block"
  /\ \/ /\ due' = [due EXCEPT ![d] = {t \in Task : IsDue(t, snap[d], block)}]
        /\ snap' = [snap EXCEPT ![d] = NoSnapshot]
        /\ pc' = [pc EXCEPT ![d] = "test"]
        /\ UNCHANGED part
     \/ Return(d)
  /\ UNCHANGED <<block, start, prove, len, queue, worker, flag>>

\* Go on with the service half, or return after it.
NextPart(d) ==
  IF part[d] = "idle"
  THEN /\ part' = [part EXCEPT ![d] = "service"]
       /\ due' = [due EXCEPT ![d] = @ \ {"idle"}]
       /\ pc' = [pc EXCEPT ![d] = "test"]
       /\ UNCHANGED snap
  ELSE Return(d)

\* if len(ch) > 0, for a due task.
TestTask(d) ==
  /\ pc[d] = "test"
  /\ IF part[d] \in due[d] /\ len[part[d]] > 0
     THEN pc' = [pc EXCEPT ![d] = "testSync"] /\ UNCHANGED <<part, snap, due>>
     ELSE NextPart(d)
  /\ UNCHANGED <<block, start, prove, len, queue, worker, flag>>

\* if len(syncTeeCh) > 0
TestSync(d) ==
  /\ pc[d] = "testSync"
  /\ pc' = [pc EXCEPT ![d] = IF len["sync"] > 0 THEN "recvSync" ELSE "recv"]
  /\ UNCHANGED <<block, start, prove, len, queue, part, snap, due, worker, flag>>

\* Fault variant of ReceiveSync: SyncTeeInfo is started on the len test alone.
SkipReceiveSync(d) ==
  /\ pc[d] = "recvSync"
  /\ pc' = [pc EXCEPT ![d] = "goSync"]
  /\ UNCHANGED <<block, start, prove, len, queue, part, snap, due, worker, flag>>

\* <-syncTeeCh
ReceiveSync(d) ==
  /\ pc[d] = "recvSync"
  /\ Receive(d, "sync", "waitSync", "goSync")
  /\ UNCHANGED <<block, start, prove, part, snap, due, worker, flag>>

\* go n.SyncTeeInfo(syncTeeCh)
GoSync(d) ==
  /\ pc[d] = "goSync"
  /\ Spawn("sync")
  /\ pc' = [pc EXCEPT ![d] = "recv"]
  /\ UNCHANGED <<block, start, prove, len, queue, part, snap, due, flag>>

\* Fault variant of ReceiveTask: the worker is started on the len test alone.
SkipReceiveTask(d) ==
  /\ pc[d] = "recv"
  /\ pc' = [pc EXCEPT ![d] = "go"]
  /\ UNCHANGED <<block, start, prove, len, queue, part, snap, due, worker, flag>>

\* <-idleChallTaskCh or <-serviceChallTaskCh
ReceiveTask(d) ==
  /\ pc[d] = "recv"
  /\ Receive(d, part[d], "wait", "go")
  /\ UNCHANGED <<block, start, prove, part, snap, due, worker, flag>>

\* go n.idleChallenge(...) or go n.serviceChallenge(...)
GoTask(d) ==
  /\ pc[d] = "go"
  /\ Spawn(part[d])
  /\ NextPart(d)
  /\ UNCHANGED <<block, start, prove, len, queue, flag>>
-----------------------------------------------------------------------------
(* Workers: what they do with their token and their flag. *)

\* SetIdleChallenging(true) or SetServiceChallenging(true).
RaiseFlag(t, w) ==
  /\ worker[t][w] = "run"
  /\ worker' = [worker EXCEPT ![t][w] = "flagged"]
  /\ flag' = [flag EXCEPT ![t] = TRUE]
  /\ UNCHANGED <<block, start, prove, len, queue, pc, part, snap, due>>

\* serviceChallenge lowers its flag once the batch proof is computed.
LowerFlagEarly(w) ==
  /\ worker["service"][w] = "flagged"
  /\ flag["service"]
  /\ flag' = [flag EXCEPT !["service"] = FALSE]
  /\ UNCHANGED <<block, start, prove, len, queue, pc, part, snap, due, worker>>

\* Fault variant of ReturnToken: a return path without the deferred send.
ExitWithoutToken(t, w) ==
  /\ worker[t][w] \in {"run", "flagged"}
  /\ worker' = [worker EXCEPT ![t][w] = "tail"]
  /\ UNCHANGED <<block, start, prove, len, queue, pc, part, snap, due, flag>>

\* The worker's body ends (return or panic); the deferred ch <- true.
ReturnToken(t, w) ==
  /\ worker[t][w] \in {"run", "flagged"}
  /\ Send(t)
  /\ worker' = [worker EXCEPT ![t][w] = "tail"]
  /\ UNCHANGED <<block, start, prove, part, snap, due, flag>>

\* Fault variant of LowerFlag: the deferred function does not reset the flag.
ExitFlagRaised(t, w) ==
  /\ worker[t][w] = "tail"
  /\ worker' = [worker EXCEPT ![t][w] = "gone"]
  /\ UNCHANGED <<block, start, prove, len, queue, pc, part, snap, due, flag>>

\* The deferred SetXxxChallenging(false), after the token is back.
LowerFlag(t, w) ==
  /\ worker[t][w] = "tail"
  /\ worker' = [worker EXCEPT ![t][w] = "gone"]
  /\ flag' = [flag EXCEPT ![t] = FALSE]
  /\ UNCHANGED <<block, start, prove, len, queue, pc, part, snap, due>>

\* SyncTeeInfo ends; the deferred ch <- true.
SyncDone(w) ==
  /\ worker["sync"][w] = "run"
  /\ Send("sync")
  /\ worker' = [worker EXCEPT !["sync"][w] = "gone"]
  /\ UNCHANGED <<block, start, prove, part, snap, due, flag>>
-----------------------------------------------------------------------------
Step(d) ==
  \/ QuerySnapshot(d) \/ QueryBlock(d) \/ TestTask(d) \/ TestSync(d)
  \/ ReceiveSync(d) \/ GoSync(d) \/ ReceiveTask(d) \/ GoTask(d)

Next ==
  \/ Tick
  \/ \E t \in Task : ChainAccepts(t)
  \/ \E d \in Dispatcher : SpawnDispatcher(d) \/ Step(d)
  \/ \E t \in Task, w \in Slot :
       RaiseFlag(t, w) \/ ReturnToken(t, w) \/ LowerFlag(t, w)
  \/ \E w \in Slot : LowerFlagEarly(w) \/ SyncDone(w)

Spec == Init /\ [][Next]_vars

\* Goroutines that can run do run, and a worker's body ends: the idle worker's
\* loops end at the verify slip (IdleChallenge.tla, WorkerReturns).
Fairness ==
  /\ \A d \in Dispatcher : WF_vars(Step(d))
  /\ \A t \in Task, w \in Slot : WF_vars(ReturnToken(t, w)) /\ WF_vars(LowerFlag(t, w))
  /\ \A w \in Slot : WF_vars(SyncDone(w))

FairSpec == Spec /\ Fairness
-----------------------------------------------------------------------------
(* Properties. *)

\* The worker is in its body: it was started and has not returned the token.
Active(c, w) == worker[c][w] \in {"run", "flagged"}

\* The dispatcher has received the token of channel c and not yet started the
\* goroutine that will return it.
InHand(d, c) == IF c = "sync" THEN pc[d] = "goSync" ELSE pc[d] = "go" /\ part[d] = c

\* The dispatcher is blocked in a receive on channel c.
Blocked(d, c) == IF c = "sync" THEN pc[d] = "waitSync" ELSE pc[d] = "wait" /\ part[d] = c

\* However many dispatchers overlap between their len(ch) test and their
\* receive, two idleChallenge (or two serviceChallenge, or two SyncTeeInfo)
\* bodies never run at the same time.
OneWorker ==
  \A c \in Chan, v, w \in Slot : Active(c, v) /\ Active(c, w) => v = w

\* A token is never lost: it is in its channel, in the hand of a dispatcher that
\* is about to start the worker, or with a running worker.  A lost token would
\* end the miner's challenge handling for good.
TokenNotLost ==
  \A c \in Chan : \/ len[c] = 1
                  \/ \E d \in Dispatcher : InHand(d, c)
                  \/ \E w \in Slot : Active(c, w)

\* The Challenging flag that keeps GenIdle from starting (node.go, 40s gen idle)
\* is raised only while some worker of the task will still lower it.
FlagWillBeLowered ==
  \A t \in Task : flag[t] => \E w \in Slot : worker[t][w] \in {"flagged", "tail"}

\* Every ChallengeMgt goroutine ends, also one that blocked in a receive after
\* losing the race for the token its len(ch) test saw.
DispatcherEnds == \A d \in Dispatcher : pc[d] # "off" ~> pc[d] = "done"

\* The goroutine that runs a task, for the slot each channel implements.
Runner(c) == IF \E w \in Slot : Active(c, w)
             THEN CHOOSE w \in Slot : Active(c, w) ELSE Nobody

IdleTask == INSTANCE TaskSlot WITH runner <- Runner("idle")
ServiceTask == INSTANCE TaskSlot WITH runner <- Runner("service")
SyncTask == INSTANCE TaskSlot WITH runner <- Runner("sync")

\* Each of the three channels implements a TaskSlot: goroutines of the channel
\* run one after the other.
TasksAreSlots == IdleTask!Spec /\ ServiceTask!Spec /\ SyncTask!Spec
-----------------------------------------------------------------------------
(* The inductive invariant behind the safety properties. *)

\* The token of channel c is in exactly one place.
TokenAt(c) ==
  /\ len[c] = 1 => /\ \A d \in Dispatcher : ~InHand(d, c)
                   /\ \A w \in Slot : ~Active(c, w)
  /\ \A d \in Dispatcher, w \in Slot : ~(InHand(d, c) /\ Active(c, w))
  /\ \A d, e \in Dispatcher : InHand(d, c) /\ InHand(e, c) => d = e
  /\ \A v, w \in Slot : Active(c, v) /\ Active(c, w) => v = w
  /\ \/ len[c] = 1
     \/ \E d \in Dispatcher : InHand(d, c)
     \/ \E w \in Slot : Active(c, w)

\* The queue of channel c holds exactly the dispatchers blocked on it, once each,
\* and is empty while the token is in the channel.
QueueAt(c) ==
  /\ \A i \in 1..Len(queue[c]) : Blocked(queue[c][i], c)
  /\ \A d \in Dispatcher : Blocked(d, c) => \E i \in 1..Len(queue[c]) : queue[c][i] = d
  /\ \A i, j \in 1..Len(queue[c]) : queue[c][i] = queue[c][j] => i = j
  /\ len[c] = 1 => queue[c] = <<>>

IInv ==
  /\ TypeOK
  /\ \A c \in Chan : TokenAt(c) /\ QueueAt(c)
  /\ FlagWillBeLowered
=============================================================================
