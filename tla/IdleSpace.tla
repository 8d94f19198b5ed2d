----------------------------- MODULE IdleSpace ------------------------------
(***************************************************************************)
(* The miner's idle space: CertIdle (node/idlecert.go) has a set of new    *)
(* idle files certified, ReplaceIdle (node/idlerepl.go) gives certified    *)
(* files back for stored data, GenIdle (node/idlegen.go) makes new files,  *)
(* CheckPois (node/node.go) recovers the prover after a start.  The first  *)
(* two run at the same time and share the prover and MinerPoisInfo.        *)
(*                                                                         *)
(* Idle files are numbered; the certified space is the interval from front *)
(* (exclusive) to rear.  The chain, the prover and MinerPoisInfo each have *)
(* their own idea of it.  An accumulator value stands for the interval it  *)
(* covers, so a proof is the interval the prover had when it was made.     *)
(*                                                                         *)
(* The prover (cess_pois), the TEE and the chain are external, modelled    *)
(* from their use: the prover has one accumulator update open at a time    *)
(* ("other programs are updating the data of the prover object"), which    *)
(* UpdateStatus closes and AccRollback undoes if it is of the given kind;  *)
(* SyncChainPoisStatus takes over the chain's interval; the TEE accepts a  *)
(* proof for the interval in the signed request; the chain accepts a       *)
(* TEE's status for the interval it has.  A query and the comparison that  *)
(* follows it are one step.  The miner is positive: in other states CertIdle*)
(* and GenIdle return at once.                                             *)
(***************************************************************************)
EXTENDS Integers, FiniteSets

CONSTANTS E,          \* acc.DEFAULT_ELEMS_NUM: files of a set
          Declared,   \* declared space, in files
          Config,     \* ReadUseSpace, in files
          Disk,       \* capacity of the disk, in files
          MaxRepl,    \* bound: files ever to be replaced
          MaxFails,   \* bound: failures of queries, TEEs, extrinsics and local operations
          MaxCrashes, \* bound: crashes of the miner process
          MaxChals    \* bound: idle challenges opened

ASSUME ConstantAssumption ==
  /\ E \in Nat \ {0}
  /\ {Declared, Config, Disk, MaxRepl, MaxFails, MaxCrashes, MaxChals} \subseteq Nat

VARIABLES
  chn,       \* chain: the certified interval
  repl,      \* chain: files to be replaced (PendingReplacements)
  asked,     \* bound counter: files ever asked to be replaced
  late,      \* extrinsics given up by the client that may still get into a block
  prv,       \* prover: interval
  com,       \* prover: files up to this one are committed
  acc,       \* prover: the open accumulator update
  gen,       \* disk: the last generated idle file
  del,       \* disk: the last deleted idle file
  chal,      \* chain: front of the open challenge's interval, or None
  held,      \* prover: front of the interval of SetChallengeState, or None
  pois,      \* MinerPoisInfo: interval, and the interval its signature is for
  valid,     \* runstatus: certified space at the last syncMinerStatus
  check,     \* the CheckPois flag
  c,         \* CertIdle: position and locals
  r,         \* ReplaceIdle: position and locals
  left,      \* history: an update was left open by a return without rollback
  unseen,    \* history: an extrinsic got into a block unknown to its sender
  fails, crashes, chals    \* bound counters

chain == <<chn, repl, asked, late>>
prover == <<prv, com, acc>>
disk == <<gen, del>>
challenge == <<chal, held, chals>>
history == <<left, unseen, crashes>>
vars == <<chn, repl, asked, late, prv, com, acc, gen, del, chal, held, pois, valid, check,
          c, r, left, unseen, fails, crashes, chals>>

None == -1
Update == {"none", "commit", "delete"}
Interval == [front : Nat, rear : Nat]
Iv(f, b) == [front |-> f, rear |-> b]
Zero == Iv(0, 0)
PoisInfo == [iv : Interval, sig : Interval]

CertPc == {"off", "wait", "query", "commit", "tee", "prove", "load", "sign", "verify", "submit",
           "settle", "update", "store"}
ReplPc == {"off", "prove", "query", "sign", "verify", "submit", "update", "finish"}
\* iv: the interval read from the chain, later the status signed by the TEE;
\* base: the interval of the proof; info: MinerPoisInfo as signed in the request;
\* num: the files to replace.
CertLocal == [pc : CertPc, iv : Interval, base : Interval, info : PoisInfo, num : Nat]
ReplLocal == [pc : ReplPc, iv : Interval, base : Interval, info : PoisInfo, num : Nat]
Off == [pc |-> "off", iv |-> Zero, base |-> Zero, info |-> [iv |-> Zero, sig |-> Zero], num |-> 0]

\* What an extrinsic carries: the interval it replaces and the new one.
Extrinsic == [base : Interval, new : Interval]

ChainType == chn \in Interval /\ repl \in Nat /\ asked \in 0..MaxRepl /\ late \subseteq Extrinsic
ProverType == prv \in Interval /\ com \in Int /\ acc \in Update
DiskType == gen \in Nat /\ del \in Nat
ChallengeType == chal \in Nat \cup {None} /\ held \in Nat \cup {None} /\ chals \in 0..MaxChals
StatusType == pois \in PoisInfo /\ valid \in Int /\ check \in BOOLEAN
TaskType == c \in CertLocal /\ r \in ReplLocal
HistoryType == left \in BOOLEAN /\ unseen \in BOOLEAN
BoundType == fails \in 0..MaxFails /\ crashes \in 0..MaxCrashes
TypeOK ==
  /\ ChainType /\ ProverType /\ DiskType /\ ChallengeType /\ StatusType /\ TaskType
  /\ HistoryType /\ BoundType

\* A registered miner with a certified set, part of it replaced already, starts:
\* checkMiner has read the chain.
Init ==
  /\ \E f \in 0..(E - 1) : chn = Iv(f, E) /\ del = f
  /\ repl = 0 /\ asked = 0 /\ late = {}
  /\ prv = Zero /\ com = 0 /\ acc = "none"
  /\ gen = E /\ chal = None /\ held = None
  /\ pois = [iv |-> chn, sig |-> chn] /\ valid = 0 /\ check = TRUE
  /\ c = Off /\ r = Off
  /\ left = FALSE /\ unseen = FALSE /\ fails = 0 /\ crashes = 0 /\ chals = 0
-----------------------------------------------------------------------------
(* The external parts. *)

Failure == fails < MaxFails /\ fails' = fails + 1
NoFailure == fails' = fails

\* CommitRollback, AccRollback(false): the prover is back before the commit.
AccRollbackCommit ==
  /\ com' = prv.rear /\ acc' = IF acc = "commit" THEN "none" ELSE acc
  /\ prv' = prv

\* AccRollback(true)
AccRollbackDelete ==
  /\ acc' = IF acc = "delete" THEN "none" ELSE acc
  /\ UNCHANGED <<prv, com>>

\* SyncChainPoisStatus(iv.front, iv.rear)
SyncChainPoisStatus(iv) ==
  prv' = iv /\ com' = (IF com < iv.rear THEN iv.rear ELSE com) /\ acc' = acc

\* The chain takes a status signed for the interval it has, which replaces no more
\* than is to be replaced.
Accepts(x) == chn = x.base /\ x.new.front - x.base.front <= repl
Take(x) ==
  /\ chn' = x.new
  /\ repl' = repl - (x.new.front - x.base.front)

\* An extrinsic: in a block and reported; in a block but reported as failed;
\* given up, and possibly in a block later; lost or refused.
SentOk(x) == Accepts(x) /\ Take(x) /\ UNCHANGED <<asked, late, unseen, fails>>
SentFails(x) ==
  \/ Failure /\ Accepts(x) /\ Take(x) /\ unseen' = TRUE /\ UNCHANGED <<asked, late>>
  \/ Failure /\ late' = late \cup {x} /\ UNCHANGED <<chn, repl, asked, unseen>>
  \/ Failure /\ UNCHANGED <<chain, unseen>>
  \/ ~Accepts(x) /\ UNCHANGED <<chain, unseen, fails>>

\* A late extrinsic gets into a block, or is dropped.
LateExtrinsic ==
  \E x \in late :
    /\ late' = late \ {x}
    /\ \/ Accepts(x) /\ Take(x) /\ unseen' = TRUE
       \/ UNCHANGED <<chn, repl, unseen>>
    /\ UNCHANGED <<asked, prover, disk, challenge, pois, valid, check, c, r, left, fails, crashes>>

\* The TEE: the request was not changed after signing, the signature in it is for
\* the interval in it, and the proof is for that interval.
TeeAccepts(x) ==
  /\ pois = x.info
  /\ pois.iv = pois.sig /\ pois.iv = x.base

\* Data is stored on the miner: idle files are to be replaced.
AskReplacement ==
  \E n \in 1..(MaxRepl - asked) :
    /\ repl + n <= chn.rear - chn.front
    /\ repl' = repl + n /\ asked' = asked + n
    /\ UNCHANGED <<chn, late, prover, disk, challenge, pois, valid, check, c, r, history, fails>>

\* A challenge takes a snapshot of the interval; it is closed again.
OpenChallenge ==
  /\ chal = None /\ chals < MaxChals
  /\ chal' = chn.front /\ chals' = chals + 1
  /\ UNCHANGED <<held, chain, prover, disk, pois, valid, check, c, r, history, fails>>
CloseChallenge ==
  /\ chal # None /\ chal' = None
  /\ UNCHANGED <<held, chals, chain, prover, disk, pois, valid, check, c, r, history, fails>>
\* The idle challenge's worker tells the prover of the challenge as well.
HoldChallenge ==
  /\ chal # None /\ held # chal /\ held' = chal
  /\ UNCHANGED <<chal, chals, chain, prover, disk, pois, valid, check, c, r, history, fails>>
-----------------------------------------------------------------------------
(* Start, GenIdle and syncMinerStatus. *)

\* CheckPois recovers the prover from MinerPoisInfo.
CheckPois ==
  /\ check /\ check' = FALSE
  /\ prv' = pois.iv /\ com' = pois.iv.rear /\ acc' = acc
  /\ UNCHANGED <<chain, disk, challenge, pois, valid, c, r, history, fails>>

\* syncMinerStatus keeps the certified space for GenIdle.
SyncSpace ==
  /\ valid # chn.rear - chn.front /\ valid' = chn.rear - chn.front
  /\ UNCHANGED <<chain, prover, disk, challenge, pois, check, c, r, history, fails>>

minSpace == 2 * E

\* The guards of GenIdle and GenerateIdleFileSet.  A failed generation changes nothing.
GenIdle ==
  /\ ~check
  /\ valid < Declared
  /\ Config >= minSpace /\ valid <= Config - minSpace
  /\ Disk - (gen - del) >= minSpace
  /\ gen' = gen + E
  /\ UNCHANGED <<chain, prover, del, challenge, pois, valid, check, c, r, history, fails>>
-----------------------------------------------------------------------------
(* CertIdle. *)

CertGoto(l) == c' = [c EXCEPT !.pc = l]
CertReturn == c' = Off

\* CertIdle is started; attestationidle waits for a complete set.
CertStart ==
  /\ c.pc = "off" /\ ~check /\ CertGoto("wait")
  /\ UNCHANGED <<chain, prover, disk, challenge, pois, valid, check, r, history, fails>>

CommitDataIsReady == gen - com >= E
CertReady ==
  /\ c.pc = "wait" /\ CommitDataIsReady /\ CertGoto("query")
  /\ UNCHANGED <<chain, prover, disk, challenge, pois, valid, check, r, history, fails>>

\* QueryMinerItems; the prover catches up with the chain's rear.
CertQuery ==
  /\ c.pc = "query" /\ UNCHANGED <<chain, disk, challenge, pois, valid, check, r, history>>
  /\ \/ Failure /\ CertGoto("wait") /\ UNCHANGED prover
     \/ /\ NoFailure /\ c' = [c EXCEPT !.pc = "commit", !.iv = chn]
        /\ IF chn.rear > prv.rear THEN SyncChainPoisStatus(chn) ELSE UNCHANGED prover
     \/ Failure /\ chn.rear > prv.rear /\ CertReturn /\ UNCHANGED prover

\* GetIdleFileSetCommits
CertCommit ==
  /\ c.pc = "commit" /\ UNCHANGED <<chain, prv, acc, disk, challenge, pois, valid, check, r, history>>
  /\ \/ NoFailure /\ CommitDataIsReady /\ com' = com + E /\ CertGoto("tee")
     \/ NoFailure /\ ~CommitDataIsReady /\ com' = com /\ CertReturn
     \/ Failure /\ com' = com /\ CertReturn

\* Fault variant: no CommitRollback when no TEE answers.
CertTeeKeepsCommit ==
  /\ c.pc = "tee" /\ UNCHANGED <<chain, prover, disk, challenge, pois, valid, check, r, history>>
  /\ \/ NoFailure /\ CertGoto("prove")
     \/ Failure /\ CertReturn

\* RequestMinerCommitGenChall at the TEEs in turn.
CertTee ==
  /\ c.pc = "tee" /\ UNCHANGED <<chain, disk, challenge, pois, valid, check, r, history>>
  /\ \/ NoFailure /\ CertGoto("prove") /\ UNCHANGED prover
     \/ Failure /\ AccRollbackCommit /\ CertReturn

\* ProveCommitAndAcc fails, or finds another update open and returns nothing.
CertProve ==
  /\ c.pc = "prove" /\ UNCHANGED <<chain, disk, challenge, pois, valid, check, r, history>>
  /\ \/ /\ NoFailure /\ acc = "none" /\ acc' = "commit" /\ UNCHANGED <<prv, com>>
        /\ c' = [c EXCEPT !.pc = "load", !.base = prv]
     \/ NoFailure /\ acc # "none" /\ AccRollbackCommit /\ CertReturn
     \/ Failure /\ AccRollbackCommit /\ CertReturn

\* MinerPoisInfo is loaded from the first answer, or from a second one when the
\* prover's front is another.  A failure of the second query returns as it is.
CertLoad ==
  /\ c.pc = "load" /\ UNCHANGED <<chain, prover, disk, challenge, valid, check, r, unseen, crashes>>
  /\ \/ /\ NoFailure /\ left' = left
        /\ LET iv == IF c.iv.front = prv.front THEN c.iv ELSE chn
           IN pois' = [pois EXCEPT !.iv = iv] /\ c' = [c EXCEPT !.pc = "sign", !.iv = iv]
     \/ /\ c.iv.front # prv.front /\ Failure
        /\ left' = TRUE /\ CertReturn /\ pois' = pois

\* The signature is the last field to be loaded; the request is marshalled and signed.
CertSign ==
  /\ c.pc = "sign" /\ pois' = [pois EXCEPT !.sig = c.iv]
  /\ c' = [c EXCEPT !.pc = "verify", !.info = pois']
  /\ UNCHANGED <<chain, prover, disk, challenge, valid, check, r, history, fails>>

\* Fault variant: no AccRollback when the TEE refuses.
CertVerifyKeepsAcc ==
  /\ c.pc = "verify" /\ UNCHANGED <<chain, prover, disk, challenge, pois, valid, check, r, history>>
  /\ \/ /\ NoFailure /\ TeeAccepts(c)
        /\ c' = [c EXCEPT !.pc = "submit", !.iv = Iv(c.base.front, c.base.rear + E)]
     \/ NoFailure /\ ~TeeAccepts(c) /\ CertReturn
     \/ Failure /\ CertReturn

\* RequestVerifyCommitProof, with its tries, and the checks of its answer.  An answer
\* without a status, or whose second signature is short, is not checked: the copying
\* panics, and the deferred function of CertIdle does not roll back.
CertVerify ==
  /\ c.pc = "verify"
  /\ UNCHANGED <<chain, disk, challenge, pois, valid, check, r, unseen, crashes>>
  /\ \/ /\ NoFailure /\ TeeAccepts(c) /\ UNCHANGED <<prover, left>>
        /\ c' = [c EXCEPT !.pc = "submit", !.iv = Iv(c.base.front, c.base.rear + E)]
     \/ NoFailure /\ ~TeeAccepts(c) /\ AccRollbackCommit /\ left' = left /\ CertReturn
     \/ Failure /\ AccRollbackCommit /\ left' = left /\ CertReturn
     \/ Failure /\ UNCHANGED prover /\ left' = TRUE /\ CertReturn

\* CertIdleSpace
Status(x) == [base |-> x.base, new |-> x.iv]
CertSubmit ==
  /\ c.pc = "submit"
  /\ \/ SentOk(Status(c)) /\ CertGoto("update")
     \/ SentFails(Status(c)) /\ CertGoto("settle")
  /\ UNCHANGED <<prover, disk, challenge, pois, valid, check, r, left, crashes>>

\* Fault variant: < for <= in the comparison of the rears.
CertSettleOffByOne ==
  /\ c.pc = "settle" /\ UNCHANGED <<chain, disk, challenge, pois, valid, check, r, history>>
  /\ \/ NoFailure /\ chn.rear >= prv.rear /\ CertGoto("update") /\ UNCHANGED prover
     \/ NoFailure /\ chn.rear < prv.rear /\ AccRollbackCommit /\ CertReturn
     \/ Failure /\ AccRollbackCommit /\ CertReturn

\* After two blocks the chain tells whether the extrinsic was in one all the same.
CertSettle ==
  /\ c.pc = "settle" /\ UNCHANGED <<chain, disk, challenge, pois, valid, check, r, history>>
  /\ \/ NoFailure /\ chn.rear > prv.rear /\ CertGoto("update") /\ UNCHANGED prover
     \/ NoFailure /\ chn.rear <= prv.rear /\ AccRollbackCommit /\ CertReturn
     \/ Failure /\ AccRollbackCommit /\ CertReturn

\* UpdateStatus(DEFAULT_ELEMS_NUM, false)
CertUpdate ==
  /\ c.pc = "update" /\ UNCHANGED <<chain, disk, challenge, pois, valid, check, r, unseen, crashes>>
  /\ \/ /\ NoFailure /\ prv' = [prv EXCEPT !.rear = @ + E] /\ com' = com
        /\ acc' = "none" /\ CertGoto("store") /\ left' = left
     \/ Failure /\ CertReturn /\ left' = TRUE /\ UNCHANGED prover

\* MinerPoisInfo takes the TEE's status; the loop goes on.
CertStore ==
  /\ c.pc = "store" /\ pois' = [iv |-> c.iv, sig |-> c.iv]
  /\ c' = [Off EXCEPT !.pc = "wait"]
  /\ UNCHANGED <<chain, prover, disk, challenge, valid, check, r, history, fails>>
-----------------------------------------------------------------------------
(* ReplaceIdle.  It does not look at the CheckPois flag. *)

ReplGoto(l) == r' = [r EXCEPT !.pc = l]
ReplReturn == r' = Off

\* The files of the prover's current set bound the number.
ReplNumber == LET room == E - (prv.front % E) IN IF repl > room THEN room ELSE repl

\* QueryPendingReplacements
ReplStart ==
  /\ r.pc = "off" /\ repl > 0
  /\ r' = [Off EXCEPT !.pc = "prove", !.num = ReplNumber]
  /\ UNCHANGED <<chain, prover, disk, challenge, pois, valid, check, c, history, fails>>

\* ProveDeletion fails, or finds another update open and returns nothing.
Deletable == acc = "none" /\ prv.rear - prv.front >= r.num
ReplProve ==
  /\ r.pc = "prove" /\ UNCHANGED <<chain, disk, challenge, pois, valid, check, c, history>>
  /\ \/ /\ NoFailure /\ Deletable /\ acc' = "delete" /\ UNCHANGED <<prv, com>>
        /\ r' = [r EXCEPT !.pc = "query", !.base = prv]
     \/ NoFailure /\ ~Deletable /\ AccRollbackDelete /\ ReplReturn
     \/ Failure /\ AccRollbackDelete /\ ReplReturn

\* QueryMinerItems; the prover catches up with the chain's front.
ReplQuery ==
  /\ r.pc = "query" /\ UNCHANGED <<chain, disk, challenge, valid, check, c, history>>
  /\ \/ /\ NoFailure /\ pois' = [pois EXCEPT !.iv = chn]
        /\ r' = [r EXCEPT !.pc = "sign", !.iv = chn]
        /\ IF chn.front > prv.front THEN SyncChainPoisStatus(chn) ELSE UNCHANGED prover
     \/ Failure /\ AccRollbackDelete /\ ReplReturn /\ pois' = pois

ReplSign ==
  /\ r.pc = "sign" /\ pois' = [pois EXCEPT !.sig = r.iv]
  /\ r' = [r EXCEPT !.pc = "verify", !.info = pois']
  /\ UNCHANGED <<chain, prover, disk, challenge, valid, check, c, history, fails>>

\* RequestVerifyDeletionProof at the TEEs in turn, and the checks of the answer,
\* which let the same malformed ones through to a panic.
ReplVerify ==
  /\ r.pc = "verify"
  /\ UNCHANGED <<chain, disk, challenge, pois, valid, check, c, unseen, crashes>>
  /\ \/ /\ NoFailure /\ TeeAccepts(r) /\ UNCHANGED <<prover, left>>
        /\ r' = [r EXCEPT !.pc = "submit", !.iv = Iv(r.base.front + r.num, r.base.rear)]
     \/ NoFailure /\ ~TeeAccepts(r) /\ AccRollbackDelete /\ left' = left /\ ReplReturn
     \/ Failure /\ AccRollbackDelete /\ left' = left /\ ReplReturn
     \/ Failure /\ UNCHANGED prover /\ left' = TRUE /\ ReplReturn

\* ReplaceIdleSpace.  Any error rolls back.
ReplSubmit ==
  /\ r.pc = "submit"
  /\ \/ SentOk(Status(r)) /\ ReplGoto("update") /\ UNCHANGED prover
     \/ SentFails(Status(r)) /\ AccRollbackDelete /\ ReplReturn
  /\ UNCHANGED <<disk, challenge, pois, valid, check, c, left, crashes>>

\* Fault variant: the rear is moved, as for a commit.
ReplUpdateRear ==
  /\ r.pc = "update" /\ ReplGoto("finish")
  /\ NoFailure /\ prv' = [prv EXCEPT !.rear = @ + r.num] /\ com' = com
  /\ acc' = "none" /\ left' = left
  /\ UNCHANGED <<chain, disk, challenge, pois, valid, check, c, unseen, crashes>>

\* UpdateStatus(num, true); an error is logged only.
ReplUpdate ==
  /\ r.pc = "update" /\ ReplGoto("finish")
  /\ \/ /\ NoFailure /\ prv' = [prv EXCEPT !.front = @ + r.num] /\ com' = com
        /\ acc' = "none" /\ left' = left
     \/ Failure /\ UNCHANGED prover /\ left' = TRUE
  /\ UNCHANGED <<chain, disk, challenge, pois, valid, check, c, unseen, crashes>>

\* DeleteFiles leaves the files of the challenge state alone.
Deleted(h) == IF h # None /\ h < prv.front THEN h ELSE prv.front
\* Fault variant: the prover is not told.
ReplFinishUntold ==
  /\ r.pc = "finish" /\ ReplReturn
  /\ NoFailure /\ del' = IF Deleted(held) > del THEN Deleted(held) ELSE del
  /\ UNCHANGED <<chain, prover, gen, challenge, pois, valid, check, c, history>>

\* The prover is told of an open challenge before the files are deleted.
ReplFinish ==
  /\ r.pc = "finish" /\ ReplReturn
  /\ UNCHANGED <<chain, prover, gen, chal, chals, pois, valid, check, c, history>>
  /\ \/ /\ NoFailure /\ held' = IF chal # None THEN chal ELSE held
        /\ del' = IF Deleted(held') > del THEN Deleted(held') ELSE del
     \/ Failure /\ UNCHANGED <<held, del>>
-----------------------------------------------------------------------------
\* The process is killed and started again: checkMiner reads the chain.
Crash ==
  /\ crashes < MaxCrashes /\ crashes' = crashes + 1
  /\ prv' = Zero /\ com' = 0 /\ acc' = "none" /\ held' = None
  /\ pois' = [iv |-> chn, sig |-> chn] /\ valid' = 0 /\ check' = TRUE
  /\ c' = Off /\ r' = Off /\ left' = FALSE
  /\ unseen' = (late # {})
  /\ UNCHANGED <<chain, disk, chal, chals, fails>>

CertStep ==
  \/ CertStart \/ CertReady \/ CertQuery \/ CertCommit \/ CertTee \/ CertProve \/ CertLoad
  \/ CertSign \/ CertVerify \/ CertSubmit \/ CertSettle \/ CertUpdate \/ CertStore
ReplStep ==
  \/ ReplStart \/ ReplProve \/ ReplQuery \/ ReplSign \/ ReplVerify \/ ReplSubmit
  \/ ReplUpdate \/ ReplFinish
Environment == \/ LateExtrinsic \/ AskReplacement \/ OpenChallenge \/ CloseChallenge \/ HoldChallenge
               \/ SyncSpace \/ GenIdle
Next == CertStep \/ ReplStep \/ CheckPois \/ Environment \/ Crash

Spec == Init /\ [][Next]_vars

\* Node.Start starts the tasks again and again, goroutines run, CheckPois ends, a
\* late extrinsic is decided.
Fairness ==
  /\ WF_vars(CertStep) /\ WF_vars(ReplStep) /\ WF_vars(CheckPois) /\ WF_vars(LateExtrinsic)
FairSpec == Spec /\ Fairness
-----------------------------------------------------------------------------
(* Properties. *)

CertOpen == {"load", "sign", "verify", "submit", "settle", "update"}
ReplOpen == {"query", "sign", "verify", "submit", "update"}

\* The prover's accumulator update is open only while the goroutine that opened it
\* is on its way to close it: every error path of CertIdle and ReplaceIdle rolls
\* back, but for the failing second query, the failing UpdateStatus and the panic on a
\* malformed answer, which `left' records.
AccReleased ==
  /\ acc = "commit" => c.pc \in CertOpen \/ left
  /\ acc = "delete" => r.pc \in ReplOpen \/ left

\* Unless an extrinsic got into a block behind its sender's back, prover and chain
\* agree on the certified interval whenever neither has its extrinsic in a block and
\* the prover's update still to do.
Agreement ==
  ~check /\ ~unseen /\ ~left /\ c.pc \notin {"settle", "update"} /\ r.pc # "update"
    => prv = chn

\* The prover never counts a file as certified or as replaced that the chain does
\* not: it may lag behind an unseen extrinsic, but no mix of UpdateStatus and
\* SyncChainPoisStatus of the two goroutines counts a set twice.
NotAhead == prv.front <= chn.front /\ prv.rear <= chn.rear

\* Files of the open challenge's interval are never deleted, though a replacement
\* and a challenge can come in either order.
ChallengedFilesKept == chal # None => del <= chal

\* When failures have stopped, generated sets are certified, replacements are made
\* and prover and chain agree, or one of the recorded accidents has happened.
Settled == repl = 0 /\ chn.rear = gen /\ prv = chn
Settles == <>[](Settled \/ left \/ unseen)
-----------------------------------------------------------------------------
(* The inductive invariant behind the safety properties. *)

\* The interval the miner knows of: the prover's, or before CheckPois the one read
\* at the start.  The chain is at most one accepted extrinsic ahead of it, because
\* the extrinsics under way start at most there.
Known == IF check THEN pois.iv ELSE prv
Below(a, b) == a.front <= b.front /\ a.rear <= b.rear
Follows(b, a) ==
  \/ b.front = a.front /\ b.rear = a.rear + E
  \/ b.rear = a.rear /\ b.front > a.front

BeforeCheck ==
  /\ check => c.pc = "off" /\ r.pc \in {"off", "prove"} /\ prv = Zero
  /\ r.pc # "off" => r.num >= 1
Exclusive == (c.pc \in CertOpen => acc = "commit") /\ (r.pc \in ReplOpen => acc = "delete")
CertInv ==
  /\ c.pc \in CertOpen => c.base = prv
  /\ c.pc = "submit" => c.iv = Iv(c.base.front, c.base.rear + E)
  /\ c.pc = "update" => chn = Iv(prv.front, prv.rear + E)
ReplInv ==
  /\ r.pc \in ReplOpen => Below(r.base, prv)
  /\ r.pc = "submit" => r.iv = Iv(r.base.front + r.num, r.base.rear)
  /\ r.pc = "update" => chn = Iv(prv.front + r.num, prv.rear)
LateInv == \A x \in late : Below(x.base, Known) /\ Follows(x.new, x.base)
OneStep == chn = Known \/ Follows(chn, Known)
AgreeInv == chn # Known => unseen \/ left \/ c.pc = "update" \/ r.pc = "update"
DeletedInv == del <= chn.front /\ ChallengedFilesKept

IInv ==
  /\ TypeOK /\ BeforeCheck /\ Exclusive /\ AccReleased /\ CertInv /\ ReplInv
  /\ LateInv /\ OneStep /\ AgreeInv /\ DeletedInv
=============================================================================
