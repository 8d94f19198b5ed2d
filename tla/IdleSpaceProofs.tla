--------------------------- MODULE IdleSpaceProofs ---------------------------
(***************************************************************************)
(* The safety properties of IdleSpace, for every set size, disk and bound. *)
(*                                                                         *)
(* The proof rests on IInv.  Its heart is OneStep: the chain's interval is *)
(* Known, the one the miner knows of, or one accepted extrinsic ahead of   *)
(* it.  Extrinsics under way carry a base at most Known (LateInv), so the  *)
(* chain accepts one only when it is at Known itself.  Exclusive lets only *)
(* one of the two goroutines be between opening and closing an update.     *)
(***************************************************************************)
EXTENDS IdleSpace, TLAPS

\* What the sets of records hold, so that they need not be expanded below.
LEMMA IntervalFacts ==
  /\ Zero \in Interval /\ Zero.front = 0 /\ Zero.rear = 0
  /\ \A a, b \in Nat : Iv(a, b) \in Interval /\ Iv(a, b).front = a /\ Iv(a, b).rear = b
  /\ \A i \in Interval : i.front \in Nat /\ i.rear \in Nat /\ i = Iv(i.front, i.rear)
  BY DEF Interval, Iv, Zero

LEMMA PoisFacts ==
  /\ \A i, j \in Interval : [iv |-> i, sig |-> j] \in PoisInfo
  /\ \A p \in PoisInfo : p.iv \in Interval /\ p.sig \in Interval
  /\ \A p \in PoisInfo, i \in Interval : [p EXCEPT !.iv = i] \in PoisInfo
  /\ \A p \in PoisInfo, i \in Interval : [p EXCEPT !.sig = i] \in PoisInfo
  BY DEF PoisInfo

LEMMA ExtrinsicFacts ==
  /\ \A x \in Extrinsic : x.base \in Interval /\ x.new \in Interval
  /\ \A i, j \in Interval : [base |-> i, new |-> j] \in Extrinsic
  BY DEF Extrinsic

LEMMA CertFacts ==
  ASSUME NEW x \in CertLocal
  PROVE  /\ x.iv \in Interval /\ x.base \in Interval /\ x.num \in Nat /\ x.info \in PoisInfo
  BY DEF CertLocal

LEMMA ReplFacts ==
  ASSUME NEW x \in ReplLocal
  PROVE  /\ x.iv \in Interval /\ x.base \in Interval /\ x.num \in Nat /\ x.info \in PoisInfo
  BY DEF ReplLocal

LEMMA OffFacts ==
  /\ Off \in CertLocal /\ Off \in ReplLocal /\ [Off EXCEPT !.pc = "wait"] \in CertLocal
  /\ Off.pc = "off"
  BY DEF Off, CertLocal, ReplLocal, CertPc, ReplPc, Interval, PoisInfo, Zero, Iv

\* The types of the parts of the state that the steps compute with.
LEMMA Ground ==
  ASSUME TypeOK
  PROVE  /\ chn \in Interval /\ chn.front \in Nat /\ chn.rear \in Nat /\ chn = Iv(chn.front, chn.rear)
         /\ prv \in Interval /\ prv.front \in Nat /\ prv.rear \in Nat /\ prv = Iv(prv.front, prv.rear)
         /\ pois \in PoisInfo /\ pois.iv \in Interval /\ pois.sig \in Interval
         /\ c \in CertLocal /\ c.iv \in Interval /\ c.base \in Interval
         /\ c.info \in PoisInfo /\ c.num \in Nat /\ c.base.front \in Nat /\ c.base.rear \in Nat
         /\ r \in ReplLocal /\ r.iv \in Interval /\ r.base \in Interval /\ r.num \in Nat
         /\ r.info \in PoisInfo /\ r.base.front \in Nat /\ r.base.rear \in Nat
         /\ E \in Nat /\ E >= 1
<1>1. chn \in Interval /\ prv \in Interval /\ pois \in PoisInfo /\ c \in CertLocal /\ r \in ReplLocal
  BY DEF TypeOK, ChainType, ProverType, StatusType, TaskType
<1>2. /\ c.iv \in Interval /\ c.base \in Interval /\ c.num \in Nat /\ c.info \in PoisInfo
      /\ r.info \in PoisInfo /\ r.iv \in Interval /\ r.base \in Interval /\ r.num \in Nat
  BY <1>1, CertFacts, ReplFacts
<1>3. pois.iv \in Interval /\ pois.sig \in Interval
  BY <1>1, PoisFacts
<1>4. E \in Nat /\ E >= 1
  BY ConstantAssumption
<1> QED  BY <1>1, <1>2, <1>3, <1>4, IntervalFacts

-----------------------------------------------------------------------------
(* What each kind of step leaves of the invariant, whatever action takes it. *)

\* The parts of the state that the safety argument is about.
core == <<chn, late, prv, acc, check, c, r, left, unseen>>

\* The chain is never behind what the miner knows.
LEMMA KnownBelow ==
  ASSUME IInv
  PROVE  Known \in Interval /\ Below(Known, chn)
<1>1. TypeOK /\ (chn = Known \/ Follows(chn, Known))
  BY DEF IInv, OneStep
<1>2. Known \in Interval
  BY <1>1, Ground DEF Known
<1>3. Known.front \in Nat /\ Known.rear \in Nat
  BY <1>2, IntervalFacts
<1>4. Below(Known, chn)
  BY <1>1, <1>3, Ground DEF Below, Follows
<1> QED  BY <1>2, <1>4

\* Two intervals, each below the other, are the same.
LEMMA Antisymmetric ==
  ASSUME NEW i \in Interval, NEW j \in Interval, Below(i, j), Below(j, i)
  PROVE  i = j
<1>1. i.front = j.front /\ i.rear = j.rear
  BY IntervalFacts DEF Below
<1> QED  BY <1>1 DEF Interval

\* The chain is ahead of the prover while an update is still to be done.
LEMMA UpdateAhead ==
  ASSUME IInv, c.pc = "update" \/ r.pc = "update"
  PROVE  chn # prv /\ ~check
<1>1. ~check /\ (r.pc = "update" => r.num >= 1)
  BY DEF IInv, BeforeCheck
<1>2. TypeOK
  BY DEF IInv
<1>3. CASE c.pc = "update"
  <2>1. chn = Iv(prv.front, prv.rear + E)
    BY <1>3 DEF IInv, CertInv
  <2>2. chn.rear = prv.rear + E
    BY <2>1 DEF Iv
  <2> QED  BY <1>1, <1>2, <2>2, Ground
<1>4. CASE r.pc = "update"
  <2>1. chn = Iv(prv.front + r.num, prv.rear)
    BY <1>4 DEF IInv, ReplInv
  <2>2. chn.front = prv.front + r.num
    BY <2>1 DEF Iv
  <2> QED  BY <1>1, <1>2, <1>4, <2>2, Ground
<1> QED  BY <1>3, <1>4

\* A step that does not touch the core keeps it.
LEMMA Quiet ==
  ASSUME IInv, TypeOK', DeletedInv', UNCHANGED <<core, pois>>
  PROVE  IInv'
<1>1. BeforeCheck' /\ Exclusive' /\ AccReleased'
  BY DEF IInv, core, BeforeCheck, Exclusive, AccReleased
<1>2. CertInv' /\ ReplInv'
  BY DEF IInv, core, CertInv, ReplInv
<1>3. LateInv' /\ OneStep' /\ AgreeInv'
  BY DEF IInv, core, LateInv, OneStep, AgreeInv, Known
<1> QED  BY <1>1, <1>2, <1>3 DEF IInv

\* CertIdle is not, or no longer, between opening and closing its update.
LEMMA CertLeaves ==
  ASSUME IInv, TypeOK', ~check,
         c'.pc \notin CertOpen,
         acc' = acc \/ (acc = "commit" /\ acc' = "none"),
         left' = left \/ left' = TRUE,
         c.pc \in CertOpen => acc' # "commit" \/ left',
         c.pc = "update" => left',
         UNCHANGED <<chn, late, prv, check, r, unseen, del, chal>>
  PROVE  IInv'
<1>1. BeforeCheck'
  BY DEF IInv, BeforeCheck
<1>2. Exclusive'
  BY DEF IInv, Exclusive
<1>3. AccReleased'
  BY DEF IInv, AccReleased
<1>4. CertInv' /\ ReplInv'
  BY DEF IInv, CertInv, ReplInv, CertOpen
<1>5. LateInv' /\ OneStep'
  BY DEF IInv, LateInv, OneStep, Known
<1>6. AgreeInv' /\ DeletedInv'
  BY DEF IInv, AgreeInv, Known, DeletedInv, ChallengedFilesKept
<1> QED  BY <1>1, <1>2, <1>3, <1>4, <1>5, <1>6 DEF IInv

\* CertIdle goes on with its update open.
LEMMA CertStays ==
  ASSUME IInv, TypeOK', ~check,
         c.pc \in CertOpen, c.pc # "update", c'.pc \in CertOpen, c'.base = c.base,
         c'.pc = "submit" => c'.iv = Iv(c.base.front, c.base.rear + E),
         c'.pc = "update" => chn = Iv(prv.front, prv.rear + E),
         UNCHANGED <<chn, late, prv, acc, check, r, left, unseen, del, chal>>
  PROVE  IInv'
<1>1. BeforeCheck' /\ Exclusive' /\ AccReleased'
  BY DEF IInv, BeforeCheck, Exclusive, AccReleased
<1>2. CertInv' /\ ReplInv'
  BY DEF IInv, CertInv, ReplInv
<1>3. LateInv' /\ OneStep'
  BY DEF IInv, LateInv, OneStep, Known
<1>4. AgreeInv' /\ DeletedInv'
  BY DEF IInv, AgreeInv, Known, DeletedInv, ChallengedFilesKept
<1> QED  BY <1>1, <1>2, <1>3, <1>4 DEF IInv

\* ReplaceIdle is not, or no longer, between opening and closing its update.
LEMMA ReplLeaves ==
  ASSUME IInv, TypeOK', DeletedInv',
         r'.pc \notin ReplOpen,
         check => r'.pc \in {"off", "prove"},
         check => pois'.iv = pois.iv,
         r'.pc # "off" => r'.num >= 1,
         acc' = acc \/ (acc = "delete" /\ acc' = "none"),
         left' = left \/ left' = TRUE,
         r.pc \in ReplOpen => acc' # "delete" \/ left',
         r.pc = "update" => left',
         UNCHANGED <<chn, late, prv, check, c, unseen>>
  PROVE  IInv'
<1>1. BeforeCheck'
  BY DEF IInv, BeforeCheck
<1>2. Exclusive'
  BY DEF IInv, Exclusive
<1>3. AccReleased'
  BY DEF IInv, AccReleased
<1>4. CertInv' /\ ReplInv'
  BY DEF IInv, CertInv, ReplInv, ReplOpen
<1>5. LateInv' /\ OneStep'
  BY DEF IInv, LateInv, OneStep, Known
<1>6. AgreeInv'
  BY DEF IInv, AgreeInv, Known
<1> QED  BY <1>1, <1>2, <1>3, <1>4, <1>5, <1>6 DEF IInv

\* ReplaceIdle goes on with its update open.
LEMMA ReplStays ==
  ASSUME IInv, TypeOK', ~check,
         r.pc \in ReplOpen, r.pc # "update", r'.pc \in ReplOpen, r'.base = r.base, r'.num = r.num,
         r'.pc = "submit" => r'.iv = Iv(r.base.front + r.num, r.base.rear),
         r'.pc # "update",
         UNCHANGED <<chn, late, prv, acc, check, c, left, unseen, del, chal>>
  PROVE  IInv'
<1>1. BeforeCheck' /\ Exclusive' /\ AccReleased'
  BY DEF IInv, BeforeCheck, Exclusive, AccReleased, ReplOpen
<1>2. CertInv' /\ ReplInv'
  BY DEF IInv, CertInv, ReplInv
<1>3. LateInv' /\ OneStep'
  BY DEF IInv, LateInv, OneStep, Known
<1>4. AgreeInv' /\ DeletedInv'
  BY DEF IInv, AgreeInv, Known, DeletedInv, ChallengedFilesKept
<1> QED  BY <1>1, <1>2, <1>3, <1>4 DEF IInv

\* The prover takes over the chain's interval, by SyncChainPoisStatus, by the
\* UpdateStatus of an accepted extrinsic or at a start.
LEMMA Synced ==
  ASSUME IInv, Known' = chn, UNCHANGED <<chn, late>>
  PROVE  LateInv' /\ OneStep' /\ AgreeInv'
<1>1. \A x \in late : x.base \in Interval
  BY ExtrinsicFacts DEF IInv, TypeOK, ChainType
<1>2. LateInv'
  <2>1. SUFFICES ASSUME NEW x \in late PROVE Below(x.base, chn) /\ Follows(x.new, x.base)
    BY DEF LateInv
  <2>2. Below(x.base, Known) /\ Follows(x.new, x.base)
    BY DEF IInv, LateInv
  <2>3. x.base.front \in Nat /\ x.base.rear \in Nat /\ Known.front \in Nat /\ Known.rear \in Nat
    BY <1>1, KnownBelow, IntervalFacts
  <2>4. chn.front \in Nat /\ chn.rear \in Nat
    BY Ground DEF IInv
  <2> QED  BY <2>2, <2>3, <2>4, KnownBelow DEF Below
<1>3. OneStep' /\ AgreeInv'
  BY DEF OneStep, AgreeInv
<1> QED  BY <1>2, <1>3
-----------------------------------------------------------------------------
(* The environment, GenIdle and the start. *)

\* A late extrinsic that the chain accepts finds it at Known.
LEMMA LateExtrinsicStep == ASSUME IInv, LateExtrinsic PROVE IInv'
<1>1. PICK x \in late : /\ late' = late \ {x}
                        /\ \/ Accepts(x) /\ Take(x) /\ unseen' = TRUE
                           \/ UNCHANGED <<chn, repl, unseen>>
  BY DEF LateExtrinsic
<1>2. /\ UNCHANGED <<asked, prv, com, acc, gen, del, chal, held, chals, pois, valid, check, c, r>>
      /\ UNCHANGED <<left, fails, crashes>>
  BY DEF LateExtrinsic, prover, disk, challenge
<1>3. TypeOK /\ x \in Extrinsic /\ x.base \in Interval /\ x.new \in Interval /\ late \subseteq Extrinsic
  BY ExtrinsicFacts DEF IInv, TypeOK, ChainType
<1>4. /\ x.base.front \in Nat /\ x.base.rear \in Nat /\ x.new.front \in Nat /\ x.new.rear \in Nat
      /\ x.base = Iv(x.base.front, x.base.rear)
  BY <1>3, IntervalFacts
<1>5. TypeOK'
  <2>1. repl \in Nat /\ asked \in 0..MaxRepl
    BY <1>3 DEF TypeOK, ChainType
  <2>2. chn' \in Interval /\ repl' \in Nat
    BY <1>1, <1>3, <1>4, <2>1, Ground DEF Accepts, Take
  <2>3. ChainType'
    BY <1>1, <1>2, <1>3, <2>1, <2>2 DEF ChainType
  <2>4. ProverType' /\ DiskType' /\ ChallengeType' /\ StatusType' /\ TaskType' /\ BoundType'
    BY <1>2, <1>3 DEF TypeOK, ProverType, DiskType, ChallengeType, StatusType, TaskType, BoundType
  <2>5. HistoryType'
    BY <1>1, <1>2, <1>3, Zenon DEF TypeOK, HistoryType
  <2> QED  BY <2>3, <2>4, <2>5 DEF TypeOK
<1>6. CASE UNCHANGED <<chn, repl, unseen>>
  <2>1. BeforeCheck' /\ Exclusive' /\ AccReleased'
    BY <1>2, <1>6 DEF IInv, BeforeCheck, Exclusive, AccReleased
  <2>2. CertInv' /\ ReplInv'
    BY <1>2, <1>6 DEF IInv, CertInv, ReplInv
  <2>3. LateInv' /\ OneStep' /\ AgreeInv'
    BY <1>1, <1>2, <1>6 DEF IInv, LateInv, OneStep, AgreeInv, Known
  <2>4. DeletedInv'
    BY <1>2, <1>6 DEF IInv, DeletedInv, ChallengedFilesKept
  <2> QED  BY <1>5, <2>1, <2>2, <2>3, <2>4 DEF IInv
<1>7. CASE Accepts(x) /\ Take(x) /\ unseen' = TRUE
  <2>1. chn = Known /\ Follows(chn', Known)
    <3>1. Below(chn, Known) /\ Follows(x.new, x.base) /\ chn = x.base /\ chn' = x.new
      BY <1>3, <1>7 DEF IInv, LateInv, Accepts, Take
    <3>2. chn = Known
      BY <3>1, <1>3, Ground, KnownBelow, Antisymmetric
    <3> QED  BY <3>1, <3>2
  <2>2. c.pc # "update" /\ r.pc # "update"
    BY <2>1, UpdateAhead DEF Known
  <2>3. BeforeCheck' /\ Exclusive' /\ AccReleased'
    BY <1>2 DEF IInv, BeforeCheck, Exclusive, AccReleased
  <2>4. CertInv' /\ ReplInv'
    BY <1>2, <2>2 DEF IInv, CertInv, ReplInv
  <2>5. Known' = Known
    BY <1>2 DEF Known
  <2>6. LateInv' /\ OneStep' /\ AgreeInv'
    BY <1>1, <1>7, <2>1, <2>5 DEF IInv, LateInv, OneStep, AgreeInv
  <2>7. chn.front <= chn'.front
    <3>1. chn'.front \in Nat
      BY <1>5, IntervalFacts DEF TypeOK, ChainType
    <3> QED  BY <1>3, <2>1, <3>1, Ground DEF Follows
  <2>8. DeletedInv'
    <3>1. del \in Nat /\ chn'.front \in Nat
      BY <1>3, <1>5, IntervalFacts DEF TypeOK, DiskType, ChainType
    <3> QED  BY <1>2, <1>3, <2>7, <3>1, Ground DEF IInv, DeletedInv, ChallengedFilesKept
  <2> QED  BY <1>5, <2>3, <2>4, <2>6, <2>8 DEF IInv
<1> QED  BY <1>1, <1>6, <1>7

LEMMA AskReplacementStep == ASSUME IInv, AskReplacement PROVE IInv'
<1>1. PICK n \in 1..(MaxRepl - asked) : repl' = repl + n /\ asked' = asked + n
  BY DEF AskReplacement
<1>2. /\ UNCHANGED <<core, pois, com, gen, del, chal, held, chals, valid, fails, crashes>>
  BY DEF AskReplacement, core, prover, disk, challenge, history
<1>3. TypeOK
  BY DEF IInv
<1>4. ChainType'
  BY <1>1, <1>2, <1>3, ConstantAssumption DEF core, TypeOK, ChainType
<1>5. ProverType' /\ DiskType' /\ ChallengeType' /\ StatusType' /\ TaskType' /\ HistoryType' /\ BoundType'
  BY <1>2, <1>3
  DEF core, TypeOK, ProverType, DiskType, ChallengeType, StatusType, TaskType, HistoryType, BoundType
<1>6. DeletedInv'
  BY <1>2 DEF core, IInv, DeletedInv, ChallengedFilesKept
<1> QED  BY <1>2, <1>4, <1>5, <1>6, Quiet DEF TypeOK

LEMMA ChallengeStep ==
  ASSUME IInv, OpenChallenge \/ CloseChallenge \/ HoldChallenge
  PROVE  IInv'
<1>1. UNCHANGED <<core, pois, repl, asked, com, gen, del, valid, fails, crashes>>
  BY DEF OpenChallenge, CloseChallenge, HoldChallenge, core, chain, prover, disk, history
<1>2. TypeOK
  BY DEF IInv
<1>3. ChallengeType'
  BY <1>2, Ground, ConstantAssumption
  DEF OpenChallenge, CloseChallenge, HoldChallenge, TypeOK, ChallengeType, None
<1>4. ChainType' /\ ProverType' /\ DiskType' /\ StatusType' /\ TaskType' /\ HistoryType' /\ BoundType'
  BY <1>1, <1>2
  DEF core, TypeOK, ChainType, ProverType, DiskType, StatusType, TaskType, HistoryType, BoundType
<1>5. DeletedInv'
  BY <1>1, <1>2, Ground
  DEF OpenChallenge, CloseChallenge, HoldChallenge, core, IInv, DeletedInv, ChallengedFilesKept, None
<1> QED  BY <1>1, <1>3, <1>4, <1>5, Quiet DEF TypeOK

LEMMA GenerationStep == ASSUME IInv, SyncSpace \/ GenIdle PROVE IInv'
<1>1. UNCHANGED <<core, pois, repl, asked, com, del, chal, held, chals, fails, crashes>>
  BY DEF SyncSpace, GenIdle, core, chain, prover, disk, challenge, history
<1>2. TypeOK
  BY DEF IInv
<1>3. gen' \in Nat /\ valid' \in Int
  BY <1>2, Ground DEF SyncSpace, GenIdle, TypeOK, DiskType, StatusType, disk
<1>4. ChainType' /\ ProverType' /\ ChallengeType' /\ TaskType' /\ HistoryType' /\ BoundType'
  BY <1>1, <1>2 DEF core, TypeOK, ChainType, ProverType, ChallengeType, TaskType, HistoryType, BoundType
<1>5. DiskType' /\ StatusType'
  BY <1>1, <1>2, <1>3 DEF core, TypeOK, DiskType, StatusType
<1>6. DeletedInv'
  BY <1>1 DEF core, IInv, DeletedInv, ChallengedFilesKept
<1> QED  BY <1>1, <1>4, <1>5, <1>6, Quiet DEF TypeOK

LEMMA CheckPoisStep == ASSUME IInv, CheckPois PROVE IInv'
<1>1. /\ check /\ check' = FALSE /\ prv' = pois.iv /\ com' = pois.iv.rear
      /\ UNCHANGED <<chn, repl, asked, late, acc, gen, del, chal, held, chals, pois, valid, c, r>>
      /\ UNCHANGED <<left, unseen, fails, crashes>>
  BY DEF CheckPois, chain, disk, challenge, history
<1>2. TypeOK
  BY DEF IInv
<1>3. TypeOK'
  <2>1. ProverType'
    BY <1>1, <1>2, Ground, IntervalFacts DEF TypeOK, ProverType
  <2>2. StatusType'
    BY <1>1, <1>2, Zenon DEF TypeOK, StatusType
  <2>3. ChainType' /\ DiskType' /\ ChallengeType' /\ TaskType' /\ HistoryType' /\ BoundType'
    BY <1>1, <1>2 DEF TypeOK, ChainType, DiskType, ChallengeType, TaskType, HistoryType, BoundType
  <2> QED  BY <2>1, <2>2, <2>3 DEF TypeOK
<1>4. c.pc = "off" /\ r.pc \in {"off", "prove"} /\ Known' = Known
  BY <1>1 DEF IInv, BeforeCheck, Known
<1>5. BeforeCheck' /\ Exclusive' /\ AccReleased'
  BY <1>1, <1>4 DEF IInv, BeforeCheck, Exclusive, AccReleased
<1>6. CertInv' /\ ReplInv'
  BY <1>1, <1>4 DEF CertInv, ReplInv, CertOpen, ReplOpen
<1>7. LateInv' /\ OneStep' /\ AgreeInv' /\ DeletedInv'
  BY <1>1, <1>4 DEF IInv, LateInv, OneStep, AgreeInv, DeletedInv, ChallengedFilesKept
<1> QED  BY <1>3, <1>5, <1>6, <1>7 DEF IInv

LEMMA CrashStep == ASSUME IInv, Crash PROVE IInv'
<1>1. /\ crashes < MaxCrashes /\ crashes' = crashes + 1
      /\ prv' = Zero /\ com' = 0 /\ acc' = "none" /\ held' = None
      /\ pois' = [iv |-> chn, sig |-> chn] /\ valid' = 0 /\ check' = TRUE
      /\ c' = Off /\ r' = Off /\ left' = FALSE
      /\ UNCHANGED <<chn, repl, asked, late, gen, del, chal, chals, fails>>
  BY DEF Crash, chain, disk
<1>2. TypeOK
  BY DEF IInv
<1>3. TypeOK'
  <2>1. ProverType' /\ ChallengeType' /\ TaskType'
    BY <1>1, <1>2, IntervalFacts, OffFacts DEF TypeOK, ProverType, ChallengeType, TaskType, Update, None
  <2>2. pois' \in PoisInfo
    BY <1>1, <1>2, Ground, PoisFacts
  <2>3. StatusType'
    BY <1>1, <2>2, SMT DEF StatusType
  <2>4. HistoryType'
    BY <1>1, Zenon DEF Crash, HistoryType
  <2>5. BoundType'
    BY <1>1, <1>2, ConstantAssumption DEF TypeOK, BoundType
  <2>6. ChainType' /\ DiskType'
    BY <1>1, <1>2 DEF TypeOK, ChainType, DiskType
  <2> QED  BY <2>1, <2>3, <2>4, <2>5, <2>6 DEF TypeOK
<1>4. c'.pc = "off" /\ r'.pc = "off" /\ Known' = chn
  BY <1>1, OffFacts DEF Known
<1>5. BeforeCheck' /\ Exclusive' /\ AccReleased'
  BY <1>1, <1>4 DEF BeforeCheck, Exclusive, AccReleased, CertOpen, ReplOpen
<1>6. CertInv' /\ ReplInv'
  BY <1>4 DEF CertInv, ReplInv, CertOpen, ReplOpen
<1>7. LateInv' /\ OneStep' /\ AgreeInv'
  BY <1>1, <1>4, Synced
<1>8. DeletedInv'
  BY <1>1 DEF IInv, DeletedInv, ChallengedFilesKept
<1> QED  BY <1>3, <1>5, <1>6, <1>7, <1>8 DEF IInv
-----------------------------------------------------------------------------
(* CertIdle. *)

\* What a step of CertIdle has to keep of the types, besides what it leaves alone.
LEMMA CertTypes ==
  ASSUME TypeOK, chn' \in Interval, repl' \in Nat, late' \subseteq Extrinsic,
         prv' \in Interval, com' \in Int, acc' \in Update, pois' \in PoisInfo, c' \in CertLocal,
         left' \in BOOLEAN, unseen' \in BOOLEAN, fails' = fails \/ Failure,
         UNCHANGED <<asked, gen, del, chal, held, chals, valid, check, r, crashes>>
  PROVE  TypeOK'
<1>1. ChainType' /\ ProverType' /\ DiskType' /\ ChallengeType' /\ TaskType'
  BY DEF TypeOK, ChainType, ProverType, DiskType, ChallengeType, TaskType
<1>2. StatusType' /\ HistoryType'
  BY DEF TypeOK, StatusType, HistoryType
<1>3. BoundType'
  BY ConstantAssumption DEF TypeOK, BoundType, Failure
<1> QED  BY <1>1, <1>2, <1>3 DEF TypeOK

\* Rolling the commit back never disturbs ReplaceIdle's update.
LEMMA RollbackCommitFacts ==
  ASSUME TypeOK, AccRollbackCommit
  PROVE  /\ prv' = prv /\ com' \in Int /\ acc' \in Update /\ acc' # "commit"
         /\ acc' = acc \/ (acc = "commit" /\ acc' = "none")
  BY Ground DEF AccRollbackCommit, TypeOK, ProverType, Update

LEMMA Unprimed ==
  ASSUME TypeOK
  PROVE  /\ repl \in Nat /\ late \subseteq Extrinsic /\ com \in Int /\ acc \in Update
         /\ left \in BOOLEAN /\ unseen \in BOOLEAN /\ fails \in Nat
  BY ConstantAssumption DEF TypeOK, ChainType, ProverType, HistoryType, BoundType

\* The steps before the update is opened, but for CertQuery.
LEMMA CertBeforeStep ==
  ASSUME IInv, CertStart \/ CertReady \/ CertCommit \/ CertTee \/ CertStore
  PROVE  IInv'
<1>1. TypeOK
  BY DEF IInv
<1>2. /\ UNCHANGED <<chn, repl, asked, late, prv, gen, del, chal, held, chals, valid, check, r>>
      /\ UNCHANGED <<left, unseen, crashes>>
      /\ fails' = fails \/ Failure
  BY DEF CertStart, CertReady, CertCommit, CertTee, CertStore, chain, prover, disk, challenge,
         history, NoFailure, AccRollbackCommit
<1>3. /\ acc' = acc \/ (acc = "commit" /\ acc' = "none")
      /\ acc' \in Update /\ com' \in Int
  BY <1>1, Ground, RollbackCommitFacts, Unprimed
  DEF CertStart, CertReady, CertCommit, CertTee, CertStore, prover
<1>4. pois' \in PoisInfo
  BY <1>1, Ground, PoisFacts DEF CertStart, CertReady, CertCommit, CertTee, CertStore
<1>5. /\ c.pc \in {"off", "wait", "commit", "tee", "store"}
      /\ ~check
  BY DEF CertStart, CertReady, CertCommit, CertTee, CertStore, IInv, BeforeCheck
<1>6. \/ \E l \in {"wait", "query", "tee", "prove"} : c' = [c EXCEPT !.pc = l]
      \/ c' = Off \/ c' = [Off EXCEPT !.pc = "wait"]
  BY DEF CertStart, CertReady, CertCommit, CertTee, CertStore, CertGoto, CertReturn
<1>7. c' \in CertLocal
  BY <1>1, <1>6, Ground, OffFacts DEF CertLocal, CertPc
<1>8. c'.pc \in {"wait", "query", "tee", "prove", "off"}
  BY <1>1, <1>6, Ground, OffFacts DEF CertLocal
<1>9. TypeOK'
  BY <1>1, <1>2, <1>3, <1>4, <1>7, Ground, Unprimed, CertTypes
<1> QED  BY <1>2, <1>3, <1>5, <1>8, <1>9, CertLeaves DEF CertOpen

LEMMA CertQueryStep == ASSUME IInv, CertQuery PROVE IInv'
<1>1. TypeOK
  BY DEF IInv
<1>2. /\ UNCHANGED <<chn, repl, asked, late, gen, del, chal, held, chals, pois, valid, check, r>>
      /\ UNCHANGED <<acc, left, unseen, crashes>>
      /\ fails' = fails \/ Failure
  BY DEF CertQuery, chain, prover, disk, challenge, history, NoFailure, SyncChainPoisStatus
<1>3. \/ UNCHANGED <<prv, com>>
      \/ chn.rear > prv.rear /\ prv' = chn /\ com' \in Int
  BY <1>1, Ground, Unprimed DEF CertQuery, SyncChainPoisStatus, prover
<1>4. \/ c' = [c EXCEPT !.pc = "wait"] \/ c' = [c EXCEPT !.pc = "commit", !.iv = chn]
      \/ c' = Off
  BY DEF CertQuery, CertGoto, CertReturn
<1>5. c' \in CertLocal
  BY <1>1, <1>4, Ground, OffFacts DEF CertLocal, CertPc
<1>6. c'.pc \notin CertOpen
  BY <1>1, <1>4, Ground, OffFacts DEF CertLocal, CertOpen
<1>7. TypeOK'
  BY <1>1, <1>2, <1>3, <1>5, Ground, Unprimed, CertTypes
<1>8. c.pc = "query" /\ ~check
  BY DEF CertQuery, IInv, BeforeCheck
<1>9. CASE UNCHANGED <<prv, com>>
  BY <1>2, <1>6, <1>7, <1>8, <1>9, CertLeaves DEF CertOpen
<1>10. CASE chn.rear > prv.rear /\ prv' = chn
  <2>1. r.pc # "update"
    <3>1. r.pc = "update" => chn.rear = prv.rear
      BY <1>1, Ground DEF IInv, ReplInv, Iv
    <3> QED  BY <1>1, <1>10, <3>1, Ground
  <2>2. BeforeCheck' /\ Exclusive' /\ AccReleased'
    BY <1>2, <1>6, <1>8 DEF IInv, BeforeCheck, Exclusive, AccReleased, CertOpen
  <2>3. CertInv'
    BY <1>6 DEF CertInv, CertOpen
  <2>4. Below(prv, chn)
    BY <1>8, KnownBelow DEF Known
  <2>5. ReplInv'
    BY <1>1, <1>2, <1>10, <2>1, <2>4, Ground DEF IInv, ReplInv, Below
  <2>6. LateInv' /\ OneStep' /\ AgreeInv'
    BY <1>2, <1>8, <1>10, Synced DEF Known
  <2>7. DeletedInv'
    BY <1>2 DEF IInv, DeletedInv, ChallengedFilesKept
  <2> QED  BY <1>7, <2>2, <2>3, <2>5, <2>6, <2>7 DEF IInv
<1> QED  BY <1>3, <1>9, <1>10

\* ProveCommitAndAcc opens the update only when none is open.
LEMMA CertProveStep == ASSUME IInv, CertProve PROVE IInv'
<1>1. TypeOK
  BY DEF IInv
<1>2. /\ UNCHANGED <<chn, repl, asked, late, prv, gen, del, chal, held, chals, pois, valid, check, r>>
      /\ UNCHANGED <<left, unseen, crashes>>
      /\ fails' = fails \/ Failure
  BY DEF CertProve, chain, disk, challenge, history, NoFailure, AccRollbackCommit
<1>3. c.pc = "prove" /\ ~check
  BY DEF CertProve, IInv, BeforeCheck
<1>4. CASE AccRollbackCommit /\ CertReturn
  <2>1. c' \in CertLocal /\ c'.pc = "off"
    BY <1>4, OffFacts DEF CertReturn
  <2>2. TypeOK'
    BY <1>1, <1>2, <1>4, <2>1, Ground, Unprimed, RollbackCommitFacts, CertTypes
  <2> QED  BY <1>1, <1>2, <1>3, <1>4, <2>1, <2>2, RollbackCommitFacts, CertLeaves DEF CertOpen
<1>5. CASE /\ acc = "none" /\ acc' = "commit" /\ UNCHANGED <<prv, com>>
           /\ c' = [c EXCEPT !.pc = "load", !.base = prv]
  <2>1. c' \in CertLocal
    BY <1>1, <1>5, Ground DEF CertLocal, CertPc
  <2>2. c'.pc = "load" /\ c'.base = prv
    BY <1>1, <1>5, Ground DEF CertLocal
  <2>3. TypeOK'
    BY <1>1, <1>2, <1>5, <2>1, Ground, Unprimed, CertTypes DEF Update
  <2>4. BeforeCheck' /\ Exclusive' /\ AccReleased'
    BY <1>2, <1>3, <1>5, <2>2 DEF IInv, BeforeCheck, Exclusive, AccReleased, CertOpen
  <2>5. CertInv' /\ ReplInv'
    BY <1>2, <2>2 DEF IInv, CertInv, ReplInv
  <2>6. LateInv' /\ OneStep' /\ AgreeInv' /\ DeletedInv'
    BY <1>2, <1>3 DEF IInv, LateInv, OneStep, AgreeInv, Known, DeletedInv, ChallengedFilesKept
  <2> QED  BY <2>3, <2>4, <2>5, <2>6 DEF IInv
<1> QED  BY <1>4, <1>5 DEF CertProve

LEMMA CertLoadStep == ASSUME IInv, CertLoad PROVE IInv'
<1>1. TypeOK
  BY DEF IInv
<1>2. /\ UNCHANGED <<chn, repl, asked, late, prv, com, acc, gen, del, chal, held, chals, valid, check>>
      /\ UNCHANGED <<r, unseen, crashes>>
      /\ fails' = fails \/ Failure
  BY DEF CertLoad, chain, prover, disk, challenge, NoFailure
<1>3. c.pc = "load" /\ ~check
  BY DEF CertLoad, IInv, BeforeCheck
<1>4. CASE left' = TRUE /\ CertReturn /\ pois' = pois
  <2>1. c' \in CertLocal /\ c'.pc = "off"
    BY <1>4, OffFacts DEF CertReturn
  <2>2. TypeOK'
    BY <1>1, <1>2, <1>4, <2>1, Ground, Unprimed, CertTypes
  <2> QED  BY <1>2, <1>3, <1>4, <2>1, <2>2, CertLeaves DEF CertOpen
<1>5. CASE /\ left' = left
           /\ \E i \in {c.iv, chn} : /\ pois' = [pois EXCEPT !.iv = i]
                                     /\ c' = [c EXCEPT !.pc = "sign", !.iv = i]
  <2>1. PICK i \in Interval : /\ pois' = [pois EXCEPT !.iv = i]
                              /\ c' = [c EXCEPT !.pc = "sign", !.iv = i]
    BY <1>1, <1>5, Ground
  <2>2. c' \in CertLocal /\ c'.pc = "sign" /\ c'.base = c.base
    BY <1>1, <2>1, Ground DEF CertLocal, CertPc
  <2>3. pois' \in PoisInfo
    BY <1>1, <2>1, Ground DEF PoisInfo
  <2>4. TypeOK'
    BY <1>1, <1>2, <1>5, <2>2, <2>3, Ground, Unprimed, CertTypes
  <2> QED  BY <1>2, <1>3, <1>5, <2>2, <2>4, CertStays DEF CertOpen
<1> QED  BY <1>4, <1>5 DEF CertLoad

LEMMA CertSignStep == ASSUME IInv, CertSign PROVE IInv'
<1>1. TypeOK
  BY DEF IInv
<1>2. /\ UNCHANGED <<chn, repl, asked, late, prv, com, acc, gen, del, chal, held, chals, valid, check>>
      /\ UNCHANGED <<r, left, unseen, fails, crashes>>
  BY DEF CertSign, chain, prover, disk, challenge, history
<1>3. c.pc = "sign" /\ ~check
  BY DEF CertSign, IInv, BeforeCheck
<1>4. pois' \in PoisInfo
  BY <1>1, Ground DEF CertSign, PoisInfo
<1>5. c' \in CertLocal /\ c'.pc = "verify" /\ c'.base = c.base
  <2>1. c' = [c EXCEPT !.pc = "verify", !.info = pois']
    BY DEF CertSign
  <2> QED  BY <1>1, <1>4, <2>1, Ground DEF CertLocal, CertPc
<1>6. TypeOK'
  BY <1>1, <1>2, <1>4, <1>5, Ground, Unprimed, CertTypes
<1> QED  BY <1>2, <1>3, <1>5, <1>6, CertStays DEF CertOpen

LEMMA CertVerifyStep == ASSUME IInv, CertVerify PROVE IInv'
<1>1. TypeOK
  BY DEF IInv
<1>2. /\ UNCHANGED <<chn, repl, asked, late, gen, del, chal, held, chals, pois, valid, check>>
      /\ UNCHANGED <<r, unseen, crashes>>
      /\ fails' = fails \/ Failure
  BY DEF CertVerify, chain, disk, challenge, NoFailure
<1>3. c.pc = "verify" /\ ~check
  BY DEF CertVerify, IInv, BeforeCheck
<1>4. CASE AccRollbackCommit /\ left' = left /\ CertReturn
  <2>1. c' \in CertLocal /\ c'.pc = "off"
    BY <1>4, OffFacts DEF CertReturn
  <2>2. TypeOK'
    BY <1>1, <1>2, <1>4, <2>1, Ground, Unprimed, RollbackCommitFacts, CertTypes
  <2> QED  BY <1>1, <1>2, <1>3, <1>4, <2>1, <2>2, RollbackCommitFacts, CertLeaves
       DEF CertOpen
<1>5. CASE /\ UNCHANGED <<prover, left>>
           /\ c' = [c EXCEPT !.pc = "submit", !.iv = Iv(c.base.front, c.base.rear + E)]
  <2>1. Iv(c.base.front, c.base.rear + E) \in Interval
    BY <1>1, Ground DEF Interval, Iv
  <2>2. /\ c' \in CertLocal /\ c'.pc = "submit" /\ c'.base = c.base
        /\ c'.iv = Iv(c.base.front, c.base.rear + E)
    BY <1>1, <1>5, <2>1, Ground DEF CertLocal, CertPc
  <2>3. UNCHANGED <<prv, com, acc>>
    BY <1>5 DEF prover
  <2>4. TypeOK'
    BY <1>1, <1>2, <1>5, <2>2, <2>3, Ground, Unprimed, CertTypes
  <2> QED  BY <1>2, <1>3, <1>5, <2>2, <2>3, <2>4, CertStays DEF CertOpen
<1>6. CASE UNCHANGED prover /\ left' = TRUE /\ CertReturn
  <2>1. c' \in CertLocal /\ c'.pc = "off"
    BY <1>6, OffFacts DEF CertReturn
  <2>2. UNCHANGED <<prv, com, acc>>
    BY <1>6 DEF prover
  <2>3. TypeOK'
    BY <1>1, <1>2, <1>6, <2>1, <2>2, Ground, Unprimed, CertTypes
  <2> QED  BY <1>2, <1>3, <1>6, <2>1, <2>2, <2>3, CertLeaves DEF CertOpen
<1> QED  BY <1>4, <1>5, <1>6 DEF CertVerify

\* Sending an extrinsic: what the chain and the miner's view of it become.
LEMMA Sending ==
  ASSUME TypeOK, NEW x \in Extrinsic, SentOk(x) \/ SentFails(x)
  PROVE  /\ chn' \in Interval /\ repl' \in Nat /\ late' \subseteq Extrinsic
         /\ unseen' \in BOOLEAN /\ asked' = asked /\ (fails' = fails \/ Failure)
         /\ \/ chn = x.base /\ chn' = x.new /\ late' = late
            \/ chn' = chn /\ late' \subseteq late \cup {x}
         /\ SentOk(x) => chn = x.base /\ chn' = x.new
         /\ SentFails(x) /\ chn' # chn => unseen'
         /\ unseen => unseen'
<1>1. repl \in Nat /\ late \subseteq Extrinsic /\ unseen \in BOOLEAN /\ x.new \in Interval
      /\ x.base \in Interval /\ chn \in Interval
  BY Unprimed, ExtrinsicFacts, Ground
<1>2. x.new.front \in Nat /\ x.base.front \in Nat
  BY <1>1, IntervalFacts
<1>3. CASE SentOk(x)
  <2>1. ~SentFails(x)
    BY <1>3, Unprimed DEF SentOk, SentFails, Failure
  <2> QED  BY <1>1, <1>2, <1>3, <2>1 DEF SentOk, Accepts, Take
<1>4. CASE SentFails(x) /\ UNCHANGED <<chn, repl, unseen>>
  <2>1. late' \subseteq late \cup {x} /\ asked' = asked /\ (fails' = fails \/ Failure)
    BY <1>4 DEF SentFails, chain
  <2> QED  BY <1>1, <1>4, <2>1 DEF SentOk, Take, Accepts
<1>5. CASE Failure /\ Accepts(x) /\ Take(x) /\ unseen' = TRUE /\ UNCHANGED <<asked, late>>
  BY <1>1, <1>2, <1>5 DEF Accepts, Take
<1> QED  BY <1>3, <1>4, <1>5 DEF SentFails, chain

\* Two extrinsics cannot be under way from the same base and both be accepted: the
\* second finds a chain that has gone on.
LEMMA CertSubmitStep == ASSUME IInv, CertSubmit PROVE IInv'
<1>1. TypeOK
  BY DEF IInv
<1> DEFINE x == Status(c)
<1>2. /\ UNCHANGED <<prv, com, acc, gen, del, chal, held, chals, pois, valid, check, r>>
      /\ UNCHANGED <<left, crashes>>
  BY DEF CertSubmit, prover, disk, challenge
<1>3. c.pc = "submit" /\ ~check /\ acc = "commit" /\ r.pc \notin ReplOpen
  BY DEF CertSubmit, IInv, BeforeCheck, Exclusive, CertOpen
<1>4. /\ x \in Extrinsic /\ x.base = prv /\ x.new = Iv(prv.front, prv.rear + E)
      /\ Follows(x.new, prv) /\ x.new.front = prv.front
  <2>1. c.base = prv /\ c.iv = Iv(prv.front, prv.rear + E)
    BY <1>3 DEF IInv, CertInv, CertOpen
  <2>2. x = [base |-> c.base, new |-> c.iv]
    BY DEF Status
  <2>3. x \in Extrinsic
    BY <1>1, <2>2, Ground, ExtrinsicFacts
  <2> QED  BY <1>1, <2>1, <2>2, <2>3, Ground DEF Follows, Iv
<1>5. SentOk(x) \/ SentFails(x)
  BY DEF CertSubmit
<1>6. \/ c' = [c EXCEPT !.pc = "update"] /\ SentOk(x)
      \/ c' = [c EXCEPT !.pc = "settle"] /\ SentFails(x)
  BY DEF CertSubmit, CertGoto
<1>7. c' \in CertLocal /\ c'.base = c.base /\ c'.pc \in {"update", "settle"}
  BY <1>1, <1>6, Ground DEF CertLocal, CertPc
<1>8. (c'.pc = "update" => SentOk(x)) /\ (c'.pc = "settle" => SentFails(x))
  BY <1>1, <1>6, Ground DEF CertLocal, CertPc
<1> HIDE DEF x
<1>9. TypeOK'
  <2>1. /\ chn' \in Interval /\ repl' \in Nat /\ late' \subseteq Extrinsic
        /\ unseen' \in BOOLEAN /\ asked' = asked /\ (fails' = fails \/ Failure)
    BY <1>1, <1>4, <1>5, Sending
  <2> QED  BY <1>1, <1>2, <1>7, <2>1, Ground, Unprimed, CertTypes
<1>10. Known = prv /\ Known' = prv
  BY <1>2, <1>3 DEF Known
<1>11. chn' = chn \/ (chn = prv /\ chn' = x.new)
  BY <1>1, <1>4, <1>5, Sending
<1>12. BeforeCheck' /\ Exclusive' /\ AccReleased'
  BY <1>2, <1>3, <1>7 DEF IInv, BeforeCheck, Exclusive, AccReleased, CertOpen
<1>13. CertInv'
  <2>1. c'.base = prv'
    BY <1>2, <1>3, <1>7 DEF IInv, CertInv, CertOpen
  <2>2. c'.pc = "update" => chn' = Iv(prv.front, prv.rear + E)
    BY <1>1, <1>4, <1>5, <1>8, Sending
  <2> QED  BY <1>2, <1>7, <2>1, <2>2 DEF CertInv
<1>14. ReplInv'
  BY <1>2, <1>3 DEF ReplInv, ReplOpen
<1>15. LateInv'
  <2>1. Below(prv, prv)
    BY <1>1, Ground DEF Below
  <2>2. late' \subseteq late \cup {x}
    BY <1>1, <1>4, <1>5, Sending
  <2> QED  BY <1>4, <1>10, <2>1, <2>2 DEF IInv, LateInv
<1>16. OneStep'
  BY <1>4, <1>10, <1>11 DEF IInv, OneStep
<1>17. AgreeInv'
  <2>1. chn' # chn => unseen' \/ c'.pc = "update"
    BY <1>1, <1>4, <1>5, <1>7, <1>8, Sending
  <2>2. unseen => unseen'
    BY <1>1, <1>4, <1>5, Sending
  <2> QED  BY <1>2, <1>3, <1>10, <2>1, <2>2 DEF IInv, AgreeInv
<1>18. DeletedInv'
  BY <1>2, <1>4, <1>11 DEF IInv, DeletedInv, ChallengedFilesKept
<1> QED  BY <1>9, <1>12, <1>13, <1>14, <1>15, <1>16, <1>17, <1>18 DEF IInv

LEMMA CertSettleStep == ASSUME IInv, CertSettle PROVE IInv'
<1>1. TypeOK
  BY DEF IInv
<1>2. /\ UNCHANGED <<chn, repl, asked, late, gen, del, chal, held, chals, pois, valid, check>>
      /\ UNCHANGED <<r, left, unseen, crashes>>
      /\ fails' = fails \/ Failure
  BY DEF CertSettle, chain, disk, challenge, history, NoFailure
<1>3. c.pc = "settle" /\ ~check
  BY DEF CertSettle, IInv, BeforeCheck
<1>4. CASE AccRollbackCommit /\ CertReturn
  <2>1. c' \in CertLocal /\ c'.pc = "off"
    BY <1>4, OffFacts DEF CertReturn
  <2>2. TypeOK'
    BY <1>1, <1>2, <1>4, <2>1, Ground, Unprimed, RollbackCommitFacts, CertTypes
  <2> QED  BY <1>1, <1>2, <1>3, <1>4, <2>1, <2>2, RollbackCommitFacts, CertLeaves
       DEF CertOpen
<1>5. CASE chn.rear > prv.rear /\ UNCHANGED prover /\ CertGoto("update")
  <2>1. c' \in CertLocal /\ c'.pc = "update" /\ c'.base = c.base
    BY <1>1, <1>5, Ground DEF CertGoto, CertLocal, CertPc
  <2>2. UNCHANGED <<prv, com, acc>>
    BY <1>5 DEF prover
  <2>3. TypeOK'
    BY <1>1, <1>2, <2>1, <2>2, Ground, Unprimed, CertTypes
  <2>4. chn = Iv(prv.front, prv.rear + E)
    <3>1. chn = prv \/ Follows(chn, prv)
      BY <1>3 DEF IInv, OneStep, Known
    <3>2. chn.front = prv.front /\ chn.rear = prv.rear + E
      BY <1>1, <1>5, <3>1, Ground DEF Follows
    <3> QED  BY <1>1, <3>2, Ground
  <2> QED  BY <1>2, <1>3, <2>1, <2>2, <2>3, <2>4, CertStays DEF CertOpen
<1> QED  BY <1>4, <1>5 DEF CertSettle

LEMMA CertUpdateStep == ASSUME IInv, CertUpdate PROVE IInv'
<1>1. TypeOK
  BY DEF IInv
<1>2. /\ UNCHANGED <<chn, repl, asked, late, gen, del, chal, held, chals, pois, valid, check>>
      /\ UNCHANGED <<com, r, unseen, crashes>>
      /\ fails' = fails \/ Failure
  BY DEF CertUpdate, chain, prover, disk, challenge, NoFailure
<1>3. c.pc = "update" /\ ~check /\ acc = "commit" /\ r.pc \notin ReplOpen
  BY DEF CertUpdate, IInv, BeforeCheck, Exclusive, CertOpen
<1>4. CASE CertReturn /\ left' = TRUE /\ UNCHANGED prover
  <2>1. c' \in CertLocal /\ c'.pc = "off"
    BY <1>4, OffFacts DEF CertReturn
  <2>2. UNCHANGED <<prv, acc>>
    BY <1>4 DEF prover
  <2>3. TypeOK'
    BY <1>1, <1>2, <1>4, <2>1, <2>2, Ground, Unprimed, CertTypes
  <2> QED  BY <1>2, <1>3, <1>4, <2>1, <2>2, <2>3, CertLeaves DEF CertOpen
<1>5. CASE /\ prv' = [prv EXCEPT !.rear = @ + E] /\ acc' = "none"
           /\ CertGoto("store") /\ left' = left
  <2>1. c' \in CertLocal /\ c'.pc = "store"
    BY <1>1, <1>5, Ground DEF CertGoto, CertLocal, CertPc
  <2>2. prv' = chn
    <3>1. chn = Iv(prv.front, prv.rear + E)
      BY <1>3 DEF IInv, CertInv
    <3> QED  BY <1>1, <1>5, <3>1, Ground DEF Interval, Iv
  <2>3. TypeOK'
    BY <1>1, <1>2, <1>5, <2>1, <2>2, Ground, Unprimed, CertTypes DEF Update
  <2>4. BeforeCheck' /\ Exclusive' /\ AccReleased'
    BY <1>2, <1>3, <1>5, <2>1 DEF IInv, BeforeCheck, Exclusive, AccReleased, CertOpen
  <2>5. CertInv' /\ ReplInv'
    BY <1>2, <1>3, <2>1 DEF CertInv, ReplInv, CertOpen, ReplOpen
  <2>6. LateInv' /\ OneStep' /\ AgreeInv'
    BY <1>2, <1>3, <2>2, Synced DEF Known
  <2>7. DeletedInv'
    BY <1>2 DEF IInv, DeletedInv, ChallengedFilesKept
  <2> QED  BY <2>3, <2>4, <2>5, <2>6, <2>7 DEF IInv
<1> QED  BY <1>4, <1>5 DEF CertUpdate
-----------------------------------------------------------------------------
(* ReplaceIdle. *)

LEMMA ReplTypes ==
  ASSUME TypeOK, chn' \in Interval, repl' \in Nat, late' \subseteq Extrinsic,
         prv' \in Interval, com' \in Int, acc' \in Update, pois' \in PoisInfo, r' \in ReplLocal,
         del' \in Nat, held' \in Nat \cup {None},
         left' \in BOOLEAN, unseen' \in BOOLEAN, fails' = fails \/ Failure,
         UNCHANGED <<asked, gen, chal, chals, valid, check, c, crashes>>
  PROVE  TypeOK'
<1>1. ChainType' /\ ProverType' /\ DiskType' /\ ChallengeType' /\ TaskType'
  BY DEF TypeOK, ChainType, ProverType, DiskType, ChallengeType, TaskType
<1>2. StatusType' /\ HistoryType'
  BY DEF TypeOK, StatusType, HistoryType
<1>3. BoundType'
  BY ConstantAssumption DEF TypeOK, BoundType, Failure
<1> QED  BY <1>1, <1>2, <1>3 DEF TypeOK

\* The same, for the steps that delete no files and hold no challenge.
LEMMA ReplTypesSame ==
  ASSUME TypeOK, chn' \in Interval, repl' \in Nat, late' \subseteq Extrinsic,
         prv' \in Interval, com' \in Int, acc' \in Update, pois' \in PoisInfo, r' \in ReplLocal,
         left' \in BOOLEAN, unseen' \in BOOLEAN, fails' = fails \/ Failure,
         UNCHANGED <<asked, gen, del, chal, held, chals, valid, check, c, crashes>>
  PROVE  TypeOK'
<1>1. del' \in Nat /\ held' \in Nat \cup {None}
  BY DEF TypeOK, DiskType, ChallengeType
<1> QED  BY <1>1, ReplTypes

LEMMA RollbackDeleteFacts ==
  ASSUME TypeOK, AccRollbackDelete
  PROVE  /\ prv' = prv /\ com' = com /\ acc' \in Update /\ acc' # "delete"
         /\ acc' = acc \/ (acc = "delete" /\ acc' = "none")
  BY DEF AccRollbackDelete, TypeOK, ProverType, Update

LEMMA DeletedSame ==
  ASSUME IInv, UNCHANGED <<chn, del, chal>>
  PROVE  DeletedInv'
  BY DEF IInv, DeletedInv, ChallengedFilesKept

\* An error path: ReplaceIdle rolls back and returns.
LEMMA ReplRollsBack ==
  ASSUME IInv, AccRollbackDelete, ReplReturn, fails' = fails \/ Failure, r.pc # "update",
         UNCHANGED <<chn, repl, asked, late, gen, del, chal, held, chals, pois, valid, check, c>>,
         UNCHANGED <<left, unseen, crashes>>
  PROVE  IInv'
<1>1. TypeOK
  BY DEF IInv
<1>2. r' \in ReplLocal /\ r'.pc = "off"
  BY OffFacts DEF ReplReturn
<1>3. TypeOK'
  BY <1>1, <1>2, Ground, Unprimed, RollbackDeleteFacts, ReplTypesSame
<1> QED  BY <1>1, <1>2, <1>3, RollbackDeleteFacts, DeletedSame, ReplLeaves DEF ReplOpen

LEMMA ReplStartStep == ASSUME IInv, ReplStart PROVE IInv'
<1>1. TypeOK
  BY DEF IInv
<1>2. /\ UNCHANGED <<chn, repl, asked, late, prv, com, acc, gen, del, chal, held, chals, pois, valid>>
      /\ UNCHANGED <<check, c, left, unseen, fails, crashes>>
  BY DEF ReplStart, chain, prover, disk, challenge, history
<1>3. ReplNumber \in Nat /\ ReplNumber >= 1
  <2>1. prv.front % E \in 0..(E - 1)
    BY <1>1, Ground
  <2> QED  BY <1>1, <2>1, Ground, Unprimed DEF ReplStart, ReplNumber
<1>4. r' = [Off EXCEPT !.pc = "prove", !.num = ReplNumber] /\ r.pc = "off"
  BY DEF ReplStart
<1>5. r' \in ReplLocal /\ r'.pc = "prove" /\ r'.num = ReplNumber
  <2> HIDE DEF ReplNumber
  <2> QED  BY <1>3, <1>4, OffFacts DEF ReplLocal, ReplPc
<1>6. TypeOK'
  BY <1>1, <1>2, <1>5, Ground, Unprimed, ReplTypesSame
<1> QED  BY <1>2, <1>3, <1>4, <1>5, <1>6, DeletedSame, ReplLeaves DEF ReplOpen

\* Before CheckPois the prover has no files, so ProveDeletion opens nothing.
LEMMA ReplProveStep == ASSUME IInv, ReplProve PROVE IInv'
<1>1. TypeOK
  BY DEF IInv
<1>2. /\ UNCHANGED <<chn, repl, asked, late, prv, gen, del, chal, held, chals, pois, valid, check, c>>
      /\ UNCHANGED <<left, unseen, crashes>>
      /\ fails' = fails \/ Failure
  BY DEF ReplProve, chain, disk, challenge, history, NoFailure, AccRollbackDelete
<1>3. r.pc = "prove" /\ r.num >= 1
  BY DEF ReplProve, IInv, BeforeCheck
<1>4. CASE AccRollbackDelete /\ ReplReturn
  BY <1>2, <1>3, <1>4, ReplRollsBack
<1>5. CASE /\ Deletable /\ acc' = "delete" /\ UNCHANGED <<prv, com>>
           /\ r' = [r EXCEPT !.pc = "query", !.base = prv]
  <2>1. r' \in ReplLocal
    BY <1>1, <1>5, Ground DEF ReplLocal, ReplPc
  <2>2. r'.pc = "query" /\ r'.base = prv /\ r'.num = r.num
    BY <1>1, <1>5, Ground DEF ReplLocal
  <2>3. TypeOK'
    BY <1>1, <1>2, <1>5, <2>1, Ground, Unprimed, ReplTypesSame DEF Update
  <2>4. ~check /\ acc = "none"
    <3>1. check => prv.front = 0 /\ prv.rear = 0
      BY IntervalFacts DEF IInv, BeforeCheck
    <3> QED  BY <1>1, <1>3, <1>5, <3>1, Ground DEF Deletable
  <2>5. BeforeCheck' /\ Exclusive' /\ AccReleased'
    BY <1>2, <1>3, <1>5, <2>2, <2>4 DEF IInv, BeforeCheck, Exclusive, AccReleased, ReplOpen
  <2>6. Below(prv, prv)
    BY <1>1, Ground DEF Below
  <2>7. CertInv' /\ ReplInv'
    BY <1>2, <2>2, <2>6 DEF IInv, CertInv, ReplInv
  <2>8. LateInv' /\ OneStep' /\ AgreeInv'
    BY <1>2, <1>3, <2>4 DEF IInv, LateInv, OneStep, AgreeInv, Known
  <2> QED  BY <1>2, <2>3, <2>5, <2>7, <2>8, DeletedSame DEF IInv
<1> QED  BY <1>4, <1>5 DEF ReplProve

LEMMA ReplQueryStep == ASSUME IInv, ReplQuery PROVE IInv'
<1>1. TypeOK
  BY DEF IInv
<1>2. /\ UNCHANGED <<chn, repl, asked, late, gen, del, chal, held, chals, valid, check, c>>
      /\ UNCHANGED <<left, unseen, crashes>>
      /\ fails' = fails \/ Failure
  BY DEF ReplQuery, chain, disk, challenge, history, NoFailure
<1>3. r.pc = "query" /\ ~check /\ acc = "delete" /\ c.pc \notin CertOpen
  BY DEF ReplQuery, IInv, BeforeCheck, Exclusive, ReplOpen
<1>4. CASE AccRollbackDelete /\ ReplReturn /\ pois' = pois
  BY <1>2, <1>3, <1>4, ReplRollsBack
<1>5. CASE /\ pois' = [pois EXCEPT !.iv = chn]
           /\ r' = [r EXCEPT !.pc = "sign", !.iv = chn]
           /\ IF chn.front > prv.front THEN SyncChainPoisStatus(chn) ELSE UNCHANGED prover
  <2>1. r' \in ReplLocal /\ r'.pc = "sign" /\ r'.base = r.base /\ r'.num = r.num
    BY <1>1, <1>5, Ground DEF ReplLocal, ReplPc
  <2>2. pois' \in PoisInfo
    BY <1>1, <1>5, Ground DEF PoisInfo
  <2>3. /\ acc' = acc /\ com' \in Int
        /\ prv' = prv \/ prv' = chn
    BY <1>1, <1>5, Ground, Unprimed DEF SyncChainPoisStatus, prover
  <2>4. TypeOK'
    BY <1>1, <1>2, <2>1, <2>2, <2>3, Ground, Unprimed, ReplTypesSame
  <2>5. CASE prv' = prv
    BY <1>2, <1>3, <2>1, <2>3, <2>4, <2>5, ReplStays DEF ReplOpen
  <2>6. CASE prv' = chn
    <3>1. BeforeCheck' /\ Exclusive' /\ AccReleased'
      BY <1>2, <1>3, <2>1, <2>3 DEF IInv, BeforeCheck, Exclusive, AccReleased, ReplOpen
    <3>2. CertInv'
      BY <1>2, <1>3 DEF CertInv, CertOpen
    <3>3. Below(r.base, prv) /\ Below(prv, chn)
      BY <1>3, KnownBelow DEF IInv, ReplInv, Known, ReplOpen
    <3>4. ReplInv'
      BY <1>1, <1>2, <2>1, <2>6, <3>3, Ground DEF ReplInv, Below
    <3>5. LateInv' /\ OneStep' /\ AgreeInv'
      BY <1>2, <1>3, <2>6, Synced DEF Known
    <3> QED  BY <1>2, <2>4, <3>1, <3>2, <3>4, <3>5, DeletedSame DEF IInv
  <2> QED  BY <2>3, <2>5, <2>6
<1> QED  BY <1>4, <1>5 DEF ReplQuery

LEMMA ReplSignStep == ASSUME IInv, ReplSign PROVE IInv'
<1>1. TypeOK
  BY DEF IInv
<1>2. /\ UNCHANGED <<chn, repl, asked, late, prv, com, acc, gen, del, chal, held, chals, valid, check>>
      /\ UNCHANGED <<c, left, unseen, fails, crashes>>
  BY DEF ReplSign, chain, prover, disk, challenge, history
<1>3. r.pc = "sign" /\ ~check
  BY DEF ReplSign, IInv, BeforeCheck
<1>4. pois' \in PoisInfo
  BY <1>1, Ground DEF ReplSign, PoisInfo
<1>5. r' \in ReplLocal /\ r'.pc = "verify" /\ r'.base = r.base /\ r'.num = r.num
  <2>1. r' = [r EXCEPT !.pc = "verify", !.info = pois']
    BY DEF ReplSign
  <2> QED  BY <1>1, <1>4, <2>1, Ground DEF ReplLocal, ReplPc
<1>6. TypeOK'
  BY <1>1, <1>2, <1>4, <1>5, Ground, Unprimed, ReplTypesSame
<1> QED  BY <1>2, <1>3, <1>5, <1>6, ReplStays DEF ReplOpen

LEMMA ReplVerifyStep == ASSUME IInv, ReplVerify PROVE IInv'
<1>1. TypeOK
  BY DEF IInv
<1>2. /\ UNCHANGED <<chn, repl, asked, late, gen, del, chal, held, chals, pois, valid, check, c>>
      /\ UNCHANGED <<unseen, crashes>>
      /\ fails' = fails \/ Failure
  BY DEF ReplVerify, chain, disk, challenge, NoFailure
<1>3. r.pc = "verify" /\ ~check
  BY DEF ReplVerify, IInv, BeforeCheck
<1>4. CASE AccRollbackDelete /\ left' = left /\ ReplReturn
  BY <1>2, <1>3, <1>4, ReplRollsBack
<1>5. CASE /\ UNCHANGED <<prover, left>>
           /\ r' = [r EXCEPT !.pc = "submit", !.iv = Iv(r.base.front + r.num, r.base.rear)]
  <2>1. Iv(r.base.front + r.num, r.base.rear) \in Interval
    BY <1>1, Ground DEF Interval, Iv
  <2>2. /\ r' \in ReplLocal /\ r'.pc = "submit" /\ r'.base = r.base /\ r'.num = r.num
        /\ r'.iv = Iv(r.base.front + r.num, r.base.rear)
    BY <1>1, <1>5, <2>1, Ground DEF ReplLocal, ReplPc
  <2>3. UNCHANGED <<prv, com, acc>>
    BY <1>5 DEF prover
  <2>4. TypeOK'
    BY <1>1, <1>2, <1>5, <2>2, <2>3, Ground, Unprimed, ReplTypesSame
  <2> QED  BY <1>2, <1>3, <1>5, <2>2, <2>3, <2>4, ReplStays DEF ReplOpen
<1>6. CASE UNCHANGED prover /\ left' = TRUE /\ ReplReturn
  <2>1. r' \in ReplLocal /\ r'.pc = "off"
    BY <1>6, OffFacts DEF ReplReturn
  <2>2. UNCHANGED <<prv, com, acc>>
    BY <1>6 DEF prover
  <2>3. TypeOK'
    BY <1>1, <1>2, <1>6, <2>1, <2>2, Ground, Unprimed, ReplTypesSame
  <2> QED  BY <1>2, <1>3, <1>6, <2>1, <2>2, <2>3, DeletedSame, ReplLeaves DEF ReplOpen
<1> QED  BY <1>4, <1>5, <1>6 DEF ReplVerify

\* A replacement is accepted only when the chain is where the prover is.
LEMMA ReplSubmitStep == ASSUME IInv, ReplSubmit PROVE IInv'
<1>1. TypeOK
  BY DEF IInv
<1> DEFINE x == Status(r)
<1>2. /\ UNCHANGED <<prv, com, gen, del, chal, held, chals, pois, valid, check, c>>
      /\ UNCHANGED <<left, crashes>>
  BY DEF ReplSubmit, prover, disk, challenge, AccRollbackDelete
<1>3. r.pc = "submit" /\ ~check /\ acc = "delete" /\ c.pc \notin CertOpen /\ r.num >= 1
  BY DEF ReplSubmit, IInv, BeforeCheck, Exclusive, ReplOpen
<1>4. /\ x \in Extrinsic /\ x.base \in Interval /\ Below(x.base, prv)
      /\ x.new = Iv(x.base.front + r.num, x.base.rear)
      /\ Follows(x.new, x.base)
  <2>1. Below(r.base, prv) /\ r.iv = Iv(r.base.front + r.num, r.base.rear)
    BY <1>3 DEF IInv, ReplInv, ReplOpen
  <2>2. x = [base |-> r.base, new |-> r.iv]
    BY DEF Status
  <2>3. x \in Extrinsic
    BY <1>1, <2>2, Ground, ExtrinsicFacts
  <2> QED  BY <1>1, <1>3, <2>1, <2>2, <2>3, Ground DEF Follows, Iv
<1>5. \/ r' = [r EXCEPT !.pc = "update"] /\ acc' = acc /\ SentOk(x)
      \/ r' = Off /\ acc' = "none" /\ SentFails(x)
  BY <1>3 DEF ReplSubmit, ReplGoto, ReplReturn, prover, AccRollbackDelete
<1>6. r' \in ReplLocal /\ r'.pc \in {"update", "off"}
  BY <1>1, <1>5, Ground, OffFacts DEF ReplLocal, ReplPc
<1>7. /\ r'.pc = "update" => r'.num = r.num /\ r'.base = r.base /\ acc' = "delete" /\ SentOk(x)
      /\ r'.pc = "off" => acc' = "none" /\ SentFails(x)
  BY <1>1, <1>3, <1>5, Ground, OffFacts DEF ReplLocal, ReplPc
<1> HIDE DEF x
<1>8. TypeOK'
  <2>1. /\ chn' \in Interval /\ repl' \in Nat /\ late' \subseteq Extrinsic
        /\ unseen' \in BOOLEAN /\ asked' = asked /\ (fails' = fails \/ Failure)
    BY <1>1, <1>4, <1>5, Sending
  <2>2. acc' \in Update
    BY <1>3, <1>5 DEF Update
  <2> QED  BY <1>1, <1>2, <1>6, <2>1, <2>2, Ground, Unprimed, ReplTypesSame
<1>9. Known = prv /\ Known' = prv
  BY <1>2, <1>3 DEF Known
<1>10. chn' = chn \/ (chn = x.base /\ chn = prv /\ chn' = x.new)
  <2>1. ASSUME chn = x.base PROVE chn = prv
    BY <1>1, <1>4, <1>9, <2>1, Ground, KnownBelow, Antisymmetric
  <2>2. chn' = chn \/ (chn = x.base /\ chn' = x.new)
    BY <1>1, <1>4, <1>5, Sending
  <2> QED  BY <2>1, <2>2
<1>11. BeforeCheck' /\ Exclusive' /\ AccReleased'
  BY <1>2, <1>3, <1>6, <1>7 DEF IInv, BeforeCheck, Exclusive, AccReleased, ReplOpen
<1>12. CertInv'
  BY <1>2, <1>3 DEF CertInv, CertOpen
<1>13. ReplInv'
  <2>1. r'.pc = "update" => chn = x.base /\ chn' = x.new
    BY <1>1, <1>4, <1>7, Sending
  <2>2. r'.pc = "update" => chn = prv
    BY <1>1, <1>4, <1>9, <2>1, Ground, KnownBelow, Antisymmetric
  <2>3. Below(r.base, prv)
    BY <1>3 DEF IInv, ReplInv, ReplOpen
  <2> QED  BY <1>2, <1>4, <1>6, <1>7, <2>1, <2>2, <2>3 DEF ReplInv, ReplOpen
<1>14. LateInv'
  <2>1. late' \subseteq late \cup {x}
    BY <1>1, <1>4, <1>5, Sending
  <2> QED  BY <1>4, <1>9, <2>1 DEF IInv, LateInv
<1>15. OneStep'
  BY <1>4, <1>9, <1>10 DEF IInv, OneStep
<1>16. AgreeInv'
  <2>1. chn' # chn => unseen' \/ r'.pc = "update"
    BY <1>1, <1>4, <1>5, <1>6, <1>7, Sending
  <2>2. unseen => unseen'
    BY <1>1, <1>4, <1>5, Sending
  <2> QED  BY <1>2, <1>3, <1>9, <2>1, <2>2 DEF IInv, AgreeInv
<1>17. DeletedInv'
  <2>1. chn' # chn => chn'.front = chn.front + r.num
    BY <1>4, <1>10 DEF Iv
  <2>2. del \in Nat
    BY <1>1 DEF TypeOK, DiskType
  <2> QED  BY <1>1, <1>2, <2>1, <2>2, Ground DEF IInv, DeletedInv, ChallengedFilesKept
<1> QED  BY <1>8, <1>11, <1>12, <1>13, <1>14, <1>15, <1>16, <1>17 DEF IInv

LEMMA ReplUpdateStep == ASSUME IInv, ReplUpdate PROVE IInv'
<1>1. TypeOK
  BY DEF IInv
<1>2. /\ UNCHANGED <<chn, repl, asked, late, com, gen, del, chal, held, chals, pois, valid, check, c>>
      /\ UNCHANGED <<unseen, crashes>>
      /\ fails' = fails \/ Failure
  BY DEF ReplUpdate, chain, prover, disk, challenge, NoFailure
<1>3. r.pc = "update" /\ ~check /\ acc = "delete" /\ c.pc \notin CertOpen /\ r.num >= 1
  BY DEF ReplUpdate, IInv, BeforeCheck, Exclusive, ReplOpen
<1>4. r' = [r EXCEPT !.pc = "finish"]
  BY DEF ReplUpdate, ReplGoto
<1>5. r' \in ReplLocal /\ r'.pc = "finish" /\ r'.num = r.num
  BY <1>1, <1>4, Ground DEF ReplLocal, ReplPc
<1>6. CASE UNCHANGED prover /\ left' = TRUE
  <2>1. UNCHANGED <<prv, acc>>
    BY <1>6 DEF prover
  <2>2. TypeOK'
    BY <1>1, <1>2, <1>5, <1>6, <2>1, Ground, Unprimed, ReplTypesSame
  <2> QED  BY <1>2, <1>3, <1>5, <1>6, <2>1, <2>2, DeletedSame, ReplLeaves DEF ReplOpen
<1>7. CASE prv' = [prv EXCEPT !.front = @ + r.num] /\ acc' = "none" /\ left' = left
  <2>1. prv' = chn
    <3>1. chn = Iv(prv.front + r.num, prv.rear)
      BY <1>3 DEF IInv, ReplInv
    <3> QED  BY <1>1, <1>7, <3>1, Ground DEF Interval, Iv
  <2>2. TypeOK'
    BY <1>1, <1>2, <1>5, <1>7, <2>1, Ground, Unprimed, ReplTypesSame DEF Update
  <2>3. BeforeCheck' /\ Exclusive' /\ AccReleased'
    BY <1>2, <1>3, <1>5, <1>7 DEF IInv, BeforeCheck, Exclusive, AccReleased, ReplOpen
  <2>4. CertInv' /\ ReplInv'
    BY <1>2, <1>3, <1>5 DEF CertInv, ReplInv, CertOpen, ReplOpen
  <2>5. LateInv' /\ OneStep' /\ AgreeInv'
    BY <1>2, <1>3, <2>1, Synced DEF Known
  <2> QED  BY <1>2, <2>2, <2>3, <2>4, <2>5, DeletedSame DEF IInv
<1> QED  BY <1>6, <1>7 DEF ReplUpdate

\* The prover is told of the challenge first, so no file of it is deleted.
LEMMA ReplFinishStep == ASSUME IInv, ReplFinish PROVE IInv'
<1>1. TypeOK
  BY DEF IInv
<1>2. /\ UNCHANGED <<chn, repl, asked, late, prv, com, acc, gen, chal, chals, pois, valid, check, c>>
      /\ UNCHANGED <<left, unseen, crashes>>
      /\ fails' = fails \/ Failure
  BY DEF ReplFinish, chain, prover, challenge, history, NoFailure
<1>3. r.pc = "finish" /\ ~check
  BY DEF ReplFinish, IInv, BeforeCheck
<1>4. r' \in ReplLocal /\ r'.pc = "off"
  BY OffFacts DEF ReplFinish, ReplReturn
<1>5. /\ del \in Nat /\ chal \in Nat \cup {None} /\ held \in Nat \cup {None}
      /\ del <= chn.front /\ (chal # None => del <= chal)
  BY <1>1 DEF IInv, TypeOK, DiskType, ChallengeType, DeletedInv, ChallengedFilesKept
<1>6. prv.front <= chn.front
  BY <1>3, KnownBelow DEF Known, Below
<1>7. /\ del' \in Nat /\ held' \in Nat \cup {None}
      /\ del' <= chn.front /\ (chal # None => del' <= chal)
  BY <1>1, <1>5, <1>6, Ground DEF ReplFinish, Deleted, None
<1>8. DeletedInv'
  BY <1>2, <1>7 DEF DeletedInv, ChallengedFilesKept
<1>9. TypeOK'
  BY <1>1, <1>2, <1>4, <1>7, Ground, Unprimed, ReplTypes
<1> QED  BY <1>2, <1>3, <1>4, <1>8, <1>9, ReplLeaves DEF ReplOpen
-----------------------------------------------------------------------------
LEMMA InitInv == Init => IInv
<1> SUFFICES ASSUME Init PROVE IInv
  OBVIOUS
<1>1. PICK f \in 0..(E - 1) : chn = Iv(f, E) /\ del = f
  BY DEF Init
<1>2. E \in Nat /\ f \in Nat /\ chn \in Interval /\ chn.front = f
  BY <1>1, ConstantAssumption, IntervalFacts
<1>3. TypeOK
  <2>1. ChainType
    BY <1>2, ConstantAssumption DEF Init, ChainType
  <2>2. ProverType /\ TaskType
    BY IntervalFacts, OffFacts DEF Init, ProverType, Update, TaskType
  <2>3. DiskType /\ ChallengeType
    BY <1>1, <1>2, ConstantAssumption DEF Init, DiskType, ChallengeType
  <2>4. StatusType
    BY <1>2, PoisFacts DEF Init, StatusType
  <2>5. HistoryType
    BY Zenon DEF Init, HistoryType
  <2>6. BoundType
    BY ConstantAssumption DEF Init, BoundType
  <2> QED  BY <2>1, <2>2, <2>3, <2>4, <2>5, <2>6 DEF TypeOK
<1>4. c.pc = "off" /\ r.pc = "off" /\ Known = chn
  BY OffFacts DEF Init, Known
<1>5. BeforeCheck /\ Exclusive /\ AccReleased
  BY <1>4 DEF Init, BeforeCheck, Exclusive, AccReleased, CertOpen, ReplOpen
<1>6. CertInv /\ ReplInv
  BY <1>4 DEF CertInv, ReplInv, CertOpen, ReplOpen
<1>7. LateInv /\ OneStep /\ AgreeInv
  BY <1>4 DEF Init, LateInv, OneStep, AgreeInv
<1>8. DeletedInv
  BY <1>1, <1>2 DEF Init, DeletedInv, ChallengedFilesKept
<1> QED  BY <1>3, <1>5, <1>6, <1>7, <1>8 DEF IInv

LEMMA NextInv == IInv /\ [Next]_vars => IInv'
<1> SUFFICES ASSUME IInv, [Next]_vars PROVE IInv'
  OBVIOUS
<1>1. CASE CertStep
  BY <1>1, CertBeforeStep, CertQueryStep, CertProveStep, CertLoadStep, CertSignStep, CertVerifyStep,
     CertSubmitStep, CertSettleStep, CertUpdateStep DEF CertStep
<1>2. CASE ReplStep
  BY <1>2, ReplStartStep, ReplProveStep, ReplQueryStep, ReplSignStep, ReplVerifyStep,
     ReplSubmitStep, ReplUpdateStep, ReplFinishStep DEF ReplStep
<1>3. CASE Environment
  BY <1>3, LateExtrinsicStep, AskReplacementStep, ChallengeStep, GenerationStep DEF Environment
<1>4. CASE CheckPois \/ Crash
  BY <1>4, CheckPoisStep, CrashStep
<1>5. CASE UNCHANGED vars
  <2>1. UNCHANGED <<core, pois, repl, asked, com, gen, del, chal, held, chals, valid, fails, crashes>>
    BY <1>5 DEF vars, core
  <2>2. TypeOK'
    BY <2>1 DEF core, IInv, TypeOK, ChainType, ProverType, DiskType, ChallengeType, StatusType,
                TaskType, HistoryType, BoundType
  <2>3. DeletedInv'
    BY <2>1 DEF core, IInv, DeletedInv, ChallengedFilesKept
  <2> QED  BY <2>1, <2>2, <2>3, Quiet
<1> QED  BY <1>1, <1>2, <1>3, <1>4, <1>5 DEF Next

LEMMA InvNotAhead == ASSUME IInv PROVE NotAhead
<1>1. Below(Known, chn) /\ TypeOK
  BY KnownBelow DEF IInv
<1>2. check => prv.front = 0 /\ prv.rear = 0
  BY IntervalFacts DEF IInv, BeforeCheck
<1> QED  BY <1>1, <1>2, Ground DEF NotAhead, Known, Below

\* The invariant behind the theorems below.
THEOREM Invariance == Spec => []IInv
  BY InitInv, NextInv, PTL DEF Spec

\* Every variable keeps its type: the certified interval, the files to replace and
\* the open update are always values the code can hold (node/idlecert.go, idlerepl.go).
THEOREM TypeCorrect == Spec => []TypeOK
<1>1. IInv => TypeOK
  BY DEF IInv
<1> QED  BY <1>1, Invariance, PTL

\* An accumulator update of the prover is open only while the goroutine that opened
\* it is on its way to close it, but for the returns of CertIdle and ReplaceIdle that
\* roll nothing back (idlecert.go:187-195, :387-389, idlerepl.go:249).
THEOREM UpdateIsReleased == Spec => []AccReleased
<1>1. IInv => AccReleased
  BY DEF IInv
<1> QED  BY <1>1, Invariance, PTL

\* Prover and chain agree on the certified interval whenever no extrinsic was included
\* unseen, no update was left open and neither goroutine has an accepted extrinsic
\* to apply.
THEOREM ProverAgrees == Spec => []Agreement
<1>1. IInv => Agreement
  BY DEF IInv, Agreement, AgreeInv, Known
<1> QED  BY <1>1, Invariance, PTL

\* No interleaving of CertIdle, ReplaceIdle, late extrinsics and crashes makes the
\* prover count a file as certified or replaced that the chain does not.
THEOREM ProverNotAhead == Spec => []NotAhead
<1>1. IInv => NotAhead
  BY InvNotAhead
<1> QED  BY <1>1, Invariance, PTL

\* ReplaceIdle deletes no file of an open challenge, whichever came first
\* (idlerepl.go, the challenge state set before DeleteFiles).
THEOREM ChallengedFilesAreKept == Spec => []ChallengedFilesKept
<1>1. IInv => ChallengedFilesKept
  BY DEF IInv, DeletedInv
<1> QED  BY <1>1, Invariance, PTL
=============================================================================
