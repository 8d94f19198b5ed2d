---------------------------- MODULE BatchVerify -----------------------------
(***************************************************************************)
(* batchGenProofAndVerify of node/chlgservice.go: the challenged fragments *)
(* of a round with more than maxNumberOfSingleVerification of them are     *)
(* proved one by one, verified by a TEE in batches that stack their bloom  *)
(* filters, and the batches' signatures are aggregated.                    *)
(*                                                                         *)
(* Fragments are their positions in the two nested loops over files and    *)
(* fragments.  An aggregated proof and a bloom filter stand for the set of *)
(* fragments that went into them.                                          *)
(***************************************************************************)
EXTENDS Naturals, Sequences, FiniteSets

CONSTANTS MaxSingle,   \* maxNumberOfSingleVerification: 5000
          MaxTotal,    \* bound: challenged fragments of a round
          Tee,         \* endpoints of the TEE workers (GetAllVerifierTeeEndpoint)
          NoTee        \* the empty endpoint string

ASSUME BatchAssumption ==
  /\ MaxSingle \in Nat \ {0} /\ MaxTotal \in Nat
  /\ NoTee \notin Tee

VARIABLES
  pc,          \* "prove", "request" (a TEE is asked), "aggregate", "done", "failed"
  total,       \* totalChallengedLength
  index,       \* the fragment the loops are at
  names,       \* fragments of the batch being collected (names, us, mus, usig)
  sigma,       \* fragments aggregated into sigma, the batch's proof
  onChain,     \* fragments aggregated into sigmaOnChian, the proof submitted
  history,     \* verifyInServiceFileStructureList
  usedTee,     \* the TEE that answered, NoTee before the first answer
  orders       \* fragments a restoral order was generated for

batchVars == <<pc, total, index, names, sigma, onChain, history, usedTee, orders>>

Fragment == 1..MaxTotal

Verified == [names : SUBSET Fragment, sigma : SUBSET Fragment,
             bloom : SUBSET Fragment, tee : Tee]

BatchTypeOK ==
  /\ pc \in {"prove", "request", "aggregate", "done", "failed"}
  /\ total \in Fragment
  /\ index \in 1..(MaxTotal + 1)
  /\ names \subseteq Fragment /\ sigma \subseteq Fragment /\ onChain \subseteq Fragment
  /\ history \in Seq(Verified)
  /\ usedTee \in Tee \cup {NoTee}
  /\ orders \subseteq Fragment

BatchInit ==
  /\ pc = "prove"
  /\ total \in Fragment /\ total > MaxSingle
  /\ index = 1
  /\ names = {} /\ sigma = {} /\ onChain = {}
  /\ history = <<>> /\ usedTee = NoTee
  /\ orders = {}

\* Fault variant of calcBatchQuantity: one batch too few.
QuantityTooLarge(n) == n \div (n \div MaxSingle) + 1

\* calcBatchQuantity: fragments per batch.
calcBatchQuantity(n) == n \div (n \div MaxSingle + 1) + 1
-----------------------------------------------------------------------------
\* A fragment is proved and added to the batch and to the proof for the chain; a
\* full batch is sent to a TEE.
Prove ==
  /\ pc = "prove" /\ index <= total
  /\ names' = names \cup {index}
  /\ sigma' = sigma \cup {index}
  /\ onChain' = onChain \cup {index}
  /\ IF index % calcBatchQuantity(total) = 0
     THEN pc' = "request" /\ UNCHANGED index
     ELSE index' = index + 1 /\ UNCHANGED pc
  /\ UNCHANGED <<total, history, usedTee, orders>>

\* A bad tag or a missing fragment is ordered for restoral and fails the
\* challenge; so does an error of the proof itself.
ProveFails ==
  /\ pc = "prove" /\ index <= total
  /\ orders' = orders \cup {index} \/ UNCHANGED orders
  /\ pc' = "failed"
  /\ UNCHANGED <<total, index, names, sigma, onChain, history, usedTee>>

\* Fault variant of LoopEnds: the last, partial batch is dropped.
LoopEndsWithoutRest ==
  /\ pc = "prove" /\ index > total
  /\ pc' = "aggregate"
  /\ UNCHANGED <<total, index, names, sigma, onChain, history, usedTee, orders>>

\* After the loops: what is left makes a last, smaller batch.
LoopEnds ==
  /\ pc = "prove" /\ index > total
  /\ pc' = IF names # {} THEN "request" ELSE "aggregate"
  /\ UNCHANGED <<total, index, names, sigma, onChain, history, usedTee, orders>>

\* requestBatchVerify asks the TEE that answered before, else all in turn.
Tees == IF usedTee # NoTee THEN {usedTee} ELSE Tee

\* stackedBloomFilters: the filter returned for the previous batch.
Stacked == IF history = <<>> THEN {} ELSE history[Len(history)].bloom

\* Fault variant of Answer: sigma is not reset with the batch.
AnswerKeepsSigma(t) ==
  /\ pc = "request" /\ t \in Tees
  /\ history' = Append(history, [names |-> names, sigma |-> sigma,
                                 bloom |-> Stacked \cup names, tee |-> t])
  /\ usedTee' = t
  /\ names' = {}
  /\ IF index > total THEN pc' = "aggregate" /\ UNCHANGED index
     ELSE pc' = "prove" /\ index' = index + 1
  /\ UNCHANGED <<total, sigma, onChain, orders>>

\* RequestBatchVerify is answered: the batch is recorded and a new one begun.
Answer(t) ==
  /\ pc = "request" /\ t \in Tees
  /\ history' = Append(history, [names |-> names, sigma |-> sigma,
                                 bloom |-> Stacked \cup names, tee |-> t])
  /\ usedTee' = t
  /\ names' = {} /\ sigma' = {}
  /\ IF index > total THEN pc' = "aggregate" /\ UNCHANGED index
     ELSE pc' = "prove" /\ index' = index + 1
  /\ UNCHANGED <<total, onChain, orders>>

\* requestAggregateSignature is answered by the TEE that verified the batches.
Aggregate ==
  /\ pc = "aggregate" /\ usedTee # NoTee
  /\ pc' = "done"
  /\ UNCHANGED <<total, index, names, sigma, onChain, history, usedTee, orders>>

\* The slip is reached while no TEE answers, or an answer has a wrong length.
RequestFails ==
  /\ pc \in {"request", "aggregate"}
  /\ pc' = "failed"
  /\ UNCHANGED <<total, index, names, sigma, onChain, history, usedTee, orders>>

BatchNext ==
  \/ Prove \/ ProveFails \/ LoopEnds
  \/ \E t \in Tee : Answer(t)
  \/ Aggregate \/ RequestFails

BatchSpec == BatchInit /\ [][BatchNext]_batchVars
-----------------------------------------------------------------------------
(* Properties. *)

\* No request to a TEE carries more than maxNumberOfSingleVerification fragments.
BatchBound ==
  /\ Cardinality(names) <= MaxSingle
  /\ \A k \in 1..Len(history) : Cardinality(history[k].names) <= MaxSingle

\* The proof sent with a batch aggregates exactly the fragments of the batch, and
\* no fragment is in two batches.
BatchProofsMatch ==
  /\ sigma = names
  /\ \A k \in 1..Len(history) : history[k].sigma = history[k].names
  /\ \A j, k \in 1..Len(history) : j # k => history[j].names \cap history[k].names = {}

\* When the signatures are aggregated there is a batch (the code indexes the last
\* one), the submitted proof, the batches and the last bloom filter cover every
\* challenged fragment, and every batch was verified by the aggregating TEE.
AggregateComplete ==
  pc \in {"aggregate", "done"} =>
    /\ history # <<>> /\ usedTee # NoTee
    /\ onChain = 1..total
    /\ UNION {history[k].names : k \in 1..Len(history)} = 1..total
    /\ Stacked = 1..total
    /\ \A k \in 1..Len(history) : history[k].tee = usedTee
-----------------------------------------------------------------------------
(* The inductive invariant: the loop position determines what has been proved and   *)
(* what has been answered.                                                           *)

BatchSize == calcBatchQuantity(total)
LastProved == IF pc = "request" /\ index <= total THEN index ELSE index - 1
LastAnswered ==
  IF pc \in {"aggregate", "done"} THEN total ELSE (index - 1) - ((index - 1) % BatchSize)
Answered == UNION {history[k].names : k \in 1..Len(history)}

LoopInv ==
  /\ index <= total + 1
  /\ pc = "request" => index % BatchSize = 0 \/ index = total + 1
  /\ pc \in {"aggregate", "done"} => index = total + 1
  /\ names = (LastAnswered + 1)..LastProved
  /\ onChain = 1..LastProved
  /\ Answered = 1..LastAnswered /\ Stacked = 1..LastAnswered
TeeInv ==
  /\ history # <<>> => usedTee # NoTee
  /\ \A k \in 1..Len(history) : history[k].tee = usedTee

BatchInv ==
  /\ BatchTypeOK /\ total > MaxSingle /\ BatchBound /\ BatchProofsMatch /\ TeeInv
  /\ pc # "failed" => LoopInv
=============================================================================
