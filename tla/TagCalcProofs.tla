--------------------------- MODULE TagCalcProofs ----------------------------
(***************************************************************************)
(* Proofs about TagCalc, for every number of fragments, attempts, failures *)
(* and crashes, with checkTag running beside CalcTag.                      *)
(* KeySound follows from KeyInv; TagsKept and PanicNeedsTornRemoval from   *)
(* TypeInv, TagInv and IndexInv, each preserved on top of the one before.  *)
(***************************************************************************)
EXTENDS TagCalc, FiniteSetTheorems, WellFoundedInduction, TLAPS

\* The cache is empty when a file is first stored.
LEMMA KeyInit == Init => KeyInv
  BY DEF Init, KeyInv, KeySound

\* The steps that leave the cache and the chain alone do not reach QueryBlockNumber.
LEMMA KeyQuiet ==
  ASSUME KeyInv, UNCHANGED <<keys, onChain>>, pc' # "height" \/ pc' = pc
  PROVE  KeyInv'
  BY DEF KeyInv, KeySound

\* The Puts of a report that is on chain.
LEMMA KeyPut ==
  ASSUME KeyInv, onChain, onChain' = onChain, NEW p, PutKeys(p)
  PROVE  KeyInv'
  BY DEF KeyInv, KeySound, PutKeys, Return, StartRemoval

\* Each step of CalcTag preserves the invariant.
LEMMA KeyCalc == KeyInv /\ CalcStep => KeyInv'
  <1> SUFFICES ASSUME KeyInv, CalcStep PROVE KeyInv'
    OBVIOUS
  <1>1. CASE Start
    BY <1>1, KeyQuiet DEF Start, Goto
  <1>2. CASE ScanInvalid \/ ScanPanics \/ TeeFails \/ ReportPanics
    BY <1>2, KeyQuiet DEF ScanInvalid, ScanPanics, TeeFails, ReportPanics, Return
  <1>3. CASE ScanCalced \/ ScanRequest \/ ScanEnds \/ TeeAnswers \/ WriteTag \/ Report
    BY <1>3, KeyQuiet DEF ScanCalced, ScanRequest, ScanEnds, TeeAnswers, WriteTag,
       Report, Goto
  <1>4. CASE Decide
    BY <1>4, KeyQuiet DEF Decide, Goto, Return
  <1>5. CASE ReportInvalid
    BY <1>5, KeyQuiet DEF ReportInvalid, StartRemoval
  <1>6. CASE Send
    <2>1. CASE onChain
      BY <1>6, <2>1, KeyQuiet DEF Send, Goto
    <2>2. CASE ~onChain
      <3>1. keys' = {}
        BY <1>6, <2>2 DEF Send, KeyInv, KeySound
      <3>2. pc' = "height" => onChain'
        BY <1>6, <2>2 DEF Send, Goto
      <3>3. QED
        BY <3>1, <3>2 DEF KeyInv, KeySound
    <2>3. QED
      BY <2>1, <2>2
  <1>7. CASE Recheck
    <2>1. CASE onChain /\ PutKeys(1)
      BY <1>7, <2>1, KeyPut DEF Recheck
    <2>2. CASE UNCHANGED keys /\ pc' \in {"send", "remove"}
      BY <1>7, <2>2, KeyQuiet DEF Recheck
    <2>3. QED
      BY <1>7, <2>1, <2>2 DEF Recheck, StartRemoval
  <1>8. CASE Height
    <2>1. onChain
      BY <1>8 DEF Height, KeyInv
    <2>2. CASE PutKeys(1)
      BY <1>8, <2>1, <2>2, KeyPut DEF Height
    <2>3. CASE UNCHANGED keys /\ StartRemoval(1)
      BY <1>8, <2>3, KeyQuiet DEF Height, StartRemoval
    <2>4. QED
      BY <1>8, <2>2, <2>3 DEF Height
  <1>9. CASE Remove
    BY <1>9, KeyQuiet DEF Remove, StartRemoval, Return
  <1>10. QED
    BY <1>1, <1>2, <1>3, <1>4, <1>5, <1>6, <1>7, <1>8, <1>9 DEF CalcStep

\* KeyInv is inductive.
LEMMA KeyNext == KeyInv /\ [Next]_vars => KeyInv'
  <1> SUFFICES ASSUME KeyInv, [Next]_vars PROVE KeyInv'
    OBVIOUS
  <1>1. CASE CalcStep
    BY <1>1, KeyCalc
  <1>2. CASE CheckStep
    BY <1>2, KeyQuiet DEF CheckStep, CheckRead, CheckTee, CheckCreate, CheckWrite,
       CheckDrop, calcVars
  <1>3. CASE \E f \in Frag : CheckStart(f)
    BY <1>3, KeyQuiet DEF CheckStart, calcVars
  <1>4. CASE Crash
    BY <1>4, KeyQuiet DEF Crash, Return
  <1>5. CASE UNCHANGED vars
    BY <1>5, KeyQuiet DEF vars
  <1>6. QED
    BY <1>1, <1>2, <1>3, <1>4, <1>5 DEF Next

\* Whatever fails or crashes on the way through reportFileTag's retries, a cached tag
\* entry exists only for a file whose tags the chain holds.
THEOREM KeySafe == Spec => []KeySound
  <1>1. KeyInv => KeySound
    BY DEF KeyInv
  <1>2. QED
    BY KeyInit, KeyNext, <1>1, PTL DEF Spec
-----------------------------------------------------------------------------
(* Type correctness. *)

LEMMA Least ==
  ASSUME NEW S, S \subseteq Nat, S # {}
  PROVE  \E x \in S : \A y \in S : x <= y
<1> DEFINE R == OpToRel(<, Nat)
<1>1. IsWellFoundedOn(R, Nat)
  BY NatLessThanWellFounded
<1>2. \A x, y \in Nat : <<x, y>> \in R <=> x < y
  BY DEF OpToRel
<1> HIDE DEF R
<1>3. PICK x \in S : \A y \in S : ~(<<y, x>> \in R)
  BY <1>1, WFMin
<1>4. ASSUME NEW y \in S PROVE x <= y
  <2>1. x \in Nat /\ y \in Nat /\ ~(<<y, x>> \in R)
    BY <1>3
  <2>2. ~(y < x)
    BY <1>2, <2>1
  <2> QED  BY <2>1, <2>2
<1> QED  BY <1>4

LEMMA FirstIn == ASSUME NEW S, S \subseteq Frag, S # {} PROVE First(S) \in S
<1>1. \E x \in S : \A y \in S : x <= y
  <2>1. S \subseteq Nat
    BY DEF Frag
  <2> QED  BY <2>1, Least
<1> QED  BY <1>1 DEF First

LEMMA LastIn == ASSUME NEW S, S \subseteq Frag, S # {} PROVE Last(S) \in S
<1> DEFINE T == {N - f : f \in S}
<1>1. N \in Nat /\ \A f \in S : f \in Nat /\ f <= N
  BY ConstantAssumption DEF Frag
<1>2. T \subseteq Nat /\ T # {}
  BY <1>1
<1>3. PICK x \in T : \A y \in T : x <= y
  BY <1>2, Least
<1>4. PICK f \in S : x = N - f
  BY <1>3
<1>5. ASSUME NEW g \in S PROVE g <= f
  <2>1. N - g \in T
    OBVIOUS
  <2>2. N - f <= N - g
    BY <1>3, <1>4, <2>1
  <2> QED  BY <1>1, <2>2
<1> QED  BY <1>5 DEF Last

LEMMA FragFinite == IsFiniteSet(Frag) /\ Cardinality(Frag) = N
  BY FS_Interval, ConstantAssumption DEF Frag

LEMMA PartFinite ==
  ASSUME NEW S, S \subseteq Frag
  PROVE  IsFiniteSet(S) /\ Cardinality(S) \in Nat /\ Cardinality(S) <= N
  BY FragFinite, FS_Subset, FS_CardinalityType

LEMMA NoneTyped == /\ NoTag \in Tag /\ Partial("short") \in Tag /\ Partial("cut") \in Tag
                   /\ <<>> \in Digests
  BY DEF NoTag, Partial, Tag, TagState, Digests

LEMMA DigestTyped ==
  ASSUME NEW S, S \subseteq Frag, NEW n \in Nat
  PROVE  Digest(S, n) \in Digests
<1>1. \A j \in 1..n : Indexed(S, j) \subseteq Frag
  BY DEF Indexed
<1>2. \A j \in 1..n : (IF Indexed(S, j) = {} THEN Hole ELSE Last(Indexed(S, j))) \in Frag \cup {Hole}
  BY <1>1, LastIn
<1> QED  BY <1>2 DEF Digest, Digests

\* The highest index is that of a tag.
LEMMA Highest ==
  ASSUME tag \in [Frag -> Tag], NEW S, S \subseteq Frag, S # {}, NEW n \in Nat,
         \A f \in S : tag[f].index <= n
  PROVE  \E f \in S : /\ \A g \in S : tag[g].index <= tag[f].index
                      /\ MaxIndex(S) = tag[f].index
<1> DEFINE T == {n - tag[f].index : f \in S}
<1>1. \A f \in S : tag[f].index \in Nat
  BY DEF Tag
<1>2. T \subseteq Nat /\ T # {}
  BY <1>1
<1>3. PICK x \in T : \A y \in T : x <= y
  BY <1>2, Least
<1>4. PICK e \in S : x = n - tag[e].index
  BY <1>3
<1>5. ASSUME NEW g \in S PROVE tag[g].index <= tag[e].index
  <2>1. n - tag[g].index \in T
    OBVIOUS
  <2>2. n - tag[e].index <= n - tag[g].index
    BY <1>3, <1>4, <2>1
  <2> QED  BY <1>1, <2>2
<1> DEFINE m == CHOOSE f \in S : \A g \in S : tag[g].index <= tag[f].index
<1>6. m \in S /\ \A g \in S : tag[g].index <= tag[m].index
  BY <1>5
<1>7. MaxIndex(S) = tag[m].index
  BY DEF MaxIndex
<1> QED  BY <1>6, <1>7

LEMMA RequestTyped ==
  ASSUME tag \in [Frag -> Tag], NEW S, S \subseteq Frag, NEW n \in Nat,
         \A f \in S : tag[f].index <= n
  PROVE  MaxIndex(S) \in Nat /\ LatestSig(S) \in Digests
<1>1. CASE S = {}
  BY <1>1, NoneTyped DEF MaxIndex, LatestSig
<1>2. CASE S # {}
  <2>1. PICK f \in S : MaxIndex(S) = tag[f].index
    BY <1>2, Highest
  <2>2. MaxIndex(S) \in Nat
    BY <2>1 DEF Tag
  <2>3. First(Indexed(S, MaxIndex(S))) \in Frag
    <3>1. f \in Indexed(S, MaxIndex(S)) /\ Indexed(S, MaxIndex(S)) \subseteq Frag
      BY <2>1 DEF Indexed
    <3> QED  BY <3>1, FirstIn
  <2>4. LatestSig(S) \in Digests
    BY <1>2, <2>3 DEF LatestSig, Tag
  <2> QED  BY <2>2, <2>4
<1> QED  BY <1>1, <1>2

\* The parts of the type invariant.
DiskOK == tag \in [Frag -> Tag] /\ keys \subseteq Frag /\ onChain \in BOOLEAN
          /\ orphan \subseteq {"calc", "check"}
CalcOK ==
  /\ pc \in PcState /\ at \in 1..(N + 1)
  /\ list \in Digests /\ sig \in Digests /\ index \in Nat
  /\ isReport \in BOOLEAN /\ try \in 1..SubmitTries /\ passes \in 1..2
  /\ pc \in {"tee", "write", "remove"} => at \in Frag
CheckOK == cpc \in CheckPc /\ cfrag \in Frag /\ cindex \in Nat /\ again \in BOOLEAN
HistoryOK ==
  /\ strict \in BOOLEAN /\ panicked \in BOOLEAN /\ torn \in BOOLEAN
  /\ crashes \in 0..MaxCrashes /\ checks \in 0..MaxChecks
FailsOK == fails \in 0..MaxFails

LEMMA Parts ==
  /\ TypeInv <=> DiskOK /\ CalcOK /\ CheckOK /\ HistoryOK /\ FailsOK
  /\ TypeInv' <=> DiskOK' /\ CalcOK' /\ CheckOK' /\ HistoryOK' /\ FailsOK'
  BY DEF TypeInv, TypeOK, DiskOK, CalcOK, CheckOK, HistoryOK, FailsOK

LEMMA Unchanged ==
  /\ UNCHANGED <<tag, keys, onChain, orphan>> /\ DiskOK => DiskOK'
  /\ UNCHANGED calcVars /\ CalcOK => CalcOK'
  /\ UNCHANGED checkVars /\ CheckOK => CheckOK'
  /\ UNCHANGED history /\ HistoryOK => HistoryOK'
  /\ UNCHANGED fails /\ FailsOK => FailsOK'
  /\ Failure /\ FailsOK => FailsOK'
<1>1. MaxFails \in Nat
  BY ConstantAssumption
<1>2. Failure /\ FailsOK => FailsOK'
  BY <1>1 DEF Failure, FailsOK
<1> QED  BY <1>2 DEF calcVars, checkVars, history, DiskOK, CalcOK, CheckOK, HistoryOK, FailsOK

LEMMA NIsNat == N \in Nat \ {0} /\ 1 \in Frag /\ SubmitTries \in Nat \ {0}
  BY ConstantAssumption DEF Frag

LEMMA ReturnTypes == Return => CalcOK'
<1>1. 1 \in 1..(N + 1) /\ 1 \in 1..SubmitTries
  BY NIsNat
<1>2. <<>> \in Digests
  BY NoneTyped
<1> SUFFICES ASSUME Return PROVE CalcOK'
  OBVIOUS
<1>3. pc' = "off" /\ at' \in 1..(N + 1) /\ try' \in 1..SubmitTries /\ passes' \in 1..2
  BY <1>1 DEF Return
<1>4. list' \in Digests /\ sig' \in Digests /\ index' \in Nat /\ isReport' \in BOOLEAN
  BY <1>2 DEF Return
<1> QED  BY <1>3, <1>4 DEF CalcOK, PcState

LEMMA GotoTypes ==
  ASSUME CalcOK, NEW l \in PcState \ {"tee", "write", "remove"}, Goto(l)
  PROVE  CalcOK'
  BY DEF Goto, CalcOK

LEMMA RemovalTypes ==
  ASSUME CalcOK, NEW p \in 1..2, StartRemoval(p)
  PROVE  CalcOK'
  BY NIsNat DEF StartRemoval, CalcOK, PcState

LEMMA FileTypes ==
  ASSUME DiskOK, NEW who \in {"calc", "check"}, NEW f \in Frag, NEW t \in Tag,
         RemoveTag(who, f) \/ CreateTag(who, f) \/ FillTag(who, f, t)
  PROVE  tag' \in [Frag -> Tag] /\ orphan' \subseteq {"calc", "check"}
<1>1. \/ tag' = tag
      \/ \E x \in {NoTag, Partial("short"), Partial("cut"), t} : tag' = [tag EXCEPT ![f] = x]
  BY DEF RemoveTag, CreateTag, FillTag
<1>2. tag' \in [Frag -> Tag]
  BY <1>1, NoneTyped DEF DiskOK
<1> QED  BY <1>2 DEF RemoveTag, CreateTag, FillTag, DiskOK

LEMMA PutKeysTypes ==
  ASSUME DiskOK, CalcOK, FailsOK, NEW p \in 1..2, PutKeys(p)
  PROVE  keys' \subseteq Frag /\ CalcOK' /\ FailsOK'
<1>1. Return \/ StartRemoval(p)
  BY DEF PutKeys
<1>2. CalcOK'
  BY <1>1, ReturnTypes, RemovalTypes
<1>3. UNCHANGED fails \/ Failure
  BY DEF PutKeys
<1> QED  BY <1>2, <1>3, Unchanged DEF PutKeys, DiskOK

LEMMA CalcTypes == ASSUME TypeInv, CalcStep PROVE TypeInv'
<1>1. /\ DiskOK /\ CalcOK /\ CheckOK /\ HistoryOK /\ FailsOK
      /\ tag \in [Frag -> Tag] /\ at \in 1..(N + 1) /\ Files \subseteq Frag
  BY Parts DEF DiskOK, CalcOK, Files
<1>2. CheckOK'
  BY <1>1, Unchanged DEF CalcStep, Start, ScanInvalid, ScanPanics, ScanCalced, ScanRequest,
     ScanEnds, TeeAnswers, TeeFails, WriteTag, Decide, ReportInvalid, ReportPanics, Report, Send,
     Recheck, Height, Remove
<1>3. HistoryOK'
  <2>1. UNCHANGED history \/ (panicked' = TRUE /\ UNCHANGED <<strict, torn, crashes, checks>>)
    BY DEF CalcStep, Start, ScanInvalid, ScanPanics, ScanCalced, ScanRequest,
       ScanEnds, TeeAnswers, TeeFails, WriteTag, Decide, ReportInvalid, ReportPanics, Report, Send,
       Recheck, Height, Remove
  <2> QED  BY <1>1, <2>1 DEF history, HistoryOK
<1>4. at <= N => at \in Frag
  BY <1>1, NIsNat DEF Frag
<1>5. CASE Start
  BY <1>1, <1>2, <1>3, <1>5, Parts, Unchanged, GotoTypes DEF Start, PcState
<1>6. CASE ScanInvalid
  <2> DEFINE bad == Misfits(Files \ {at}, Cardinality(Files))
  <2>1. bad # {} /\ RemoveTag("calc", First(bad)) /\ UNCHANGED <<keys, onChain, fails>> /\ Return
    BY <1>6 DEF ScanInvalid
  <2>2. bad \subseteq Frag
    BY <1>1 DEF Misfits
  <2> HIDE DEF bad
  <2>3. First(bad) \in Frag
    BY <2>1, <2>2, FirstIn
  <2>4. DiskOK'
    BY <1>1, <2>1, <2>3, FileTypes, NoneTyped DEF DiskOK
  <2> QED  BY <1>1, <1>2, <1>3, <2>1, <2>4, Parts, Unchanged, ReturnTypes
<1>7. CASE ScanPanics \/ ReportPanics \/ TeeFails
  <2>1. /\ UNCHANGED <<tag, keys, onChain, orphan>> /\ Return
        /\ UNCHANGED fails \/ Failure
    BY <1>7 DEF ScanPanics, ReportPanics, TeeFails
  <2> QED  BY <1>1, <1>2, <1>3, <2>1, Parts, Unchanged, ReturnTypes
<1>8. CASE ScanCalced
  <2>1. UNCHANGED <<tag, keys, onChain, orphan>> /\ UNCHANGED fails
    BY <1>8 DEF ScanCalced
  <2>2. CalcOK'
    BY <1>1, <1>8, NIsNat DEF ScanCalced, CalcOK
  <2> QED  BY <1>1, <1>2, <1>3, <2>1, <2>2, Parts, Unchanged
<1>9. CASE ScanRequest
  <2> DEFINE S == Files \ {at}
             n == Cardinality(Files)
  <2>1. /\ Misfits(S, n) = {} /\ at <= N /\ pc' = "tee" /\ RemoveTag("calc", at)
        /\ list' = Digest(S, n) /\ sig' = LatestSig(S) /\ index' = MaxIndex(S) + 1
        /\ UNCHANGED <<at, isReport, try, passes, keys, onChain, fails>>
    BY <1>9 DEF ScanRequest
  <2>2. S \subseteq Frag /\ n \in Nat
    BY <1>1, PartFinite
  <2>3. \A f \in S : tag[f].index <= n
    <3>1. \A f \in S : tag[f].index \in Nat /\ ~(tag[f].index > n)
      BY <1>1, <2>1, <2>2 DEF Misfits, Tag
    <3> QED  BY <2>2, <3>1
  <2> HIDE DEF S, n
  <2>4. list' \in Digests /\ sig' \in Digests /\ index' \in Nat
    BY <1>1, <2>1, <2>2, <2>3, DigestTyped, RequestTyped
  <2>5. CalcOK'
    BY <1>1, <1>4, <2>1, <2>4 DEF CalcOK, PcState
  <2>6. DiskOK'
    BY <1>1, <1>4, <2>1, FileTypes, NoneTyped DEF DiskOK
  <2> QED  BY <1>1, <1>2, <1>3, <2>1, <2>5, <2>6, Parts, Unchanged
<1>10. CASE ScanEnds
  BY <1>1, <1>2, <1>3, <1>10, Parts, Unchanged, GotoTypes DEF ScanEnds, PcState
<1>11. CASE TeeAnswers
  <2>1. /\ pc = "tee" /\ sig' = Append(list, at) /\ CreateTag("calc", at) /\ pc' = "write"
        /\ UNCHANGED <<at, list, index, isReport, try, passes, keys, onChain, fails>>
    BY <1>11 DEF TeeAnswers
  <2>2. at \in Frag /\ list \in Digests
    BY <1>1, <2>1 DEF CalcOK
  <2>3. sig' \in Digests
    BY <2>1, <2>2 DEF Digests
  <2>4. CalcOK'
    BY <1>1, <2>1, <2>2, <2>3 DEF CalcOK, PcState
  <2>5. DiskOK'
    BY <1>1, <2>1, <2>2, FileTypes, NoneTyped DEF DiskOK
  <2> QED  BY <1>1, <1>2, <1>3, <2>1, <2>4, <2>5, Parts, Unchanged
<1>12. CASE WriteTag
  <2> DEFINE t == [st |-> "ok", index |-> index, sig |-> sig]
  <2>1. /\ pc = "write" /\ FillTag("calc", at, t) /\ at' = at + 1 /\ isReport' = TRUE
        /\ pc' = "scan" /\ UNCHANGED <<list, sig, index, try, passes, keys, onChain, fails>>
    BY <1>12 DEF WriteTag
  <2>2. at \in Frag /\ t \in Tag
    BY <1>1, <2>1 DEF CalcOK, Tag, TagState
  <2> HIDE DEF t
  <2>3. CalcOK'
    BY <1>1, <2>1, <2>2, NIsNat DEF CalcOK, PcState, Frag
  <2>4. DiskOK'
    BY <1>1, <2>1, <2>2, FileTypes DEF DiskOK
  <2> QED  BY <1>1, <1>2, <1>3, <2>1, <2>3, <2>4, Parts, Unchanged
<1>13. CASE Decide
  <2>1. /\ UNCHANGED <<tag, keys, onChain, orphan>>
        /\ UNCHANGED fails \/ Failure
        /\ Return \/ Goto("report")
    BY <1>13 DEF Decide
  <2>2. CalcOK'
    BY <1>1, <2>1, ReturnTypes, GotoTypes DEF PcState
  <2> QED  BY <1>1, <1>2, <1>3, <2>1, <2>2, Parts, Unchanged
<1>14. CASE ReportInvalid
  <2> DEFINE bad == Misfits(Frag, N)
  <2>1. bad # {} /\ RemoveTag("calc", First(bad)) /\ UNCHANGED <<keys, onChain, fails>>
        /\ StartRemoval(1)
    BY <1>14 DEF ReportInvalid
  <2>2. bad \subseteq Frag
    BY DEF Misfits
  <2> HIDE DEF bad
  <2>3. First(bad) \in Frag
    BY <2>1, <2>2, FirstIn
  <2>4. DiskOK'
    BY <1>1, <2>1, <2>3, FileTypes, NoneTyped DEF DiskOK
  <2> QED  BY <1>1, <1>2, <1>3, <2>1, <2>4, Parts, Unchanged, RemovalTypes
<1>15. CASE Report
  <2>1. /\ \A j \in Frag : Digest(Frag, N)[j] # Hole
        /\ list' = Digest(Frag, N) /\ sig' = tag[Last(Indexed(Frag, N))].sig /\ try' = 1
        /\ pc' = "send" /\ UNCHANGED <<at, index, isReport, passes>>
        /\ UNCHANGED <<tag, keys, onChain, orphan>> /\ UNCHANGED fails
    BY <1>15 DEF Report
  <2>2. list' \in Digests
    BY <2>1, DigestTyped, NIsNat
  <2>3. N \in 1..N
    BY NIsNat
  <2>4. Indexed(Frag, N) # {} /\ Indexed(Frag, N) \subseteq Frag
    BY <2>1, <2>3 DEF Digest, Frag, Indexed
  <2>5. sig' \in Digests
    BY <1>1, <2>1, <2>4, LastIn DEF Tag
  <2>6. CalcOK'
    BY <1>1, <2>1, <2>2, <2>5, NIsNat DEF CalcOK, PcState
  <2> QED  BY <1>1, <1>2, <1>3, <2>1, <2>6, Parts, Unchanged
<1>16. CASE Send
  <2>1. /\ UNCHANGED <<tag, keys, orphan>> /\ (onChain' = onChain \/ onChain' \in BOOLEAN)
        /\ UNCHANGED fails \/ Failure
        /\ Goto("height") \/ Goto("recheck")
    BY <1>16 DEF Send
  <2>2. CalcOK'
    BY <1>1, <2>1, GotoTypes DEF PcState
  <2>3. DiskOK'
    BY <1>1, <2>1 DEF DiskOK
  <2> QED  BY <1>1, <1>2, <1>3, <2>1, <2>2, <2>3, Parts, Unchanged
<1>17. CASE Recheck
  <2>1. UNCHANGED <<tag, onChain, orphan>>
    BY <1>17 DEF Recheck
  <2>2. CASE PutKeys(1)
    <3>1. keys' \subseteq Frag /\ CalcOK' /\ FailsOK'
      BY <1>1, <2>2, PutKeysTypes
    <3> QED  BY <1>1, <1>2, <1>3, <2>1, <3>1, Parts DEF DiskOK
  <2>3. CASE /\ Failure \/ UNCHANGED fails
             /\ UNCHANGED keys
             /\ IF try < SubmitTries
                THEN pc' = "send" /\ try' = try + 1
                     /\ UNCHANGED <<at, list, sig, index, isReport, passes>>
                ELSE StartRemoval(2)
    <3>1. CASE StartRemoval(2)
      BY <1>1, <1>2, <1>3, <2>1, <2>3, <3>1, Parts, Unchanged, RemovalTypes
    <3>2. CASE /\ try < SubmitTries /\ pc' = "send" /\ try' = try + 1
               /\ UNCHANGED <<at, list, sig, index, isReport, passes>>
      <4>1. CalcOK'
        BY <1>1, <3>2, NIsNat DEF CalcOK, PcState
      <4> QED  BY <1>1, <1>2, <1>3, <2>1, <2>3, <4>1, Parts, Unchanged
    <3> QED  BY <2>3, <3>1, <3>2
  <2> QED  BY <1>17, <2>2, <2>3 DEF Recheck
<1>18. CASE Height
  <2>1. UNCHANGED <<tag, onChain, orphan>>
    BY <1>18 DEF Height
  <2>2. CASE PutKeys(1)
    <3>1. keys' \subseteq Frag /\ CalcOK' /\ FailsOK'
      BY <1>1, <2>2, PutKeysTypes
    <3> QED  BY <1>1, <1>2, <1>3, <2>1, <3>1, Parts DEF DiskOK
  <2>3. CASE Failure /\ StartRemoval(1) /\ UNCHANGED keys
    BY <1>1, <1>2, <1>3, <2>1, <2>3, Parts, Unchanged, RemovalTypes
  <2> QED  BY <1>18, <2>2, <2>3 DEF Height
<1>19. CASE Remove
  <2>1. pc = "remove" /\ at \in Frag /\ RemoveTag("calc", at) /\ UNCHANGED <<keys, onChain, fails>>
    BY <1>1, <1>19 DEF Remove, CalcOK
  <2>2. DiskOK'
    BY <1>1, <2>1, FileTypes, NoneTyped DEF DiskOK
  <2>3. CalcOK'
    <3>1. CASE at < N /\ at' = at + 1 /\ UNCHANGED <<pc, list, sig, index, isReport, try, passes>>
      BY <1>1, <2>1, <3>1, NIsNat DEF CalcOK, Frag
    <3>2. CASE passes > 1 /\ StartRemoval(passes - 1)
      <4>1. passes - 1 \in 1..2
        BY <1>1, <3>2 DEF CalcOK
      <4> QED  BY <1>1, <3>2, <4>1, RemovalTypes
    <3> QED  BY <1>19, <3>1, <3>2, ReturnTypes DEF Remove
  <2> QED  BY <1>1, <1>2, <1>3, <2>1, <2>2, <2>3, Parts, Unchanged
<1> QED  BY <1>5, <1>6, <1>7, <1>8, <1>9, <1>10, <1>11, <1>12, <1>13, <1>14, <1>15, <1>16,
            <1>17, <1>18, <1>19 DEF CalcStep

LEMMA CheckReturnTypes == CheckReturn => CheckOK'
<1> SUFFICES ASSUME CheckReturn PROVE CheckOK'
  OBVIOUS
<1>1. cpc' = "off" /\ cfrag' \in Frag /\ cindex' \in Nat
  BY NIsNat DEF CheckReturn
<1>2. again' \in BOOLEAN
  BY DEF CheckReturn
<1> QED  BY <1>1, <1>2 DEF CheckOK, CheckPc

LEMMA CheckTypes ==
  ASSUME TypeInv, CheckStep \/ (\E f \in Frag : CheckStart(f)) PROVE TypeInv'
<1>1. /\ DiskOK /\ CalcOK /\ CheckOK /\ HistoryOK /\ FailsOK /\ cfrag \in Frag
      /\ Files \subseteq Frag
  BY Parts DEF CheckOK, Files
<1>2. CalcOK' /\ UNCHANGED <<keys, onChain>>
  BY <1>1, Unchanged DEF CheckStep, CheckRead, CheckTee, CheckCreate, CheckWrite, CheckDrop,
     CheckStart
<1>3. CASE \E f \in Frag : CheckStart(f)
  <2>1. HistoryOK' /\ CheckOK'
    BY <1>1, <1>3, ConstantAssumption DEF CheckStart, HistoryOK, CheckOK, CheckPc
  <2>2. UNCHANGED <<tag, keys, onChain, orphan>> /\ UNCHANGED fails
    BY <1>3 DEF CheckStart
  <2> QED  BY <1>1, <1>2, <2>1, <2>2, Parts, Unchanged
<1>4. CASE CheckRead
  <2>1. CheckReturn \/ (cpc' = "tee" /\ again' \in {again, TRUE} /\ UNCHANGED <<cfrag, cindex>>)
    BY <1>4 DEF CheckRead
  <2>2. CheckOK'
    BY <1>1, <2>1, CheckReturnTypes DEF CheckOK, CheckPc
  <2>3. UNCHANGED <<tag, orphan>> \/ RemoveTag("check", cfrag)
    BY <1>4 DEF CheckRead
  <2>4. DiskOK'
    BY <1>1, <1>2, <2>3, FileTypes, NoneTyped DEF DiskOK
  <2>5. UNCHANGED history /\ UNCHANGED fails
    BY <1>4 DEF CheckRead
  <2> QED  BY <1>1, <1>2, <2>2, <2>4, <2>5, Parts, Unchanged
<1>5. CASE CheckTee
  <2>1. UNCHANGED <<tag, keys, onChain, orphan>> /\ UNCHANGED history /\ (Failure \/ UNCHANGED fails)
    BY <1>5 DEF CheckTee
  <2>2. Cardinality(Files) \in Nat
    BY <1>1, PartFinite
  <2>3. CheckReturn \/ (cindex' = Cardinality(Files) + 1 /\ cpc' = "create" /\ UNCHANGED <<cfrag, again>>)
    BY <1>5 DEF CheckTee
  <2>4. CheckOK'
    BY <1>1, <2>2, <2>3, CheckReturnTypes DEF CheckOK, CheckPc
  <2> QED  BY <1>1, <1>2, <2>1, <2>4, Parts, Unchanged
<1>6. CASE CheckCreate
  <2>1. UNCHANGED history /\ UNCHANGED fails
    BY <1>6 DEF CheckCreate
  <2>2. CheckOK'
    BY <1>1, <1>6 DEF CheckCreate, CheckOK, CheckPc
  <2>3. DiskOK'
    BY <1>1, <1>2, <1>6, FileTypes, NoneTyped DEF CheckCreate, DiskOK
  <2> QED  BY <1>1, <1>2, <2>1, <2>2, <2>3, Parts, Unchanged
<1>7. CASE CheckWrite
  <2> DEFINE t == [st |-> "ok", index |-> cindex, sig |-> <<cfrag>>]
  <2>1. UNCHANGED history /\ UNCHANGED fails /\ FillTag("check", cfrag, t)
    BY <1>7 DEF CheckWrite
  <2>2. t \in Tag
    <3>1. <<cfrag>> \in Digests /\ cindex \in Nat
      BY <1>1 DEF Digests, CheckOK
    <3> QED  BY <3>1 DEF Tag, TagState
  <2> HIDE DEF t
  <2>3. CheckReturn \/ (cpc' = "drop" /\ UNCHANGED <<cfrag, cindex, again>>)
    BY <1>7 DEF CheckWrite
  <2>4. CheckOK'
    BY <1>1, <2>3, CheckReturnTypes DEF CheckOK, CheckPc
  <2>5. DiskOK'
    BY <1>1, <1>2, <2>1, <2>2, FileTypes DEF DiskOK
  <2> QED  BY <1>1, <1>2, <2>1, <2>4, <2>5, Parts, Unchanged
<1>8. CASE CheckDrop
  <2>1. UNCHANGED history /\ UNCHANGED fails
    BY <1>8 DEF CheckDrop
  <2>2. CheckOK'
    BY <1>1, <1>8 DEF CheckDrop, CheckOK, CheckPc
  <2>3. DiskOK'
    BY <1>1, <1>2, <1>8, FileTypes, NoneTyped DEF CheckDrop, DiskOK
  <2> QED  BY <1>1, <1>2, <2>1, <2>2, <2>3, Parts, Unchanged
<1> QED  BY <1>3, <1>4, <1>5, <1>6, <1>7, <1>8 DEF CheckStep

LEMMA CrashTypes == ASSUME TypeInv, Crash PROVE TypeInv'
<1>1. DiskOK /\ HistoryOK /\ FailsOK
  BY Parts
<1>2. CalcOK' /\ CheckOK'
  BY ReturnTypes, CheckReturnTypes DEF Crash
<1>3. HistoryOK' /\ FailsOK'
  <2>1. MaxCrashes \in Nat
    BY ConstantAssumption
  <2>2. crashes' \in 0..MaxCrashes /\ torn' \in BOOLEAN
    BY <1>1, <2>1 DEF Crash, HistoryOK
  <2> QED  BY <1>1, <2>2 DEF Crash, HistoryOK, FailsOK
<1>4. DiskOK'
  <2>1. tag' \in [Frag -> Tag]
    BY <1>1, NoneTyped DEF Crash, DiskOK
  <2> QED  BY <1>1, <2>1 DEF Crash, DiskOK
<1> QED  BY <1>2, <1>3, <1>4, Parts

LEMMA InitTypes == Init => TypeInv
<1> SUFFICES ASSUME Init PROVE TypeInv
  OBVIOUS
<1>1. DiskOK
  BY NoneTyped DEF Init, DiskOK
<1>2. list \in Digests /\ sig \in Digests /\ 1 \in 1..(N + 1) /\ 1 \in 1..SubmitTries
  BY NoneTyped, NIsNat DEF Init
<1>3. /\ pc = "off" /\ at = 1 /\ try = 1 /\ passes \in 1..2 /\ index \in Nat
  BY DEF Init
<1>4. CalcOK
  <2>1. isReport \in BOOLEAN
    BY DEF Init
  <2> QED  BY <1>2, <1>3, <2>1 DEF CalcOK, PcState
<1>5. CheckOK
  BY NIsNat DEF Init, CheckOK, CheckPc
<1>6. HistoryOK /\ FailsOK
  <2>1. strict \in BOOLEAN /\ panicked \in BOOLEAN /\ torn \in BOOLEAN
    BY DEF Init
  <2>2. crashes \in 0..MaxCrashes /\ checks \in 0..MaxChecks /\ fails \in 0..MaxFails
    BY ConstantAssumption DEF Init
  <2> QED  BY <2>1, <2>2 DEF HistoryOK, FailsOK
<1> QED  BY <1>1, <1>4, <1>5, <1>6, Parts

LEMMA NextTypes == TypeInv /\ [Next]_vars => TypeInv'
<1> SUFFICES ASSUME TypeInv, [Next]_vars PROVE TypeInv'
  OBVIOUS
<1>1. CASE UNCHANGED vars
  BY <1>1, Unchanged, Parts DEF vars, calcVars, checkVars, history
<1> QED  BY <1>1, CalcTypes, CheckTypes, CrashTypes DEF Next

\* The loops of CalcTag and checkTag stay within the fragments and the attempts, and
\* what they put on disk are tags with digest lists over the file's fragments.
THEOREM TypeCorrect == Spec => []TypeOK
<1>1. TypeInv => TypeOK
  BY DEF TypeInv
<1> QED  BY InitTypes, NextTypes, <1>1, PTL DEF Spec
-----------------------------------------------------------------------------
(* TagsKept. *)

\* Counters only grow.
LEMMA FailsGrow == ASSUME TypeInv, Failure PROVE fails' # 0
  BY DEF TypeInv, TypeOK, Failure

\* Steps that leave the tags and the chain alone and end in a harmless place.
LEMMA TagQuiet ==
  ASSUME TagInv, UNCHANGED <<tag, onChain, cpc, crashes, fails>>,
         \/ pc' = "off" /\ isReport' = FALSE
         \/ pc' \in {"scan", "decide"} /\ isReport' = isReport /\ pc \in {"off", "scan"}
  PROVE  TagInv'
  BY DEF TagInv, AllTagged

\* Steps of a file that is not reported yet.
LEMMA TagBefore ==
  ASSUME TagInv, UNCHANGED <<onChain, cpc, crashes, fails>>, fails = 0 /\ crashes = 0 => ~onChain,
         pc' = "off" => isReport' = FALSE, pc' \in {"send", "recheck"} => AllTagged'
  PROVE  TagInv'
  BY DEF TagInv

\* After a failure nothing is promised.
LEMMA TagFailed ==
  ASSUME fails' # 0 \/ crashes' # 0, pc' = "off" => isReport' = FALSE
  PROVE  TagInv'
  BY DEF TagInv

LEMMA TagCalcStep == ASSUME TypeInv, TagInv, CalcStep PROVE TagInv'
<1>1. UNCHANGED <<cpc, crashes>>
  BY DEF CalcStep, Start, ScanInvalid, ScanPanics, ScanCalced, ScanRequest,
     ScanEnds, TeeAnswers, TeeFails, WriteTag, Decide, ReportInvalid, ReportPanics, Report, Send,
     Recheck, Height, Remove, checkVars, history
<1>2. at \in 1..(N + 1) /\ (at <= N => at \in Frag)
  BY NIsNat DEF TypeInv, TypeOK, Frag
<1>3. CASE Start \/ ScanCalced \/ ScanEnds
  BY <1>1, <1>3, TagQuiet DEF Start, ScanCalced, ScanEnds, Goto
<1>4. CASE ScanPanics \/ ReportPanics \/ TeeFails
  <2>1. UNCHANGED <<tag, onChain>> /\ pc' = "off" /\ isReport' = FALSE /\ (UNCHANGED fails \/ Failure)
    BY <1>4 DEF ScanPanics, ReportPanics, TeeFails, Return
  <2> QED  BY <1>1, <2>1, TagQuiet, TagFailed, FailsGrow
<1>5. CASE ScanInvalid
  <2> DEFINE bad == Misfits(Files \ {at}, Cardinality(Files))
  <2>1. /\ bad # {} /\ tag[First(bad)].st # "ok" /\ UNCHANGED <<onChain, fails>>
        /\ pc' = "off" /\ isReport' = FALSE
    BY <1>5 DEF ScanInvalid, Return
  <2>2. bad \subseteq Frag
    BY DEF Misfits, Files
  <2> HIDE DEF bad
  <2>3. First(bad) \in Frag
    BY <2>1, <2>2, FirstIn
  <2>4. ~AllTagged
    BY <2>1, <2>3 DEF AllTagged
  <2>5. fails = 0 /\ crashes = 0 => ~onChain
    BY <2>4 DEF TagInv
  <2> QED  BY <1>1, <2>1, <2>5, TagBefore
<1>6. CASE ScanRequest
  <2>1. at \in Frag /\ tag[at].st # "ok" /\ UNCHANGED <<onChain, fails>> /\ pc' = "tee"
    BY <1>2, <1>6 DEF ScanRequest
  <2>2. ~AllTagged
    BY <2>1 DEF AllTagged
  <2>3. fails = 0 /\ crashes = 0 => ~onChain
    BY <2>2 DEF TagInv
  <2> QED  BY <1>1, <2>1, <2>3, TagBefore
<1>7. CASE TeeAnswers \/ WriteTag \/ ReportInvalid \/ Remove
  <2>1. pc \in {"tee", "write", "report", "remove"} /\ UNCHANGED <<onChain, fails>>
    BY <1>7 DEF TeeAnswers, WriteTag, ReportInvalid, Remove
  <2>2. fails = 0 /\ crashes = 0 => ~onChain
    BY <2>1 DEF TagInv
  <2>3. (pc' = "off" => isReport' = FALSE) /\ pc' \notin {"send", "recheck"}
    BY <1>7, <2>1 DEF TeeAnswers, WriteTag, ReportInvalid, Remove, StartRemoval, Return
  <2> QED  BY <1>1, <2>1, <2>2, <2>3, TagBefore
<1>8. CASE Decide
  <2>1. CASE Failure /\ Return
    BY <2>1, FailsGrow, TagFailed DEF Return
  <2>2. CASE UNCHANGED fails /\ Return
    BY <1>1, <1>8, <2>2, TagQuiet DEF Return, Decide
  <2>3. CASE UNCHANGED fails /\ (isReport \/ ~onChain) /\ Goto("report")
    <3>1. pc = "decide" /\ onChain' = onChain /\ pc' = "report"
      BY <1>8, <2>3 DEF Decide, Goto
    <3>2. fails = 0 /\ crashes = 0 => ~onChain
      BY <2>3, <3>1 DEF TagInv
    <3> QED  BY <1>1, <2>3, <3>1, <3>2, TagBefore
  <2> QED  BY <1>8, <2>1, <2>2, <2>3 DEF Decide
<1>9. CASE Report
  <2>1. /\ pc = "report" /\ Misfits(Frag, N) = {} /\ pc' = "send"
        /\ UNCHANGED <<onChain, fails>> /\ tag' = tag
    BY <1>9 DEF Report
  <2>2. fails = 0 /\ crashes = 0 => ~onChain
    BY <2>1 DEF TagInv
  <2>3. AllTagged'
    BY <2>1 DEF Misfits, AllTagged
  <2> QED  BY <1>1, <2>1, <2>2, <2>3, TagBefore
<1>10. CASE Send
  <2>1. pc = "send" /\ tag' = tag /\ pc' \in {"height", "recheck"}
    BY <1>10 DEF Send, Goto
  <2>2. CASE Failure
    BY <2>1, <2>2, FailsGrow, TagFailed
  <2>3. CASE UNCHANGED fails /\ ((pc' = "height" /\ onChain' = TRUE)
                                 \/ (pc' = "recheck" /\ onChain' = onChain))
    BY <1>1, <2>1, <2>3 DEF TagInv, AllTagged
  <2> QED  BY <1>10, <2>2, <2>3 DEF Send, Goto
<1>11. CASE Recheck
  <2>1. pc = "recheck" /\ tag' = tag /\ onChain' = onChain
    BY <1>11 DEF Recheck
  <2>2. pc' = "off" => isReport' = FALSE
    BY <1>11 DEF Recheck, PutKeys, Return, StartRemoval
  <2>3. CASE Failure
    BY <2>2, <2>3, FailsGrow, TagFailed
  <2>4. CASE UNCHANGED fails
    <3>1. (fails = 0 /\ crashes = 0 => ~onChain) /\ (fails = 0 /\ crashes = 0 => AllTagged)
      BY <2>1 DEF TagInv
    <3>2. CASE fails = 0 /\ crashes = 0
      BY <1>1, <2>1, <2>2, <2>4, <3>1, <3>2, TagBefore DEF AllTagged
    <3>3. CASE ~(fails = 0 /\ crashes = 0)
      BY <1>1, <2>2, <2>4, <3>3, TagFailed
    <3> QED  BY <3>2, <3>3
  <2> QED  BY <1>11, <2>3, <2>4 DEF Recheck, PutKeys
<1>12. CASE Height
  <2>1. tag' = tag /\ onChain' = onChain
    BY <1>12 DEF Height
  <2>2. pc' = "off" => isReport' = FALSE
    BY <1>12 DEF Height, PutKeys, Return, StartRemoval
  <2>3. CASE Failure
    BY <2>2, <2>3, FailsGrow, TagFailed
  <2>4. CASE UNCHANGED fails /\ pc' = "off"
    BY <1>1, <2>1, <2>2, <2>4, TagQuiet
  <2> QED  BY <1>12, <2>3, <2>4 DEF Height, PutKeys, Return
<1> QED  BY <1>3, <1>4, <1>5, <1>6, <1>7, <1>8, <1>9, <1>10, <1>11, <1>12 DEF CalcStep

LEMMA TagCheckStep ==
  ASSUME TypeInv, TagInv, CheckStep \/ (\E f \in Frag : CheckStart(f)) PROVE TagInv'
<1>1. UNCHANGED <<pc, isReport, onChain, crashes>>
  BY DEF CheckStep, CheckRead, CheckTee, CheckCreate, CheckWrite, CheckDrop, CheckStart, calcVars,
     history
<1>2. cfrag \in Frag
  BY DEF TypeInv, TypeOK
<1>3. CASE \E f \in Frag : CheckStart(f)
  <2>1. onChain /\ cpc' = "read" /\ UNCHANGED <<tag, fails>>
    BY <1>3 DEF CheckStart
  <2> QED  BY <1>1, <2>1 DEF TagInv, AllTagged
<1>4. CASE CheckStep /\ fails = 0 /\ crashes = 0
  <2>1. cpc # "off"
    BY <1>4 DEF CheckStep, CheckRead, CheckTee, CheckCreate, CheckWrite, CheckDrop
  <2>2. cpc = "read" /\ onChain /\ AllTagged
    BY <1>4, <2>1 DEF TagInv
  <2>3. CheckRead
    BY <1>4, <2>2 DEF CheckStep, CheckTee, CheckCreate, CheckWrite, CheckDrop
  <2>4. tag[cfrag].st = "ok"
    BY <1>2, <2>2 DEF AllTagged
  <2>5. CheckReturn /\ UNCHANGED <<tag, fails>>
    BY <2>3, <2>4 DEF CheckRead
  <2> QED  BY <1>1, <2>2, <2>5 DEF TagInv, AllTagged, CheckReturn
<1>5. CASE CheckStep /\ ~(fails = 0 /\ crashes = 0)
  <2>1. UNCHANGED fails \/ Failure
    BY <1>5 DEF CheckStep, CheckRead, CheckTee, CheckCreate, CheckWrite, CheckDrop
  <2>2. ~(fails' = 0 /\ crashes' = 0)
    BY <1>1, <1>5, <2>1, FailsGrow
  <2> QED  BY <1>1, <2>2 DEF TagInv
<1> QED  BY <1>3, <1>4, <1>5

LEMMA TagNext == TypeInv /\ TagInv /\ [Next]_vars => TagInv'
<1> SUFFICES ASSUME TypeInv, TagInv, [Next]_vars PROVE TagInv'
  OBVIOUS
<1>1. CASE UNCHANGED vars
  BY <1>1 DEF vars, TagInv, AllTagged
<1>2. CASE Crash
  <2>1. crashes' # 0 /\ isReport' = FALSE
    BY <1>2 DEF Crash, Return, TypeInv, TypeOK
  <2> QED  BY <2>1, TagFailed
<1> QED  BY <1>1, <1>2, TagCalcStep, TagCheckStep DEF Next

LEMMA TagInit == Init => TagInv
  BY DEF Init, TagInv

\* Once the chain holds the tags of a file they stay on disk as long as no call fails
\* and the process does not crash, with service challenges checking them meanwhile.
THEOREM TagsStay == Spec => []TagsKept
<1>1. TagInv => TagsKept
  BY DEF TagInv, TagsKept, AllTagged
<1> QED  BY InitTypes, NextTypes, TagInit, TagNext, <1>1, PTL DEF Spec
-----------------------------------------------------------------------------
(* PanicNeedsTornRemoval. *)

\* Steps that touch no complete tag.
SameTags ==
  \A f \in Frag : /\ tag'[f].st = "ok" <=> tag[f].st = "ok"
                  /\ tag[f].st = "ok" => tag'[f].index = tag[f].index

LEMMA SameOrder == ASSUME SameTags PROVE Tagged' = Tagged /\ (Consecutive => Consecutive')
<1>1. Tagged' = Tagged
  BY DEF SameTags, Tagged
<1>2. \A f \in Tagged : tag'[f].index = tag[f].index
  BY DEF SameTags, Tagged
<1> QED  BY <1>1, <1>2 DEF Consecutive

LEMMA TaggedFinite ==
  /\ Tagged \subseteq Files /\ Files \subseteq Frag /\ IsFiniteSet(Tagged)
  /\ Cardinality(Tagged) \in Nat /\ Cardinality(Files) \in Nat
  /\ Cardinality(Tagged) <= Cardinality(Files)
<1>1. Tagged \subseteq Files /\ Files \subseteq Frag
  BY DEF Tagged, Files
<1>2. IsFiniteSet(Files) /\ Cardinality(Files) \in Nat
  BY <1>1, PartFinite
<1>3. IsFiniteSet(Tagged) /\ Cardinality(Tagged) \in Nat
  BY <1>1, PartFinite
<1>4. Cardinality(Tagged) <= Cardinality(Files)
  BY <1>1, <1>2, FS_Subset
<1> QED  BY <1>1, <1>2, <1>3, <1>4

\* RemoveTag with nobody else writing.
LEMMA RemoveAlone ==
  ASSUME TypeInv, Orderly, NEW f \in Frag, RemoveTag("calc", f)
  PROVE  /\ orphan' = {} /\ tag'[f].st = "none"
         /\ \A g \in Frag : g # f => tag'[g] = tag[g]
         /\ tag[f].st # "ok" => SameTags
<1>1. tag \in [Frag -> Tag] /\ orphan = {} /\ cpc = "off"
  BY DEF TypeInv, TypeOK, Orderly
<1>2. orphan' = {}
  BY <1>1 DEF RemoveTag, Writing
<1>3. tag'[f].st = "none" /\ \A g \in Frag : g # f => tag'[g] = tag[g]
  BY <1>1 DEF RemoveTag, NoTag
<1>4. tag[f].st # "ok" => SameTags
  BY <1>3 DEF SameTags
<1> QED  BY <1>2, <1>3, <1>4

\* A step after which the indices are as before.
LEMMA OrderlySame ==
  ASSUME Orderly, pc # "remove", SameTags, ~panicked', cpc' = "off", orphan' = {},
         pc' \notin {"tee", "write"}, pc' = "remove" => at' = 1
  PROVE  Orderly'
<1>1. Consecutive'
  BY SameOrder DEF Orderly
<1>2. pc' = "remove" => \A f \in Frag : ~(f < at')
  BY DEF Frag
<1> QED  BY <1>1, <1>2 DEF Orderly

\* No tag's index is beyond the list that calcRequestDigest makes.
LEMMA NoScanPanic == ASSUME TypeInv, Orderly, ScanPanics PROVE FALSE
<1> DEFINE bad == Misfits(Files \ {at}, Cardinality(Files))
<1>1. pc = "scan" /\ bad # {} /\ tag[First(bad)].st = "ok"
  BY DEF ScanPanics
<1>2. bad \subseteq Frag /\ \A f \in bad : tag[f].st # "ok" \/ tag[f].index > Cardinality(Files)
  BY DEF Misfits, Files
<1> HIDE DEF bad
<1>3. First(bad) \in bad
  BY <1>1, <1>2, FirstIn
<1> DEFINE f == First(bad)
<1>4. f \in Tagged /\ tag[f].index > Cardinality(Files)
  BY <1>1, <1>2, <1>3 DEF Tagged
<1>5. tag[f].index \in 1..Cardinality(Tagged)
  BY <1>1, <1>4 DEF Orderly, Consecutive
<1> QED  BY <1>4, <1>5, TaggedFinite

\* The list that reportFileTag makes has no hole.
LEMMA NoReportPanic == ASSUME TypeInv, Orderly, ReportPanics PROVE FALSE
<1>1. pc = "report" /\ Misfits(Frag, N) = {}
  BY DEF ReportPanics
<1>2. PICK j \in Frag : Digest(Frag, N)[j] = Hole
  BY DEF ReportPanics
<1>3. Tagged = Frag
  BY <1>1 DEF Misfits, Tagged
<1>4. Cardinality(Tagged) = N
  BY <1>3, FragFinite
<1>5. PICK f \in Tagged : tag[f].index = j
  BY <1>1, <1>2, <1>4 DEF Orderly, Consecutive, Frag
<1>6. f \in Indexed(Frag, j) /\ Indexed(Frag, j) \subseteq Frag
  BY <1>3, <1>5 DEF Indexed
<1>7. Last(Indexed(Frag, j)) \in Frag
  BY <1>6, LastIn
<1>8. Digest(Frag, N)[j] = Last(Indexed(Frag, j))
  BY <1>2, <1>6 DEF Digest, Frag
<1> QED  BY <1>2, <1>7, <1>8 DEF Frag, Hole

\* The index that calcRequestDigest gives out is the next one.
LEMMA NextIndex ==
  ASSUME TypeInv, Consecutive, Tagged = Files \ {at},
         \A f \in Tagged : tag[f].index <= Cardinality(Files)
  PROVE  MaxIndex(Tagged) = Cardinality(Tagged)
<1>1. CASE Tagged = {}
  BY <1>1, FS_EmptySet DEF MaxIndex
<1>2. CASE Tagged # {}
  <2>1. tag \in [Frag -> Tag] /\ Tagged \subseteq Frag
    BY DEF TypeInv, TypeOK, Tagged
  <2>2. PICK f \in Tagged : /\ \A g \in Tagged : tag[g].index <= tag[f].index
                            /\ MaxIndex(Tagged) = tag[f].index
    BY <1>2, <2>1, TaggedFinite, Highest
  <2> DEFINE k == Cardinality(Tagged)
  <2>3. k \in Nat /\ tag[f].index \in 1..k
    BY TaggedFinite DEF Consecutive
  <2>4. k \in 1..k
    BY <2>3
  <2>5. PICK e \in Tagged : tag[e].index = k
    BY <2>4 DEF Consecutive
  <2>6. k <= tag[f].index
    BY <2>2, <2>5
  <2> QED  BY <2>2, <2>3, <2>6
<1> QED  BY <1>1, <1>2

LEMMA ScanRequestOrder == ASSUME TypeInv, Orderly, ScanRequest PROVE Orderly'
<1> DEFINE S == Files \ {at}
<1>1. /\ pc = "scan" /\ at <= N /\ Misfits(S, Cardinality(Files)) = {} /\ tag[at].st # "ok"
      /\ index' = MaxIndex(S) + 1 /\ RemoveTag("calc", at) /\ pc' = "tee" /\ at' = at
      /\ panicked' = panicked /\ cpc' = cpc
  BY DEF ScanRequest, history, checkVars
<1>2. at \in Frag /\ tag \in [Frag -> Tag]
  BY <1>1, NIsNat DEF TypeInv, TypeOK, Frag
<1>3. \A f \in S : f \in Frag /\ tag[f].st = "ok" /\ ~(tag[f].index > Cardinality(Files))
  BY <1>1 DEF Misfits, Files
<1>4. Tagged = S
  BY <1>1, <1>3 DEF Tagged, Files
<1>5. \A f \in Tagged : tag[f].index <= Cardinality(Files)
  BY <1>2, <1>3, <1>4, TaggedFinite DEF Tag
<1>6. Consecutive
  BY <1>1 DEF Orderly
<1>7. MaxIndex(S) = Cardinality(Tagged)
  BY <1>4, <1>5, <1>6, NextIndex
<1>8. orphan' = {} /\ tag'[at].st = "none" /\ SameTags
  BY <1>1, <1>2, RemoveAlone
<1>9. Tagged' = Tagged /\ Consecutive'
  BY <1>6, <1>8, SameOrder
<1> HIDE DEF S
<1> QED  BY <1>1, <1>7, <1>8, <1>9 DEF Orderly

LEMMA TeeAnswersOrder == ASSUME TypeInv, Orderly, TeeAnswers PROVE Orderly'
<1>1. /\ pc = "tee" /\ CreateTag("calc", at) /\ pc' = "write" /\ at' = at /\ index' = index
      /\ panicked' = panicked /\ cpc' = cpc
  BY DEF TeeAnswers, history, checkVars
<1>2. at \in Frag /\ tag \in [Frag -> Tag]
  BY <1>1 DEF TypeInv, TypeOK
<1>3. orphan' = {} /\ tag'[at].st = "short" /\ \A g \in Frag : g # at => tag'[g] = tag[g]
  BY <1>1, <1>2 DEF CreateTag, Partial, Orderly
<1>4. SameTags
  BY <1>1, <1>2, <1>3 DEF SameTags, Orderly
<1>5. Tagged' = Tagged /\ Consecutive'
  BY <1>1, <1>4, SameOrder DEF Orderly
<1> QED  BY <1>1, <1>3, <1>5 DEF Orderly

\* The new tag continues the indices.
LEMMA WriteTagOrder == ASSUME TypeInv, Orderly, WriteTag PROVE Orderly'
<1> DEFINE t == [st |-> "ok", index |-> index, sig |-> sig]
           k == Cardinality(Tagged)
<1>1. /\ pc = "write" /\ FillTag("calc", at, t) /\ pc' = "scan"
      /\ panicked' = panicked /\ cpc' = cpc
  BY DEF WriteTag, history, checkVars
<1>2. at \in Frag /\ tag \in [Frag -> Tag]
  BY <1>1 DEF TypeInv, TypeOK
<1>3. /\ orphan = {} /\ tag[at].st = "short" /\ index = k + 1 /\ Consecutive /\ ~panicked
      /\ cpc = "off"
  BY <1>1 DEF Orderly
<1>4. tag' = [tag EXCEPT ![at] = t] /\ orphan' = {}
  BY <1>1, <1>3 DEF FillTag
<1>5. tag'[at].st = "ok" /\ tag'[at].index = k + 1
  BY <1>2, <1>3, <1>4
<1>6. \A g \in Frag : g # at => tag'[g] = tag[g]
  BY <1>2, <1>4
<1>7. at \notin Tagged
  BY <1>3 DEF Tagged
<1>8. Tagged' = Tagged \cup {at}
  BY <1>2, <1>5, <1>6 DEF Tagged
<1>9. k \in Nat /\ IsFiniteSet(Tagged)
  BY TaggedFinite
<1>10. Cardinality(Tagged \cup {at}) = k + 1
  BY <1>7, <1>9, FS_AddElement
<1>11. \A f \in Tagged : tag'[f].index = tag[f].index /\ tag[f].index \in 1..k
  BY <1>3, <1>6, <1>7 DEF Consecutive, Tagged
<1>12. \A j \in 1..k : \E f \in Tagged : tag[f].index = j
  BY <1>3 DEF Consecutive
<1> HIDE DEF k
<1>13. \A f \in Tagged \cup {at} : tag'[f].index \in 1..(k + 1)
  BY <1>5, <1>9, <1>11
<1>14. ASSUME NEW j \in 1..(k + 1) PROVE \E f \in Tagged \cup {at} : tag'[f].index = j
  <2>1. CASE j = k + 1
    BY <1>5, <2>1
  <2>2. CASE j # k + 1
    <3>1. j \in 1..k
      BY <1>9, <2>2
    <3> QED  BY <1>11, <1>12, <3>1
  <2> QED  BY <2>1, <2>2
<1>15. Consecutive'
  BY <1>8, <1>10, <1>13, <1>14 DEF Consecutive
<1> QED  BY <1>1, <1>3, <1>4, <1>15 DEF Orderly

\* A removal loop that runs to its end leaves no tag.
LEMMA RemoveOrder == ASSUME TypeInv, Orderly, Remove PROVE Orderly'
<1>1. pc = "remove" /\ RemoveTag("calc", at) /\ panicked' = panicked /\ cpc' = cpc
  BY DEF Remove, history, checkVars
<1>2. at \in Frag /\ at \in Nat /\ N \in Nat
  BY <1>1, NIsNat DEF TypeInv, TypeOK, Frag
<1>3. /\ orphan' = {} /\ tag'[at].st = "none" /\ \A g \in Frag : g # at => tag'[g] = tag[g]
  BY <1>1, <1>2, RemoveAlone
<1>4. \A f \in Frag : f <= at => tag'[f].st = "none"
  <2>1. \A f \in Frag : f < at => tag[f].st = "none"
    BY <1>1 DEF Orderly
  <2> QED  BY <1>2, <1>3, <2>1 DEF Frag
<1>5. CASE at < N /\ at' = at + 1 /\ pc' = pc
  <2>1. \A f \in Frag : f < at' => f <= at
    BY <1>2, <1>5 DEF Frag
  <2> QED  BY <1>1, <1>3, <1>4, <1>5, <2>1 DEF Orderly
<1>6. CASE StartRemoval(passes - 1)
  <2>1. pc' = "remove" /\ at' = 1 /\ \A f \in Frag : ~(f < 1)
    BY <1>6 DEF StartRemoval, Frag
  <2> QED  BY <1>1, <1>3, <2>1 DEF Orderly
<1>7. CASE ~(at < N) /\ Return
  <2>1. \A f \in Frag : tag'[f].st = "none"
    BY <1>2, <1>4, <1>7 DEF Frag
  <2>2. Tagged' = {}
    BY <2>1 DEF Tagged
  <2>3. Cardinality({}) = 0
    BY FS_EmptySet
  <2>4. Consecutive'
    BY <2>2, <2>3 DEF Consecutive
  <2> QED  BY <1>1, <1>3, <1>7, <2>4 DEF Orderly, Return
<1> QED  BY <1>5, <1>6, <1>7 DEF Remove

LEMMA CalcOrder == ASSUME TypeInv, Orderly, CalcStep PROVE Orderly'
<1>1. cpc' = cpc /\ cpc = "off" /\ orphan = {} /\ ~panicked
  BY DEF Orderly, CalcStep, Start, ScanInvalid, ScanPanics, ScanCalced, ScanRequest,
     ScanEnds, TeeAnswers, TeeFails, WriteTag, Decide, ReportInvalid, ReportPanics, Report, Send,
     Recheck, Height, Remove, checkVars
<1>2. tag' = tag => SameTags
  BY DEF SameTags
<1>3. CASE Start \/ ScanCalced \/ ScanEnds \/ TeeFails \/ Decide \/ Report \/ Send \/ Recheck \/ Height
  <2>1. tag' = tag /\ orphan' = orphan /\ panicked' = panicked /\ pc # "remove"
    BY <1>3 DEF Start, ScanCalced, ScanEnds, TeeFails, Decide, Report, Send, Recheck, Height, history
  <2>2. pc' \notin {"tee", "write"} /\ (pc' = "remove" => at' = 1)
    BY <1>3 DEF Start, ScanCalced, ScanEnds, TeeFails, Decide, Report, Send, Recheck, Height,
       PutKeys, Goto, Return, StartRemoval
  <2> QED  BY <1>1, <1>2, <2>1, <2>2, OrderlySame
<1>4. CASE ScanInvalid
  <2> DEFINE bad == Misfits(Files \ {at}, Cardinality(Files))
  <2>1. /\ pc = "scan" /\ bad # {} /\ tag[First(bad)].st # "ok" /\ RemoveTag("calc", First(bad))
        /\ pc' = "off" /\ panicked' = panicked
    BY <1>4 DEF ScanInvalid, Return, history
  <2>2. bad \subseteq Frag
    BY DEF Misfits, Files
  <2> HIDE DEF bad
  <2>3. First(bad) \in Frag
    BY <2>1, <2>2, FirstIn
  <2>4. orphan' = {} /\ SameTags
    BY <2>1, <2>3, RemoveAlone
  <2> QED  BY <1>1, <2>1, <2>4, OrderlySame
<1>5. CASE ReportInvalid
  <2> DEFINE bad == Misfits(Frag, N)
  <2>1. /\ bad # {} /\ RemoveTag("calc", First(bad))
        /\ pc' = "remove" /\ at' = 1 /\ panicked' = panicked
    BY <1>5 DEF ReportInvalid, StartRemoval, history
  <2>2. bad \subseteq Frag
    BY DEF Misfits
  <2> HIDE DEF bad
  <2>3. First(bad) \in Frag
    BY <2>1, <2>2, FirstIn
  <2>4. orphan' = {}
    BY <2>1, <2>3, RemoveAlone
  <2>5. \A f \in Frag : ~(f < 1)
    BY DEF Frag
  <2> QED  BY <1>1, <2>1, <2>4, <2>5 DEF Orderly
<1> QED  BY <1>3, <1>4, <1>5, NoScanPanic, NoReportPanic, ScanRequestOrder, TeeAnswersOrder,
            WriteTagOrder, RemoveOrder DEF CalcStep

LEMMA CrashOrder == ASSUME TypeInv, Orderly, Crash, pc # "remove" PROVE Orderly'
<1>1. /\ pc' = "off" /\ cpc' = "off" /\ panicked' = panicked /\ orphan' = {}
  BY DEF Crash, Return, CheckReturn
<1>2. tag \in [Frag -> Tag] /\ cpc = "off"
  BY DEF TypeInv, TypeOK, Orderly
<1>3. \A f \in Frag : tag'[f] = tag[f] \/ (pc = "write" /\ at = f /\ tag'[f].st # "ok")
  BY <1>2 DEF Crash, Writing, Partial
<1>4. SameTags
  BY <1>3 DEF SameTags, Orderly
<1> QED  BY <1>1, <1>4, OrderlySame DEF Orderly

LEMMA IndexNext == TypeInv /\ IndexInv /\ [Next]_vars => IndexInv'
<1> SUFFICES ASSUME TypeInv, IndexInv, [Next]_vars PROVE IndexInv'
  OBVIOUS
<1>1. checks \in Nat /\ (checks' = checks \/ checks' = checks + 1) /\ (torn => torn')
  BY DEF TypeInv, TypeOK, Next, CalcStep, Start, ScanInvalid, ScanPanics, ScanCalced, ScanRequest,
     ScanEnds, TeeAnswers, TeeFails, WriteTag, Decide, ReportInvalid, ReportPanics, Report, Send,
     Recheck, Height, Remove, CheckStep, CheckRead, CheckTee, CheckCreate, CheckWrite, CheckDrop,
     CheckStart, Crash, history, vars
<1>2. CASE torn \/ checks > 0
  BY <1>1, <1>2 DEF IndexInv
<1>3. CASE Orderly /\ ~(torn \/ checks > 0)
  <2>1. CASE CalcStep
    BY <1>3, <2>1, CalcOrder DEF IndexInv
  <2>2. CASE CheckStep
    BY <1>3, <2>2 DEF Orderly, CheckStep, CheckRead, CheckTee, CheckCreate, CheckWrite, CheckDrop
  <2>3. CASE \E f \in Frag : CheckStart(f)
    BY <1>1, <2>3 DEF CheckStart, IndexInv
  <2>4. CASE Crash
    <3>1. CASE pc = "remove"
      BY <2>4, <3>1 DEF Crash, IndexInv
    <3>2. CASE pc # "remove"
      BY <1>3, <2>4, <3>2, CrashOrder DEF IndexInv
    <3> QED  BY <3>1, <3>2
  <2>5. CASE UNCHANGED vars
    <3>1. SameTags /\ Tagged' = Tagged /\ (Consecutive => Consecutive')
      BY <2>5, SameOrder DEF vars, SameTags
    <3> QED  BY <1>3, <2>5, <3>1 DEF vars, Orderly, IndexInv
  <2> QED  BY <2>1, <2>2, <2>3, <2>4, <2>5 DEF Next
<1> QED  BY <1>2, <1>3 DEF IndexInv

LEMMA IndexInit == Init => IndexInv
<1> SUFFICES ASSUME Init PROVE Orderly
  BY DEF IndexInv
<1>1. pc = "off" /\ panicked = FALSE /\ cpc = "off" /\ orphan = {}
  BY DEF Init
<1>2. Tagged = {}
  BY DEF Init, Tagged, NoTag
<1>3. Consecutive
  BY <1>2, FS_EmptySet DEF Consecutive
<1> QED  BY <1>1, <1>3 DEF Orderly

\* Until a service challenge checks a tag, calcRequestDigest and reportFileTag index
\* a digest list out of range, or read a hole of it, only after a crash in the middle
\* of a removal loop; failures and any other crashes leave consecutive indices.
THEOREM PanicsNeedTornRemoval == Spec => []PanicNeedsTornRemoval
<1>1. IndexInv => PanicNeedsTornRemoval
  BY DEF IndexInv, Orderly, PanicNeedsTornRemoval
<1> QED  BY InitTypes, NextTypes, IndexInit, IndexNext, <1>1, PTL DEF Spec
=============================================================================
