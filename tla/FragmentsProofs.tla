--------------------------- MODULE FragmentsProofs ---------------------------
(***************************************************************************)
(* Type correctness, FoundUnlessMoved and KeptWhileAssigned of Fragments,  *)
(* for any files, fragments, uploads and requests.                         *)
(***************************************************************************)
EXTENDS Fragments, WellFoundedInduction, TLAPS

\* Changing one fragment's entry.
Put(m, a, b, v) == [m EXCEPT ![a][b] = v]

LEMMA Entry ==
  ASSUME NEW m, Matrix(m), NEW a, NEW b, NEW v
  PROVE  /\ Matrix(Put(m, a, b, v))
         /\ \A f \in Fid, g \in Frag :
              Put(m, a, b, v)[f][g] = IF f = a /\ g = b THEN v ELSE m[f][g]
  BY DEF Matrix, Put

\* A step that leaves one entry absent only if it was.
LEMMA EntryKeeps ==
  ASSUME NEW m, Matrix(m), NEW n, NEW a, NEW b, NEW v, n = Put(m, a, b, v),
         a \in Fid /\ b \in Frag /\ m[a][b] # "none" => v # "none"
  PROVE  Matrix(n) /\ \A f \in Fid, g \in Frag : m[f][g] # "none" => n[f][g] # "none"
<1>1. Matrix(n)
  BY Entry
<1>2. \A f \in Fid, g \in Frag : n[f][g] = IF f = a /\ g = b THEN v ELSE m[f][g]
  BY Entry
<1>3. ASSUME NEW f \in Fid, NEW g \in Frag, m[f][g] # "none" PROVE n[f][g] # "none"
  BY <1>2, <1>3
<1> QED  BY <1>1, <1>3

\* A request under way.
LEMMA GetterFacts ==
  ASSUME get \in Getter
  PROVE  get.f \in Fid /\ get.g \in Frag
  BY DEF Getter

\* What Watch does to it.
LEMMA WatchFacts ==
  ASSUME get \in Getter, NEW mv, NEW rm, Watch(mv, rm)
  PROVE  /\ get' \in Getter /\ get'.pc = get.pc /\ get'.f = get.f /\ get'.g = get.g
         /\ get.pc # "off" /\ ~get'.gone => ~get.gone /\ <<get.f, get.g>> \notin rm
         /\ get.pc # "off" /\ ~get'.moved => ~get.moved /\ <<get.f, get.g>> \notin mv
<1>1. CASE get.pc = "off"
  BY <1>1 DEF Watch
<1>2. CASE get.pc # "off"
  <2>1. get' = [get EXCEPT !.moved = get.moved \/ <<get.f, get.g>> \in mv,
                           !.gone = get.gone \/ <<get.f, get.g>> \in rm]
    BY <1>2 DEF Watch
  <2> QED  BY <2>1 DEF Getter
<1> QED  BY <1>1, <1>2

\* A step on the directories that the request is told of keeps the invariant.
LEMMA Watched ==
  ASSUME IInv, NEW mv, NEW rm, Watch(mv, rm), Matrix(rep'), Matrix(fil'),
         \A f \in Fid, g \in Frag :
           <<f, g>> \notin rm /\ OnDisk(f, g) => fil'[f][g] # "none" \/ rep'[f][g] # "none",
         \A f \in Fid, g \in Frag :
           <<f, g>> \notin rm /\ <<f, g>> \notin mv /\ rep[f][g] # "none" => rep'[f][g] # "none"
  PROVE  IInv'
<1>1. get \in Getter /\ get.f \in Fid /\ get.g \in Frag
  BY GetterFacts DEF IInv
<1>2. /\ get' \in Getter /\ get'.pc = get.pc /\ get'.f = get.f /\ get'.g = get.g
      /\ get.pc # "off" /\ ~get'.gone => ~get.gone /\ <<get.f, get.g>> \notin rm
      /\ get.pc # "off" /\ ~get'.moved => ~get.moved /\ <<get.f, get.g>> \notin mv
  BY <1>1, WatchFacts
<1>3. GetInv'
  BY <1>1, <1>2 DEF IInv, GetInv, OnDisk
<1>4. FoundUnlessMoved'
  BY <1>2 DEF IInv, FoundUnlessMoved
<1> QED  BY <1>2, <1>3, <1>4 DEF IInv

\* So does one that it is not told of, if it removes and moves nothing.
LEMMA Unwatched ==
  ASSUME IInv, get' = get, Matrix(rep'), Matrix(fil'),
         \A f \in Fid, g \in Frag : fil[f][g] # "none" => fil'[f][g] # "none",
         \A f \in Fid, g \in Frag : rep[f][g] # "none" => rep'[f][g] # "none"
  PROVE  IInv'
<1>1. get \in Getter /\ get.f \in Fid /\ get.g \in Frag
  BY GetterFacts DEF IInv
<1>2. GetInv'
  BY <1>1 DEF IInv, GetInv, OnDisk
<1>3. FoundUnlessMoved'
  BY DEF IInv, FoundUnlessMoved
<1> QED  BY <1>1, <1>2, <1>3 DEF IInv

LEMMA Untouched == ASSUME IInv, UNCHANGED <<rep, fil, get>> PROVE IInv'
  BY DEF IInv, GetInv, OnDisk, FoundUnlessMoved, Matrix
-----------------------------------------------------------------------------
LEMMA PutInv == ASSUME IInv, PutStep PROVE IInv'
<1>1. Matrix(rep) /\ Matrix(fil)
  BY DEF IInv
<1>2. CASE PutCheck \/ PutMkdir
  BY <1>2, Untouched DEF PutCheck, PutMkdir, disk
<1>3. CASE PutStart
  <2>1. get' = get /\ fil' = fil
    BY <1>3 DEF PutStart, Put
  <2>2. rep' = rep \/ \E a, b : rep' = Put(rep, a, b, "short")
    BY <1>3 DEF PutStart, Put
  <2>3. CASE rep' = rep
    BY <2>1, <2>3, Untouched
  <2>4. CASE \E a, b : rep' = Put(rep, a, b, "short")
    <3>1. PICK a, b : rep' = Put(rep, a, b, "short")
      BY <2>4
    <3>2. Matrix(rep') /\ \A f \in Fid, g \in Frag : rep[f][g] # "none" => rep'[f][g] # "none"
      BY <1>1, <3>1, EntryKeeps
    <3>3. Matrix(fil') /\ \A f \in Fid, g \in Frag : fil[f][g] # "none" => fil'[f][g] # "none"
      BY <1>1, <2>1
    <3> QED  BY <2>1, <3>2, <3>3, Unwatched
  <2> QED  BY <2>2, <2>3, <2>4
<1>4. CASE PutFill
  <2>1. get' = get
    BY <1>4 DEF PutFill, Put
  <2> DEFINE v == IF rep[up.f][up.g] = "short" THEN "good" ELSE rep[up.f][up.g]
             w == IF fil[up.f][up.g] = "short" /\ rep[up.f][up.g] = "none"
                  THEN "good" ELSE fil[up.f][up.g]
  <2>2. rep' = Put(rep, up.f, up.g, v) /\ fil' = Put(fil, up.f, up.g, w)
    BY <1>4 DEF PutFill, Put
  <2>3. (rep[up.f][up.g] # "none" => v # "none") /\ (fil[up.f][up.g] # "none" => w # "none")
    OBVIOUS
  <2> HIDE DEF v, w
  <2>4. Matrix(rep') /\ \A f \in Fid, g \in Frag : rep[f][g] # "none" => rep'[f][g] # "none"
    BY <1>1, <2>2, <2>3, EntryKeeps
  <2>5. Matrix(fil') /\ \A f \in Fid, g \in Frag : fil[f][g] # "none" => fil'[f][g] # "none"
    BY <1>1, <2>2, <2>3, EntryKeeps
  <2> QED  BY <2>1, <2>4, <2>5, Unwatched
<1>5. CASE PutRename
  <2>1. get' = get /\ fil' = fil
    BY <1>5 DEF PutRename, Put
  <2>2. rep' = rep \/ rep' = Put(rep, up.f, up.g, "good")
    BY <1>5 DEF PutRename, Put
  <2>3. Matrix(rep') /\ \A f \in Fid, g \in Frag : rep[f][g] # "none" => rep'[f][g] # "none"
    <3>1. CASE rep' = rep
      BY <1>1, <3>1
    <3>2. CASE rep' = Put(rep, up.f, up.g, "good")
      BY <1>1, <3>2, EntryKeeps
    <3> QED  BY <2>2, <3>1, <3>2
  <2>4. Matrix(fil') /\ \A f \in Fid, g \in Frag : fil[f][g] # "none" => fil'[f][g] # "none"
    BY <1>1, <2>1
  <2> QED  BY <2>1, <2>3, <2>4, Unwatched
<1> QED  BY <1>2, <1>3, <1>4, <1>5 DEF PutStep

LEMMA GetStepInv == ASSUME IInv, GetStep PROVE IInv'
<1>1. get \in Getter /\ get.f \in Fid /\ get.g \in Frag
  BY GetterFacts DEF IInv
<1>2. UNCHANGED <<rep, fil>> /\ Matrix(rep') /\ Matrix(fil')
  BY DEF GetStep, GetStart, findFragment, GetEnd, disk, IInv, Matrix
<1>3. CASE GetStart
  <2>1. PICK x \in Requests :
          get' = [pc |-> "file", f |-> x[1], g |-> x[2], moved |-> FALSE,
                  gone |-> fil[x[1]][x[2]] = "none" /\ rep[x[1]][x[2]] = "none"]
    BY <1>3 DEF GetStart
  <2>2. x[1] \in Fid /\ x[2] \in Frag
    BY ConstantAssumption
  <2>3. get' \in Getter
    BY <2>1, <2>2 DEF Getter
  <2>4. get'.pc = "file" /\ get'.f = x[1] /\ get'.g = x[2]
    BY <2>1
  <2>5. ~get'.gone => fil[x[1]][x[2]] # "none" \/ rep[x[1]][x[2]] # "none"
    BY <2>1
  <2> QED  BY <1>2, <2>3, <2>4, <2>5 DEF IInv, GetInv, OnDisk, FoundUnlessMoved
<1>4. CASE findFragment
  <2>1. \/ /\ get.pc = "file"
           /\ get' = [get EXCEPT !.pc = IF fil[get.f][get.g] # "none" THEN "found" ELSE "report"]
        \/ /\ get.pc = "report"
           /\ get' = [get EXCEPT !.pc = IF rep[get.f][get.g] # "none" THEN "found" ELSE "missed"]
    BY <1>4 DEF findFragment
  <2>2. /\ get' \in Getter /\ get'.f = get.f /\ get'.g = get.g
        /\ get'.gone = get.gone /\ get'.moved = get.moved
    BY <1>1, <2>1 DEF Getter
  <2>3. /\ get'.pc = "report" => get.pc = "file" /\ fil[get.f][get.g] = "none"
        /\ get'.pc = "missed" => get.pc = "report" /\ rep[get.f][get.g] = "none"
        /\ get'.pc # "file"
    BY <1>1, <2>1 DEF Getter
  <2> QED  BY <1>2, <2>2, <2>3 DEF IInv, GetInv, OnDisk, FoundUnlessMoved
<1>5. CASE GetEnd
  <2>1. get' = GetOff /\ get'.pc = "off"
    BY <1>5 DEF GetEnd, GetOff
  <2>2. get' \in Getter
    <3>1. AnyFid \in Fid /\ AnyFrag \in Frag
      BY <1>1 DEF AnyFid, AnyFrag
    <3> QED  BY <2>1, <3>1 DEF GetOff, Getter
  <2> QED  BY <1>2, <2>1, <2>2 DEF IInv, GetInv, FoundUnlessMoved
<1> QED  BY <1>3, <1>4, <1>5 DEF GetStep

LEMMA ReportInv == ASSUME IInv, ReportStep PROVE IInv'
<1>1. Matrix(rep) /\ Matrix(fil)
  BY DEF IInv
<1>2. CASE ReportStart \/ ReportNext \/ CheckFile \/ CheckDeal \/ MkFileDir \/ ReportFile \/ SendReport
  BY <1>2, Untouched
  DEF ReportStart, ReportNext, CheckFile, CheckDeal, MkFileDir, ReportFile, SendReport, disk
<1>3. CASE RemoveReport
  <2> DEFINE rm == {rp.f} \X Frag
  <2>1. /\ rep' = [rep EXCEPT ![rp.f] = NoFragments] /\ fil' = fil
        /\ Watch({}, rm)
    BY <1>3 DEF RemoveReport
  <2>2. Matrix(rep')
    BY <1>1, <2>1 DEF Matrix, NoFragments
  <2>3. \A f \in Fid, g \in Frag : <<f, g>> \notin rm => rep'[f][g] = rep[f][g]
    BY <1>1, <2>1 DEF Matrix
  <2>4. Matrix(fil') /\ \A f \in Fid, g \in Frag : fil'[f][g] = fil[f][g]
    BY <1>1, <2>1
  <2>5. \A f \in Fid, g \in Frag : <<f, g>> \notin rm /\ OnDisk(f, g)
                                     => fil'[f][g] # "none" \/ rep'[f][g] # "none"
    BY <2>3, <2>4 DEF OnDisk
  <2>6. \A f \in Fid, g \in Frag :
          <<f, g>> \notin rm /\ <<f, g>> \notin {} /\ rep[f][g] # "none"
            => rep'[f][g] # "none"
    BY <2>3
  <2>7. Watch({}, rm)
    BY <2>1
  <2> HIDE DEF rm
  <2> QED  BY <2>7, <2>2, <2>4, <2>5, <2>6, Watched
<1>4. CASE MoveFragments
  <2>1. CASE UNCHANGED <<rep, fil, get>>
    BY <2>1, Untouched
  <2>2. CASE \E g \in rp.todo :
               /\ fil[rp.f][g] = "none" /\ rep[rp.f][g] # "none"
               /\ fil' = Put(fil, rp.f, g, rep[rp.f][g])
               /\ rep' = Put(rep, rp.f, g, "none")
               /\ Watch({<<rp.f, g>>}, {})
    <3>1. PICK g : /\ rep[rp.f][g] # "none"
                   /\ fil' = Put(fil, rp.f, g, rep[rp.f][g])
                   /\ rep' = Put(rep, rp.f, g, "none")
                   /\ Watch({<<rp.f, g>>}, {})
      BY <2>2
    <3>2. Matrix(rep') /\ Matrix(fil')
      BY <1>1, <3>1, Entry
    <3>3. \A a \in Fid, b \in Frag :
            IF a = rp.f /\ b = g THEN fil'[a][b] # "none"
            ELSE fil'[a][b] = fil[a][b] /\ rep'[a][b] = rep[a][b]
      <4>1. \A a \in Fid, b \in Frag :
              fil'[a][b] = IF a = rp.f /\ b = g THEN rep[rp.f][g] ELSE fil[a][b]
        BY <1>1, <3>1, Entry
      <4>2. \A a \in Fid, b \in Frag :
              rep'[a][b] = IF a = rp.f /\ b = g THEN "none" ELSE rep[a][b]
        BY <1>1, <3>1, Entry
      <4> QED  BY <3>1, <4>1, <4>2
    <3>4. \A a \in Fid, b \in Frag : <<a, b>> \notin {} /\ OnDisk(a, b)
                                       => fil'[a][b] # "none" \/ rep'[a][b] # "none"
      BY <3>3 DEF OnDisk
    <3>5. \A a \in Fid, b \in Frag :
            <<a, b>> \notin {} /\ <<a, b>> \notin {<<rp.f, g>>} /\ rep[a][b] # "none"
              => rep'[a][b] # "none"
      BY <3>3
    <3> QED  BY <3>1, <3>2, <3>4, <3>5, Watched
  <2> QED  BY <1>4, <2>1, <2>2 DEF MoveFragments, Put
<1> QED  BY <1>2, <1>3, <1>4 DEF ReportStep

LEMMA RestoreInv == ASSUME IInv, RestoreStep PROVE IInv'
<1>1. Matrix(rep) /\ Matrix(fil)
  BY DEF IInv
<1>2. CASE RestoreStart \/ RestoreFile \/ RestoreLocal \/ ReportLost \/ ListOrders
           \/ ClaimOrder \/ CompleteOrder
  BY <1>2, Untouched
  DEF RestoreStart, RestoreFile, RestoreLocal, ReportLost, ListOrders, ClaimOrder, CompleteOrder, disk
<1>3. CASE RestoreFragment
  <2>1. get' = get /\ rep' = rep
    BY <1>3 DEF RestoreFragment, Put
  <2>2. fil' = fil \/ fil' = Put(fil, rs.f, rs.g, "short")
    BY <1>3 DEF RestoreFragment, Put
  <2>3. Matrix(fil') /\ \A f \in Fid, g \in Frag : fil[f][g] # "none" => fil'[f][g] # "none"
    <3>1. CASE fil' = fil
      BY <1>1, <3>1
    <3>2. CASE fil' = Put(fil, rs.f, rs.g, "short")
      BY <1>1, <3>2, EntryKeeps
    <3> QED  BY <2>2, <3>1, <3>2
  <2>4. Matrix(rep') /\ \A f \in Fid, g \in Frag : rep[f][g] # "none" => rep'[f][g] # "none"
    BY <1>1, <2>1
  <2> QED  BY <2>1, <2>3, <2>4, Unwatched
<1>4. CASE CopyFile
  <2>1. get' = get /\ rep' = rep
    BY <1>4 DEF CopyFile, Put
  <2>2. fil' = fil \/ \E v : v # "none" /\ fil' = Put(fil, rs.f, rs.g, v)
    BY <1>4 DEF CopyFile, Put
  <2>3. Matrix(fil') /\ \A f \in Fid, g \in Frag : fil[f][g] # "none" => fil'[f][g] # "none"
    <3>1. CASE fil' = fil
      BY <1>1, <3>1
    <3>2. CASE \E v : v # "none" /\ fil' = Put(fil, rs.f, rs.g, v)
      <4>1. PICK v : v # "none" /\ fil' = Put(fil, rs.f, rs.g, v)
        BY <3>2
      <4> QED  BY <1>1, <4>1, EntryKeeps
    <3> QED  BY <2>2, <3>1, <3>2
  <2>4. Matrix(rep') /\ \A f \in Fid, g \in Frag : rep[f][g] # "none" => rep'[f][g] # "none"
    BY <1>1, <2>1
  <2> QED  BY <2>1, <2>3, <2>4, Unwatched
<1> QED  BY <1>2, <1>3, <1>4 DEF RestoreStep

LEMMA EnvironmentInv == ASSUME IInv, Environment PROVE IInv'
<1>1. Matrix(rep) /\ Matrix(fil)
  BY DEF IInv
<1>2. CASE CreateDeal \/ EndDeal \/ OtherReports \/ StoreFile \/ LateReport \/ OthersOrder
  BY <1>2, Untouched
  DEF CreateDeal, EndDeal, OtherReports, StoreFile, LateReport, OthersOrder, disk, tasks
<1>3. CASE DiskLoss
  <2>1. PICK f, g, d : /\ fil' = Put(fil, f, g, d) /\ rep' = rep
                       /\ Watch({}, {<<f, g>>})
    BY <1>3 DEF DiskLoss, Put
  <2>2. Matrix(fil')
    BY <1>1, <2>1, Entry
  <2>3. \A a \in Fid, b \in Frag : <<a, b>> \notin {<<f, g>>} => fil'[a][b] = fil[a][b]
    BY <1>1, <2>1, Entry
  <2>4. Matrix(rep') /\ \A a \in Fid, b \in Frag : rep'[a][b] = rep[a][b]
    BY <1>1, <2>1
  <2>5. \A a \in Fid, b \in Frag : <<a, b>> \notin {<<f, g>>} /\ OnDisk(a, b)
                                     => fil'[a][b] # "none" \/ rep'[a][b] # "none"
    BY <2>3, <2>4 DEF OnDisk
  <2>6. \A a \in Fid, b \in Frag :
          <<a, b>> \notin {<<f, g>>} /\ <<a, b>> \notin {} /\ rep[a][b] # "none"
            => rep'[a][b] # "none"
    BY <2>4
  <2> QED  BY <2>1, <2>2, <2>4, <2>5, <2>6, Watched
<1> QED  BY <1>2, <1>3 DEF Environment

LEMMA CrashInv == ASSUME IInv, Crash PROVE IInv'
<1>1. get' = GetOff /\ get'.pc = "off" /\ UNCHANGED <<rep, fil>>
  BY DEF Crash, GetOff, disk
<1>2. get.f \in Fid /\ get.g \in Frag
  BY GetterFacts DEF IInv
<1>3. get' \in Getter
  <2>1. AnyFid \in Fid /\ AnyFrag \in Frag
    BY <1>2 DEF AnyFid, AnyFrag
  <2> QED  BY <1>1, <2>1 DEF GetOff, Getter
<1>4. Matrix(rep') /\ Matrix(fil')
  BY <1>1 DEF IInv, Matrix
<1> QED  BY <1>1, <1>3, <1>4 DEF IInv, GetInv, FoundUnlessMoved
-----------------------------------------------------------------------------
LEMMA InitInv == Init => IInv
<1> SUFFICES ASSUME Init PROVE IInv
  OBVIOUS
<1>0. Fid # {} /\ Frag # {}
  <2>1. PICK f \in Fid : Column[f][1] # {} /\ Column[f][1] \subseteq Frag
    BY ConstantAssumption
  <2> QED  BY <2>1
<1>1. get = GetOff /\ get.pc = "off"
  BY DEF Init, GetOff
<1>2. AnyFid \in Fid /\ AnyFrag \in Frag
  BY <1>0 DEF AnyFid, AnyFrag
<1>3. get \in Getter
  BY <1>1, <1>2 DEF GetOff, Getter
<1>4. Matrix(rep) /\ Matrix(fil)
  BY DEF Init, Matrix, NoFragments
<1> QED  BY <1>1, <1>3, <1>4 DEF IInv, GetInv, FoundUnlessMoved

LEMMA NextInv == IInv /\ [Next]_vars => IInv'
<1> SUFFICES ASSUME IInv, [Next]_vars PROVE IInv'
  OBVIOUS
<1>1. CASE UNCHANGED vars
  BY <1>1, Untouched DEF vars, disk, tasks
<1> QED  BY <1>1, PutInv, GetStepInv, ReportInv, RestoreInv, EnvironmentInv, CrashInv DEF Next

\* getfragment (node/web/fragment.go) misses a fragment that was on disk throughout
\* only if checkfile moved it between the two looks, whatever uploads, reports,
\* restores, losses and restarts happen meanwhile: for any files, fragments, deals
\* and requests.
THEOREM FragmentsAreFound == Spec => []FoundUnlessMoved
<1>1. IInv => FoundUnlessMoved
  BY DEF IInv
<1> QED  BY InitInv, NextInv, <1>1, PTL DEF Spec
-----------------------------------------------------------------------------
(***************************************************************************)
(* Type correctness.                                                       *)
(***************************************************************************)
LEMMA MinFacts ==
  ASSUME NEW S, S \subseteq Nat, S # {}
  PROVE  Min(S) \in S
<1> DEFINE R == OpToRel(<, Nat)
<1>1. IsWellFoundedOn(R, Nat)
  BY NatLessThanWellFounded
<1>2. \A x, y \in Nat : <<x, y>> \in R <=> x < y
  BY DEF OpToRel
<1> HIDE DEF R
<1>3. PICK x \in S : \A y \in S : ~(<<y, x>> \in R)
  BY <1>1, WFMin
<1>4. ASSUME NEW y \in S PROVE x =< y
  <2>1. x \in Nat /\ y \in Nat /\ ~(<<y, x>> \in R)
    BY <1>3
  <2>2. ~(y < x)
    BY <1>2, <2>1
  <2> QED  BY <2>1, <2>2
<1> QED  BY <1>3, <1>4 DEF Min

LEMMA Defaults ==
  /\ AnyFid \in Fid /\ AnyFrag \in Frag /\ NoOrder \in Order
  /\ UpOff \in Upload /\ RpOff \in Reporter /\ RsOff \in Restorer /\ GetOff \in Getter
<1>1. PICK f \in Fid : Column[f][1] # {} /\ Column[f][1] \subseteq Frag
  BY ConstantAssumption
<1>2. AnyFid \in Fid /\ AnyFrag \in Frag
  BY <1>1 DEF AnyFid, AnyFrag
<1> QED  BY <1>2 DEF NoOrder, Order, UpOff, Upload, RpOff, Reporter, ReportPc,
                     RsOff, Restorer, RestorePc, GetOff, Getter

Contents == [Fid -> [Frag -> Content]]

LEMMA PutType ==
  ASSUME NEW m \in Contents, NEW a \in Fid, NEW b \in Frag, NEW v \in Content
  PROVE  /\ Put(m, a, b, v) \in Contents
         /\ \A f \in Fid, g \in Frag :
              Put(m, a, b, v)[f][g] = IF f = a /\ g = b THEN v ELSE m[f][g]
  BY DEF Put, Contents

LEMMA Entered ==
  ASSUME NEW m \in Contents, NEW a \in Fid, NEW b \in Frag, NEW v \in Content,
         NEW n, n = Put(m, a, b, v)
  PROVE  \A f \in Fid, g \in Frag : n[f][g] = IF f = a /\ g = b THEN v ELSE m[f][g]
  BY PutType

\* Fields of the tasks.
LEMMA TaskFields ==
  ASSUME TypeOK
  PROVE  /\ up.f \in Fid /\ up.g \in Frag
         /\ rp.f \in Fid /\ rp.todo \subseteq Frag /\ rp.idx \subseteq Index
         /\ rp.dirs \subseteq Fid
         /\ rs.f \in Fid /\ rs.g \in Frag /\ rs.src \in Fid /\ rs.dirs \subseteq Fid
         /\ rs.todo \subseteq Frag
  BY DEF TypeOK, Upload, Reporter, Restorer

\* What a transfer of the report does.
LEMMA CompType ==
  ASSUME comp \in [Fid -> [Index -> {"free", "me", "other"}]],
         NEW f \in Fid, NEW i \in Index, NEW v \in {"free", "me", "other"},
         comp' = [comp EXCEPT ![f][i] = v]
  PROVE  /\ comp' \in [Fid -> [Index -> {"free", "me", "other"}]]
         /\ \A e \in Fid, j \in Index : comp'[e][j] = IF e = f /\ j = i THEN v ELSE comp[e][j]
  OBVIOUS

LEMMA FreeType ==
  ASSUME comp \in [Fid -> [Index -> {"free", "me", "other"}]],
         NEW f \in Fid, comp' = [comp EXCEPT ![f] = Free]
  PROVE  /\ comp' \in [Fid -> [Index -> {"free", "me", "other"}]]
         /\ \A e \in Fid, j \in Index : comp'[e][j] = IF e = f THEN "free" ELSE comp[e][j]
  BY DEF Free

LEMMA EventType ==
  ASSUME TypeOK, Event \/ NoFailure
  PROVE  events' \in 0..MaxEvents
  BY ConstantAssumption DEF Event, NoFailure, TypeOK

LEMMA PutTypes == ASSUME TypeInv, PutStep PROVE TypeInv'
<1>1. /\ TypeOK /\ rep \in Contents /\ fil \in Contents /\ up \in Upload
      /\ up.f \in Fid /\ up.g \in Frag
  BY TaskFields DEF TypeInv, TypeOK, Contents
<1>2. UNCHANGED <<chain, fildir, failed, rp, rs, get, cause>>
  BY DEF PutStep, PutStart, PutFill, PutCheck, PutMkdir, PutRename, disk
<1>3. CASE PutStart
  <2>1. PICK x \in Uploads :
          IF x[2] = ZeroFile
          THEN /\ up' = [pc |-> "fill", f |-> x[1], g |-> x[2]]
               /\ rep' = Put(rep, x[1], x[2], "short") /\ repdir' = repdir \cup {x[1]}
          ELSE /\ up' = [pc |-> "check", f |-> x[1], g |-> x[2]]
               /\ UNCHANGED <<rep, repdir>>
    BY <1>3 DEF PutStart, Put
  <2>2. x[1] \in Fid /\ x[2] \in Frag
    BY ConstantAssumption
  <2>3. up' \in Upload
    BY <2>1, <2>2 DEF Upload
  <2>4. rep' \in Contents /\ repdir' \subseteq Fid
    BY <1>1, <2>1, <2>2, PutType DEF TypeOK, Content
  <2>5. fil' = fil /\ events' = events
    BY <1>3 DEF PutStart
  <2> QED  BY <1>1, <1>2, <2>3, <2>4, <2>5 DEF TypeInv, TypeOK, Contents, chain
<1>4. CASE PutFill
  <2> DEFINE v == IF rep[up.f][up.g] = "short" THEN "good" ELSE rep[up.f][up.g]
             w == IF fil[up.f][up.g] = "short" /\ rep[up.f][up.g] = "none"
                  THEN "good" ELSE fil[up.f][up.g]
  <2>1. rep' = Put(rep, up.f, up.g, v) /\ fil' = Put(fil, up.f, up.g, w)
    BY <1>4 DEF PutFill, Put
  <2>2. v \in Content /\ w \in Content
    BY <1>1 DEF Contents, Content
  <2> HIDE DEF v, w
  <2>3. rep' \in Contents /\ fil' \in Contents
    BY <1>1, <2>1, <2>2, PutType
  <2>4. up' \in Upload /\ repdir' = repdir /\ events' = events
    BY <1>4, Defaults DEF PutFill
  <2> QED  BY <1>1, <1>2, <2>3, <2>4 DEF TypeInv, TypeOK, Contents, chain
<1>5. CASE PutCheck
  <2>1. up' \in Upload
    BY <1>1, <1>5, Defaults DEF PutCheck, Upload
  <2>2. events' \in 0..MaxEvents
    BY <1>1, <1>5, EventType DEF PutCheck, Failure
  <2> QED  BY <1>1, <1>2, <1>5, <2>1, <2>2 DEF PutCheck, disk, TypeInv, TypeOK, Contents, chain
<1>6. CASE PutMkdir
  <2>1. up' \in Upload /\ repdir' \subseteq Fid
    BY <1>1, <1>6 DEF PutMkdir, Upload, TypeOK
  <2> QED  BY <1>1, <1>2, <1>6, <2>1 DEF PutMkdir, TypeInv, TypeOK, Contents, chain
<1>7. CASE PutRename
  <2>1. rep' = rep \/ rep' = Put(rep, up.f, up.g, "good")
    BY <1>7 DEF PutRename, Put
  <2>2. rep' \in Contents
    BY <1>1, <2>1, PutType DEF Content
  <2>3. up' \in Upload /\ UNCHANGED <<fil, repdir, events>>
    BY <1>7, Defaults DEF PutRename
  <2> QED  BY <1>1, <1>2, <2>2, <2>3 DEF TypeInv, TypeOK, Contents, chain
<1> QED  BY <1>3, <1>4, <1>5, <1>6, <1>7 DEF PutStep

\* A request and what is done to it stay well formed.
LEMMA GetTypes == ASSUME TypeInv, GetStep PROVE TypeInv'
<1>1. TypeOK /\ get \in Getter
  BY DEF TypeInv, TypeOK
<1>2. UNCHANGED <<chain, disk, failed, up, rp, rs, cause>>
  BY DEF GetStep, GetStart, findFragment, GetEnd
<1>3. get' \in Getter
  <2>1. CASE GetStart
    <3>1. PICK x \in Requests :
            get' = [pc |-> "file", f |-> x[1], g |-> x[2], moved |-> FALSE,
                    gone |-> fil[x[1]][x[2]] = "none" /\ rep[x[1]][x[2]] = "none"]
      BY <2>1 DEF GetStart
    <3>2. x[1] \in Fid /\ x[2] \in Frag
      BY ConstantAssumption
    <3> QED  BY <3>1, <3>2 DEF Getter
  <2>2. CASE findFragment
    BY <1>1, <2>2 DEF findFragment, Getter
  <2>3. CASE GetEnd
    BY <2>3, Defaults DEF GetEnd
  <2> QED  BY <2>1, <2>2, <2>3 DEF GetStep
<1>4. events' \in 0..MaxEvents
  <2>1. Event \/ NoFailure
    BY DEF GetStep, GetStart, findFragment, GetEnd, NoFailure
  <2> QED  BY <1>1, <2>1, EventType
<1> QED  BY <1>1, <1>2, <1>3, <1>4 DEF TypeInv, TypeOK, chain, disk

LEMMA ReporterGoto ==
  ASSUME rp \in Reporter, NEW l \in ReportPc, RpGoto(l)
  PROVE  /\ rp' \in Reporter /\ rp'.pc = l /\ rp'.f = rp.f /\ rp'.todo = rp.todo
         /\ rp'.idx = rp.idx
  BY DEF RpGoto, Reporter

\* The next directory to report.
LEMMA NextReport ==
  ASSUME NEW d, d \subseteq Fid, d # {},
         rp' = [RpOff EXCEPT !.pc = "file", !.dirs = d, !.f = Min(d)]
  PROVE  rp' \in Reporter /\ rp'.pc = "file"
<1>1. Min(d) \in Fid
  BY MinFacts, ConstantAssumption
<1> DEFINE m == Min(d)
<1>2. rp' = [RpOff EXCEPT !.pc = "file", !.dirs = d, !.f = m] /\ m \in Fid
  BY <1>1
<1> HIDE DEF m
<1> QED  BY <1>2, Defaults DEF Reporter, ReportPc

LEMMA ReportTypes == ASSUME TypeInv, ReportStep PROVE TypeInv'
<1>1. /\ TypeOK /\ rep \in Contents /\ fil \in Contents /\ rp \in Reporter /\ get \in Getter
      /\ rp.f \in Fid /\ rp.todo \subseteq Frag /\ rp.idx \subseteq Index
      /\ rp.dirs \subseteq Fid
  BY TaskFields DEF TypeInv, TypeOK, Contents
<1>2. UNCHANGED <<deal, stored, mine, order, failed, up, rs, cause>>
  BY DEF ReportStep, ReportStart, ReportNext, CheckFile, CheckDeal, RemoveReport, MkFileDir,
         MoveFragments, ReportFile, SendReport, chain
<1>3. events' \in 0..MaxEvents
  <2>1. Event \/ NoFailure
    BY DEF ReportStep, ReportStart, ReportNext, CheckFile, CheckDeal, RemoveReport, MkFileDir,
           MoveFragments, ReportFile, SendReport, Failure, NoFailure
  <2> QED  BY <1>1, <2>1, EventType
<1>4. CASE ReportStart \/ ReportNext
  <2>1. UNCHANGED <<chain, disk, get>>
    BY <1>4 DEF ReportStart, ReportNext
  <2>2. rp' \in Reporter /\ rp'.pc # "send"
    <3>1. CASE ReportStart
      BY <1>1, <3>1, NextReport DEF ReportStart, TypeOK
    <3>2. CASE ReportNext
      <4>1. \/ rp.dirs \ {rp.f} # {}
               /\ rp' = [RpOff EXCEPT !.pc = "file", !.dirs = rp.dirs \ {rp.f},
                                      !.f = Min(rp.dirs \ {rp.f})]
            \/ rp' = RpOff
        BY <3>2 DEF ReportNext
      <4>2. CASE rp' = RpOff
        BY <4>2, Defaults DEF RpOff
      <4>3. rp.dirs \ {rp.f} \subseteq Fid
        BY <1>1
      <4> QED  BY <4>1, <4>2, <4>3, NextReport
    <3> QED  BY <1>4, <3>1, <3>2
  <2> QED  BY <1>1, <1>2, <1>3, <2>1, <2>2 DEF TypeInv, TypeOK, chain, disk
<1>5. CASE CheckFile
  <2>1. UNCHANGED <<chain, disk, get>>
    BY <1>5 DEF CheckFile
  <2>2. CASE RpGoto("next") \/ RpGoto("deal") \/ RpGoto("remove")
    <3>1. rp' \in Reporter /\ rp'.pc # "send"
      BY <1>1, <2>2, ReporterGoto DEF ReportPc
    <3> QED  BY <1>1, <1>2, <1>3, <2>1, <3>1 DEF TypeInv, TypeOK, chain, disk
  <2>3. CASE rp' = [rp EXCEPT !.pc = "mkdir", !.todo = mine[rp.f]]
    <3>1. mine[rp.f] \subseteq Frag
      BY <1>1 DEF TypeOK
    <3>2. rp' \in Reporter /\ rp'.pc # "send"
      BY <1>1, <2>3, <3>1 DEF Reporter, ReportPc
    <3> QED  BY <1>1, <1>2, <1>3, <2>1, <3>2 DEF TypeInv, TypeOK, chain, disk
  <2> QED  BY <1>5, <2>2, <2>3 DEF CheckFile
<1>6. CASE CheckDeal
  <2>1. UNCHANGED <<chain, disk, get>>
    BY <1>6 DEF CheckDeal
  <2>2. rp' \in Reporter /\ rp'.pc # "send"
    BY <1>1, <1>6, ReporterGoto DEF CheckDeal, ReportPc
  <2> QED  BY <1>1, <1>2, <1>3, <2>1, <2>2 DEF TypeInv, TypeOK, chain, disk
<1>7. CASE RemoveReport
  <2>1. rp' \in Reporter /\ rp'.pc # "send"
    BY <1>1, <1>7, ReporterGoto DEF RemoveReport, ReportPc
  <2>2. get' \in Getter
    BY <1>1, <1>7, WatchFacts DEF RemoveReport
  <2>3. rep' \in Contents
    BY <1>1, <1>7 DEF RemoveReport, Contents, NoFragments, Content
  <2> QED  BY <1>1, <1>2, <1>3, <1>7, <2>1, <2>2, <2>3
           DEF RemoveReport, TypeInv, TypeOK, chain, Contents
<1>8. CASE MkFileDir
  <2>1. rp' \in Reporter /\ rp'.pc # "send"
    BY <1>1, <1>8, ReporterGoto DEF MkFileDir, ReportPc
  <2> QED  BY <1>1, <1>2, <1>3, <1>8, <2>1 DEF MkFileDir, TypeInv, TypeOK, chain
<1>9. CASE MoveFragments
  <2>1. UNCHANGED <<chain, repdir, fildir>> /\ rp.pc = "move"
    BY <1>9 DEF MoveFragments
  <2>2. rp' \in Reporter /\ rp'.pc # "send"
    <3>1. \/ RpGoto("remove") \/ RpGoto("next")
          \/ \E g \in rp.todo : rp' = [rp EXCEPT !.todo = @ \ {g}]
      BY <1>9, Zenon DEF MoveFragments
    <3>2. CASE RpGoto("remove") \/ RpGoto("next")
      BY <1>1, <3>2, ReporterGoto DEF ReportPc
    <3>3. CASE \E g \in rp.todo : rp' = [rp EXCEPT !.todo = @ \ {g}]
      <4>1. PICK g : rp' = [rp EXCEPT !.todo = @ \ {g}]
        BY <3>3, Zenon
      <4> QED  BY <1>1, <2>1, <4>1 DEF Reporter
    <3> QED  BY <3>1, <3>2, <3>3
  <2>3. get' \in Getter /\ rep' \in Contents /\ fil' \in Contents
    <3>1. CASE UNCHANGED <<rep, fil, get>>
      BY <1>1, <3>1
    <3>2. CASE \E g \in rp.todo :
                 /\ fil' = Put(fil, rp.f, g, rep[rp.f][g])
                 /\ rep' = Put(rep, rp.f, g, "none")
                 /\ Watch({<<rp.f, g>>}, {})
      <4>1. PICK g \in rp.todo :
                 /\ fil' = Put(fil, rp.f, g, rep[rp.f][g])
                 /\ rep' = Put(rep, rp.f, g, "none")
                 /\ Watch({<<rp.f, g>>}, {})
        BY <3>2
      <4>2. g \in Frag /\ rep[rp.f][g] \in Content /\ "none" \in Content
        BY <1>1 DEF Contents, Content
      <4> QED  BY <1>1, <4>1, <4>2, PutType, WatchFacts
    <3> QED  BY <1>9, <3>1, <3>2 DEF MoveFragments, Put
  <2> QED  BY <1>1, <1>2, <1>3, <2>1, <2>2, <2>3 DEF TypeInv, TypeOK, chain, Contents
<1>10. CASE ReportFile
  <2>1. UNCHANGED <<chain, disk, get>>
    BY <1>10 DEF ReportFile
  <2>2. CASE RpGoto("next")
    <3>1. rp' \in Reporter /\ rp'.pc # "send"
      BY <1>1, <2>2, ReporterGoto DEF ReportPc
    <3> QED  BY <1>1, <1>2, <1>3, <2>1, <3>1 DEF TypeInv, TypeOK, chain, disk
  <2>3. CASE /\ SucIndex(rp.f) # {}
             /\ rp' = [rp EXCEPT !.pc = "send", !.idx = SucIndex(rp.f)]
    <3>1. SucIndex(rp.f) \subseteq Index
      BY DEF SucIndex
    <3>2. rp' \in Reporter /\ rp'.idx = SucIndex(rp.f)
      BY <1>1, <2>3, <3>1 DEF Reporter, ReportPc
    <3> QED  BY <1>1, <1>2, <1>3, <2>1, <2>3, <3>2 DEF TypeInv, TypeOK, chain, disk
  <2> QED  BY <1>10, <2>2, <2>3 DEF ReportFile
<1>11. CASE SendReport
  <2> DEFINE i == Min(rp.idx)
  <2>1. UNCHANGED <<disk, get>> /\ rp.pc = "send"
    BY <1>11 DEF SendReport
  <2>2. i \in rp.idx /\ i \in Index
    BY <1>1, <2>1, MinFacts, ConstantAssumption DEF TypeInv
  <2>3. /\ comp' = comp \/ comp' = [comp EXCEPT ![rp.f][i] = "me"]
        /\ late' = late \/ late' = late \cup {<<rp.f, i>>}
        /\ \/ rp' = [rp EXCEPT !.pc = "next", !.idx = {}]
           \/ rp.idx # {i} /\ rp' = [rp EXCEPT !.idx = @ \ {i}]
    BY <1>11 DEF SendReport, TransferReport
  <2> HIDE DEF i
  <2>4. comp' \in [Fid -> [Index -> {"free", "me", "other"}]]
    BY <1>1, <2>2, <2>3, CompType DEF TypeOK
  <2>5. late' \subseteq (Fid \X Index)
    BY <1>1, <2>2, <2>3 DEF TypeOK
  <2>6. rp' \in Reporter /\ (rp'.pc = "send" => rp'.idx # {})
    BY <1>1, <2>2, <2>3 DEF Reporter, ReportPc
  <2> QED  BY <1>1, <1>2, <1>3, <2>1, <2>4, <2>5, <2>6 DEF TypeInv, TypeOK, disk
<1> QED  BY <1>4, <1>5, <1>6, <1>7, <1>8, <1>9, <1>10, <1>11 DEF ReportStep

LEMMA RestoreTypes == ASSUME TypeInv, RestoreStep PROVE TypeInv'
<1>1. /\ TypeOK /\ rep \in Contents /\ fil \in Contents /\ rs \in Restorer
      /\ order \in [Frag -> Order] /\ mine \in [Fid -> SUBSET Frag]
      /\ rs.f \in Fid /\ rs.g \in Frag /\ rs.src \in Fid /\ rs.dirs \subseteq Fid
      /\ rs.todo \subseteq Frag
  BY TaskFields DEF TypeInv, TypeOK, Contents
<1>2. UNCHANGED <<deal, comp, stored, late, rep, repdir, up, rp, get>>
  BY DEF RestoreStep, RestoreStart, RestoreFile, RestoreLocal, RestoreFragment, CopyFile,
         ReportLost, ListOrders, ClaimOrder, CompleteOrder, chain, disk
<1>3. events' \in 0..MaxEvents
  <2>1. Event \/ NoFailure
    BY DEF RestoreStep, RestoreStart, RestoreFile, RestoreLocal, RestoreFragment, CopyFile,
           ReportLost, ListOrders, ClaimOrder, CompleteOrder, Failure, NoFailure
  <2> QED  BY <1>1, <2>1, EventType
<1>4. CASE RestoreStart \/ RestoreFile \/ RestoreLocal \/ ListOrders
  <2>1. UNCHANGED <<mine, order, fil, fildir, failed, cause>>
    BY <1>4 DEF RestoreStart, RestoreFile, RestoreLocal, ListOrders, chain, disk
  <2>2. rs' \in Restorer
    <3>1. CASE RestoreStart
      BY <1>1, <3>1, Defaults DEF RestoreStart, Restorer, RestorePc, TypeOK
    <3>2. CASE RestoreFile
      <4>1. CASE rs.dirs = {}
        BY <3>2, <4>1, Defaults DEF RestoreFile, Restorer, RestorePc
      <4>2. CASE rs.dirs # {}
        <5> DEFINE f == Min(rs.dirs)
        <5>1. f \in Fid
          BY <1>1, <4>2, MinFacts, ConstantAssumption
        <5>2. \/ rs' = [rs EXCEPT !.dirs = @ \ {f}]
              \/ rs' = [rs EXCEPT !.pc = "local", !.dirs = @ \ {f}, !.f = f, !.todo = mine[f]]
          BY <3>2, <4>2 DEF RestoreFile
        <5> DEFINE t == mine[f]
        <5>3. t \subseteq Frag
          BY <1>1, <5>1
        <5>4. CASE rs' = [rs EXCEPT !.dirs = @ \ {f}]
          BY <1>1, <5>4 DEF Restorer
        <5>5. CASE rs' = [rs EXCEPT !.pc = "local", !.dirs = @ \ {f}, !.f = f, !.todo = t]
          <6> HIDE DEF f, t
          <6> QED  BY <1>1, <5>1, <5>3, <5>5 DEF Restorer, RestorePc
        <5> QED  BY <5>2, <5>4, <5>5
      <4> QED  BY <4>1, <4>2
    <3>3. CASE RestoreLocal
      <4>1. \/ rs' = [RsOff EXCEPT !.pc = "file", !.dirs = rs.dirs]
            \/ \E g \in rs.todo :
                 \/ rs' = [rs EXCEPT !.todo = @ \ {g}]
                 \/ rs' = [rs EXCEPT !.pc = "restore", !.todo = @ \ {g}, !.g = g]
        BY <3>3, Zenon DEF RestoreLocal
      <4>2. CASE rs' = [RsOff EXCEPT !.pc = "file", !.dirs = rs.dirs]
        BY <1>1, <4>2, Defaults DEF Restorer, RestorePc
      <4>3. ASSUME NEW g \in rs.todo,
                   \/ rs' = [rs EXCEPT !.todo = @ \ {g}]
                   \/ rs' = [rs EXCEPT !.pc = "restore", !.todo = @ \ {g}, !.g = g]
            PROVE  rs' \in Restorer
        <5>1. rs \in Restorer /\ rs.todo \ {g} \subseteq Frag /\ g \in Frag
          BY <1>1, <4>3
        <5>2. CASE rs' = [rs EXCEPT !.todo = @ \ {g}]
          BY <5>1, <5>2 DEF Restorer
        <5>3. CASE rs' = [rs EXCEPT !.pc = "restore", !.todo = @ \ {g}, !.g = g]
          BY <5>1, <5>3 DEF Restorer, RestorePc
        <5> QED  BY <4>3, <5>2, <5>3
      <4> QED  BY <4>1, <4>2, <4>3
    <3>4. CASE ListOrders
      <4> DEFINE t == {g \in Frag : order[g].st # "none"}
      <4>1. rs' = RsOff \/ rs' = [rs EXCEPT !.pc = "claim", !.todo = t]
        BY <3>4 DEF ListOrders
      <4>2. t \subseteq Frag
        OBVIOUS
      <4> HIDE DEF t
      <4> QED  BY <1>1, <4>1, <4>2, Defaults DEF Restorer, RestorePc
    <3> QED  BY <1>4, <3>1, <3>2, <3>3, <3>4
  <2> QED  BY <1>1, <1>2, <1>3, <2>1, <2>2 DEF TypeInv, TypeOK
<1>5. CASE RestoreFragment
  <2>1. UNCHANGED <<mine, order>> /\ fildir' = fildir \cup {rs.f}
    BY <1>5 DEF RestoreFragment, chain
  <2>2. fil' = fil \/ fil' = Put(fil, rs.f, rs.g, "short")
    BY <1>5 DEF RestoreFragment, Put
  <2>3. fil' \in Contents
    BY <1>1, <2>2, PutType DEF Content
  <2>4. (cause' = cause \/ cause' = cause \cup {<<rs.f, rs.g>>})
        /\ (failed' = failed \/ failed' = failed \cup {rs.g})
    BY <1>5 DEF RestoreFragment, RestoreFails
  <2>5. cause' \subseteq (Fid \X Frag) /\ failed' \subseteq Frag
    BY <1>1, <2>4 DEF TypeOK
  <2>6. rs' \in Restorer
    <3>1. CASE RestoreReturns \/ RestoreFails
      BY <1>1, <3>1, Defaults DEF RestoreReturns, RestoreFails, Restorer, RestorePc
    <3>2. CASE /\ rs.g = ZeroFile \/ Sources(rs.g) # {}
               /\ rs' = [rs EXCEPT !.pc = "copy",
                                   !.src = IF rs.g = ZeroFile THEN rs.f ELSE Min(Sources(rs.g))]
      <4> DEFINE v == IF rs.g = ZeroFile THEN rs.f ELSE Min(Sources(rs.g))
      <4>1. v \in Fid
        <5>1. Sources(rs.g) \subseteq Fid
          BY <1>1 DEF Sources, TypeOK
        <5> QED  BY <1>1, <3>2, <5>1, MinFacts, ConstantAssumption
      <4>2. rs' = [rs EXCEPT !.pc = "copy", !.src = v]
        BY <3>2
      <4> HIDE DEF v
      <4> QED  BY <1>1, <4>1, <4>2 DEF Restorer, RestorePc
    <3> QED  BY <1>5, <3>1, <3>2 DEF RestoreFragment
  <2> QED  BY <1>1, <1>2, <1>3, <2>1, <2>3, <2>5, <2>6 DEF TypeInv, TypeOK, Contents
<1>6. CASE CopyFile
  <2>1. UNCHANGED <<mine, order, fildir>>
    BY <1>6 DEF CopyFile, chain
  <2> DEFINE new == IF rs.g = ZeroFile THEN "good" ELSE fil[rs.src][rs.g]
             v == IF new = "none" THEN "short" ELSE new
  <2>2. fil' = fil \/ fil' = Put(fil, rs.f, rs.g, v)
    BY <1>6 DEF CopyFile, Put
  <2>3. v \in Content
    BY <1>1 DEF Content, Contents
  <2> HIDE DEF v
  <2>4. fil' \in Contents
    BY <1>1, <2>2, <2>3, PutType
  <2>5. (cause' = cause \/ cause' = cause \cup {<<rs.f, rs.g>>})
        /\ (failed' = failed \/ failed' = failed \cup {rs.g})
    BY <1>6 DEF CopyFile, RestoreFails
  <2>6. cause' \subseteq (Fid \X Frag) /\ failed' \subseteq Frag
    BY <1>1, <2>5 DEF TypeOK
  <2>7. RestoreReturns \/ RestoreFails
    BY <1>6 DEF CopyFile
  <2>8. rs' \in Restorer
    BY <1>1, <2>7, Defaults DEF RestoreReturns, RestoreFails, Restorer, RestorePc
  <2> QED  BY <1>1, <1>2, <1>3, <2>1, <2>4, <2>6, <2>8 DEF TypeInv, TypeOK, Contents
<1>7. CASE ReportLost
  <2>1. UNCHANGED <<mine, fil, fildir, failed, cause>>
    BY <1>7 DEF ReportLost, disk
  <2>2. rs' \in Restorer
    BY <1>1, <1>7 DEF ReportLost, RsGoto, Restorer, RestorePc
  <2>3. order' \in [Frag -> Order]
    BY <1>1, <1>7 DEF ReportLost, Order
  <2> QED  BY <1>1, <1>2, <1>3, <2>1, <2>2, <2>3 DEF TypeInv, TypeOK
<1>8. CASE ClaimOrder
  <2>1. UNCHANGED <<mine, fil, fildir, failed, cause>>
    BY <1>8 DEF ClaimOrder, disk
  <2>2. \/ rs' = RsOff /\ order' = order
        \/ \E g \in rs.todo :
             /\ order' = order \/ order' = [order EXCEPT ![g].st = "mine"]
             /\ \/ rs' = [rs EXCEPT !.pc = "restore", !.todo = @ \ {g}, !.g = g, !.f = order[g].f]
                \/ rs' = [rs EXCEPT !.todo = @ \ {g}]
    BY <1>8, Zenon DEF ClaimOrder
  <2>3. ASSUME NEW g \in rs.todo,
               order' = order \/ order' = [order EXCEPT ![g].st = "mine"],
               \/ rs' = [rs EXCEPT !.pc = "restore", !.todo = @ \ {g}, !.g = g, !.f = order[g].f]
               \/ rs' = [rs EXCEPT !.todo = @ \ {g}]
        PROVE  rs' \in Restorer /\ order' \in [Frag -> Order]
    <3>1. g \in Frag /\ order[g].f \in Fid
      BY <1>1 DEF Order
    <3>2. rs' \in Restorer
      <4> DEFINE f == order[g].f
      <4>1. rs \in Restorer /\ rs.todo \ {g} \subseteq Frag /\ g \in Frag /\ f \in Fid
        BY <1>1, <3>1
      <4>2. CASE rs' = [rs EXCEPT !.pc = "restore", !.todo = @ \ {g}, !.g = g, !.f = f]
        <5> HIDE DEF f
        <5> QED  BY <4>1, <4>2 DEF Restorer, RestorePc
      <4>3. CASE rs' = [rs EXCEPT !.todo = @ \ {g}]
        BY <4>1, <4>3 DEF Restorer
      <4> QED  BY <2>3, <4>2, <4>3
    <3>3. order' \in [Frag -> Order]
      BY <1>1, <2>3, <3>1 DEF Order
    <3> QED  BY <3>2, <3>3
  <2>4. rs' \in Restorer /\ order' \in [Frag -> Order]
    BY <1>1, <2>2, <2>3, Defaults
  <2> QED  BY <1>1, <1>2, <1>3, <2>1, <2>4 DEF TypeInv, TypeOK
<1>9. CASE CompleteOrder
  <2>1. UNCHANGED <<fil, fildir, failed, cause>>
    BY <1>9 DEF CompleteOrder, disk
  <2>2. RsGoto("claim") \/ rs' = RsOff
    BY <1>9 DEF CompleteOrder
  <2>3. rs' \in Restorer
    BY <1>1, <2>2, Defaults DEF RsGoto, Restorer, RestorePc
  <2>4. \/ UNCHANGED <<order, mine>>
        \/ /\ order' = [order EXCEPT ![rs.g] = NoOrder]
           /\ mine' = [mine EXCEPT ![rs.f] = IF rs.f \in stored THEN @ \cup {rs.g} ELSE @]
    BY <1>9 DEF CompleteOrder
  <2>5. order' \in [Frag -> Order] /\ mine' \in [Fid -> SUBSET Frag]
    BY <1>1, <2>4, Defaults
  <2> QED  BY <1>1, <1>2, <1>3, <2>1, <2>3, <2>5 DEF TypeInv, TypeOK
<1> QED  BY <1>4, <1>5, <1>6, <1>7, <1>8, <1>9 DEF RestoreStep

\* The fragments of reported indices.
LEMMA ColumnsType ==
  ASSUME NEW f \in Fid, NEW J, J \subseteq Index
  PROVE  UNION {Column[f][i] : i \in J} \subseteq Frag
<1>1. \A i \in J : Column[f][i] \subseteq Frag
  BY ConstantAssumption
<1> QED  BY <1>1

LEMMA EnvironmentTypes == ASSUME TypeInv, Environment PROVE TypeInv'
<1>1. /\ TypeOK /\ fil \in Contents /\ get \in Getter
      /\ comp \in [Fid -> [Index -> {"free", "me", "other"}]]
      /\ order \in [Frag -> Order] /\ mine \in [Fid -> SUBSET Frag]
  BY DEF TypeInv, TypeOK, Contents
<1>2. UNCHANGED <<rep, repdir, fildir, failed, up, rp, rs>>
  BY DEF Environment, CreateDeal, EndDeal, OtherReports, StoreFile, LateReport, OthersOrder,
         DiskLoss, disk, tasks
<1>3. events' \in 0..MaxEvents
  <2>1. Event \/ NoFailure
    BY DEF Environment, CreateDeal, EndDeal, OtherReports, StoreFile, LateReport, OthersOrder,
           DiskLoss, NoFailure
  <2> QED  BY <1>1, <2>1, EventType
<1>4. CASE CreateDeal
  <2>1. PICK f \in Fid : /\ deal' = deal \cup {f}
                         /\ cause' = cause \/ cause' = cause \cup ({f} \X Frag)
    BY <1>4 DEF CreateDeal
  <2>2. deal' \subseteq Fid /\ cause' \subseteq (Fid \X Frag)
    BY <1>1, <2>1 DEF TypeOK
  <2> QED  BY <1>1, <1>2, <1>3, <1>4, <2>2 DEF CreateDeal, disk, tasks, TypeInv, TypeOK
<1>5. CASE EndDeal
  <2>1. PICK f \in deal : deal' = deal \ {f} /\ comp' = [comp EXCEPT ![f] = Free]
    BY <1>5 DEF EndDeal
  <2>2. comp' \in [Fid -> [Index -> {"free", "me", "other"}]] /\ deal' \subseteq Fid
    BY <1>1, <2>1, FreeType DEF TypeOK
  <2> QED  BY <1>1, <1>2, <1>3, <1>5, <2>2 DEF EndDeal, disk, tasks, TypeInv, TypeOK
<1>6. CASE OtherReports
  <2>1. PICK f \in deal, i \in Index : comp' = [comp EXCEPT ![f][i] = "other"]
    BY <1>6 DEF OtherReports
  <2>2. comp' \in [Fid -> [Index -> {"free", "me", "other"}]]
    BY <1>1, <2>1, CompType DEF TypeOK
  <2> QED  BY <1>1, <1>2, <1>3, <1>6, <2>2 DEF OtherReports, disk, tasks, TypeInv, TypeOK
<1>7. CASE StoreFile
  <2>1. PICK f \in deal :
          /\ deal' = deal \ {f} /\ comp' = [comp EXCEPT ![f] = Free] /\ stored' = stored \cup {f}
          /\ mine' = [mine EXCEPT ![f] =
                        UNION {Column[f][i] : i \in {j \in Index : comp[f][j] = "me"}}]
          /\ cause' = cause \/ cause' = cause \cup ({f} \X Frag)
    BY <1>7 DEF StoreFile
  <2>2. f \in Fid
    BY <1>1 DEF TypeOK
  <2>3. comp' \in [Fid -> [Index -> {"free", "me", "other"}]]
    BY <1>1, <2>1, <2>2, FreeType
  <2> DEFINE m == UNION {Column[f][i] : i \in {j \in Index : comp[f][j] = "me"}}
  <2>4. m \subseteq Frag
    BY <2>2, ColumnsType
  <2>5. mine' = [mine EXCEPT ![f] = m]
    BY <2>1
  <2> HIDE DEF m
  <2>6. mine' \in [Fid -> SUBSET Frag]
    BY <1>1, <2>4, <2>5
  <2>7. deal' \subseteq Fid /\ stored' \subseteq Fid /\ cause' \subseteq (Fid \X Frag)
    BY <1>1, <2>1, <2>2 DEF TypeOK
  <2> QED  BY <1>1, <1>2, <1>3, <1>7, <2>3, <2>6, <2>7
           DEF StoreFile, disk, tasks, TypeInv, TypeOK
<1>8. CASE LateReport
  <2>1. PICK x \in late : /\ late' = late \ {x}
                          /\ comp' = comp \/ comp' = [comp EXCEPT ![x[1]][x[2]] = "me"]
    BY <1>8 DEF LateReport, TransferReport
  <2>2. x[1] \in Fid /\ x[2] \in Index /\ late' \subseteq (Fid \X Index)
    BY <1>1, <2>1 DEF TypeOK
  <2>3. comp' \in [Fid -> [Index -> {"free", "me", "other"}]]
    BY <1>1, <2>1, <2>2, CompType
  <2> QED  BY <1>1, <1>2, <1>3, <1>8, <2>2, <2>3 DEF LateReport, disk, tasks, TypeInv, TypeOK
<1>9. CASE OthersOrder
  <2>1. CASE \E f \in stored, g \in Frag :
               order' = [order EXCEPT ![g] = [st |-> "open", f |-> f]] /\ mine' = mine
    <3>1. PICK f \in stored, g \in Frag :
            order' = [order EXCEPT ![g] = [st |-> "open", f |-> f]] /\ mine' = mine
      BY <2>1
    <3>2. f \in Fid
      BY <1>1 DEF TypeOK
    <3>3. order' \in [Frag -> Order]
      BY <1>1, <3>1, <3>2 DEF Order
    <3> QED  BY <1>1, <1>2, <1>3, <1>9, <3>1, <3>3 DEF OthersOrder, disk, tasks, TypeInv, TypeOK
  <2>2. CASE \E g \in Frag : /\ order' = [order EXCEPT ![g] = NoOrder]
                             /\ mine' = [mine EXCEPT ![order[g].f] = @ \ {g}]
    <3>1. PICK g \in Frag : /\ order' = [order EXCEPT ![g] = NoOrder]
                            /\ mine' = [mine EXCEPT ![order[g].f] = @ \ {g}]
      BY <2>2
    <3>2. order' \in [Frag -> Order] /\ mine' \in [Fid -> SUBSET Frag]
      BY <1>1, <3>1, Defaults
    <3> QED  BY <1>1, <1>2, <1>3, <1>9, <3>2 DEF OthersOrder, disk, tasks, TypeInv, TypeOK
  <2>3. \A f \in stored : FragmentsOf(f) \subseteq Frag
    BY <1>1, ColumnsType DEF FragmentsOf, TypeOK
  <2> QED  BY <1>9, <2>1, <2>2, <2>3 DEF OthersOrder
<1>10. CASE DiskLoss
  <2>1. PICK f \in fildir, g \in Frag, d \in {"none", "short"} :
          /\ fil' = Put(fil, f, g, d) /\ cause' = cause \cup {<<f, g>>}
          /\ Watch({}, {<<f, g>>})
    BY <1>10 DEF DiskLoss, Put
  <2>2. f \in Fid /\ d \in Content
    BY <1>1 DEF TypeOK, Content
  <2>3. fil' \in Contents /\ cause' \subseteq (Fid \X Frag)
    BY <1>1, <2>1, <2>2, PutType DEF TypeOK
  <2>4. get' \in Getter
    BY <1>1, <2>1, WatchFacts
  <2> QED  BY <1>1, <1>2, <1>3, <1>10, <2>3, <2>4
           DEF DiskLoss, chain, TypeInv, TypeOK, Contents
<1> QED  BY <1>4, <1>5, <1>6, <1>7, <1>8, <1>9, <1>10 DEF Environment

LEMMA CrashTypes == ASSUME TypeInv, Crash PROVE TypeInv'
<1>1. TypeOK /\ rs.f \in Fid /\ rs.g \in Frag
  BY TaskFields DEF TypeInv
<1>2. /\ up' \in Upload /\ rp' \in Reporter /\ rs' \in Restorer /\ get' \in Getter
      /\ rp'.pc = "off" /\ failed' = {}
  BY Defaults DEF Crash, RpOff
<1>3. cause' \subseteq (Fid \X Frag)
  BY <1>1 DEF Crash, TypeOK
<1>4. events' \in 0..MaxEvents
  BY <1>1, EventType DEF Crash
<1> QED  BY <1>1, <1>2, <1>3, <1>4 DEF Crash, chain, disk, TypeInv, TypeOK

LEMMA InitTypes == Init => TypeInv
<1> SUFFICES ASSUME Init PROVE TypeInv
  OBVIOUS
<1>1. /\ deal = {} /\ stored = Stored0 /\ late = {} /\ repdir = {} /\ fildir = Stored0
      /\ failed = {} /\ up = UpOff /\ rp = RpOff /\ rs = RsOff /\ get = GetOff /\ cause = {}
      /\ events = 0
  BY DEF Init
<1>2. /\ up \in Upload /\ rp \in Reporter /\ rs \in Restorer /\ get \in Getter /\ rp.pc = "off"
  BY <1>1, Defaults DEF RpOff
<1>3. comp \in [Fid -> [Index -> {"free", "me", "other"}]]
  BY DEF Init, Free
<1>4. mine \in [Fid -> SUBSET Frag]
  <2>1. \A f \in Fid : Column[f][1] \subseteq Frag
    BY ConstantAssumption
  <2> QED  BY <2>1 DEF Init
<1>5. order \in [Frag -> Order]
  BY Defaults DEF Init
<1>6. rep \in Contents /\ fil \in Contents
  BY DEF Init, Contents, NoFragments, Content
<1> QED  BY <1>1, <1>2, <1>3, <1>4, <1>5, <1>6, ConstantAssumption DEF TypeInv, TypeOK, Contents

LEMMA NextTypes == TypeInv /\ [Next]_vars => TypeInv'
<1> SUFFICES ASSUME TypeInv, [Next]_vars PROVE TypeInv'
  OBVIOUS
<1>1. CASE UNCHANGED vars
  BY <1>1 DEF vars, chain, disk, tasks, TypeInv, TypeOK
<1> QED  BY <1>1, PutTypes, GetTypes, ReportTypes, RestoreTypes, EnvironmentTypes, CrashTypes
         DEF Next

\* Uploads, reports, restores, requests and the chain stay well formed; in
\* particular every directory name read back from disk is a file of the model.
THEOREM TypeCorrect == Spec => []TypeOK
<1>1. TypeInv => TypeOK
  BY DEF TypeInv
<1> QED  BY InitTypes, NextTypes, <1>1, PTL DEF Spec
-----------------------------------------------------------------------------
(***************************************************************************)
(* KeptWhileAssigned.                                                      *)
(***************************************************************************)
LEMMA Assigned ==
  /\ KeptWhileAssigned <=> \A f \in Fid, g \in Frag : Answerable(f, g) => Kept(f, g)
  /\ KeptWhileAssigned' <=> \A f \in Fid, g \in Frag : Answerable(f, g)' => Kept(f, g)'
  BY DEF KeptWhileAssigned, Kept, Filed, Held

LEMMA ColumnType ==
  ASSUME NEW f \in Fid, NEW i \in Index
  PROVE  Column[f][i] \subseteq Frag
  BY ConstantAssumption

\* A step that only completes files.
LEMMA GrowKept ==
  ASSUME KeptInv, TypeInv',
         UNCHANGED <<deal, comp, stored, mine, order, late, rp, rs, cause>>,
         \A f \in Fid, g \in Frag : rep[f][g] = "good" => rep'[f][g] = "good",
         \A f \in Fid, g \in Frag :
           fil'[f][g] = fil[f][g] \/ (fil[f][g] = "short" /\ fil'[f][g] = "good")
  PROVE  KeptInv'
<1>1. /\ deal' = deal /\ comp' = comp /\ stored' = stored /\ mine' = mine /\ order' = order
      /\ late' = late /\ rp' = rp /\ rs' = rs /\ cause' = cause
  OBVIOUS
<1>2. /\ TypeOK /\ deal \subseteq Fid /\ stored \subseteq Fid /\ mine \in [Fid -> SUBSET Frag]
      /\ rp.f \in Fid /\ rs.f \in Fid /\ rs.g \in Frag /\ rp.idx \subseteq Index
  BY TaskFields DEF KeptInv, TypeInv, TypeOK
<1>3. \A f \in Fid, g \in Frag : /\ Filed(f, g) => Filed(f, g)'
                                 /\ Kept(f, g) => Kept(f, g)'
                                 /\ Answerable(f, g)' <=> Answerable(f, g)
  BY <1>1 DEF Filed, Kept, Answerable
<1>4. StoredInv'
  <2>1. \A f \in Fid : Reported(f)' <=> Reported(f)
    BY <1>1 DEF Reported
  <2>2. \A f \in Fid : f \notin stored => \A g \in Frag : fil'[f][g] = "none"
    BY DEF KeptInv, StoredInv
  <2> QED  BY <1>1, <2>1, <2>2 DEF KeptInv, StoredInv
<1>5. SentInv'
  <2>1. rp.pc = "send" => \A i \in rp.idx : \A g \in Column[rp.f][i] : rep'[rp.f][g] = "good"
    BY <1>2, ColumnType DEF KeptInv, SentInv
  <2>2. \A f \in deal, i \in Index : <<f, i>> \in late => \A g \in Column[f][i] : Kept(f, g)'
    BY <1>2, <1>3, ColumnType DEF KeptInv, SentInv
  <2>3. Reported(rp.f)' <=> Reported(rp.f)
    BY <1>1 DEF Reported
  <2> QED  BY <1>1, <2>1, <2>2, <2>3 DEF KeptInv, SentInv
<1>6. FiledInv'
  <2>1. \A f \in stored : \A g \in mine[f] : fil'[f][g] = "short" => Filed(f, g)'
    BY <1>2, <1>3 DEF KeptInv, FiledInv
  <2>2. rp.pc \in {"deal", "mkdir", "move", "remove"} /\ rp.f \in stored =>
          \A g \in mine[rp.f] : (rp.pc \in {"mkdir", "move"} /\ g \in rp.todo) \/ Filed(rp.f, g)'
    BY <1>2, <1>3 DEF KeptInv, FiledInv
  <2>3. rs.pc = "complete" => Filed(rs.f, rs.g)'
    BY <1>2, <1>3 DEF KeptInv, FiledInv
  <2> QED  BY <1>1, <2>1, <2>2, <2>3 DEF FiledInv
<1>7. KeptWhileAssigned'
  BY <1>3, Assigned DEF KeptInv
<1> QED  BY <1>4, <1>5, <1>6, <1>7 DEF KeptInv

\* A step of RestoreFiles, of an order or of a loss: what is in the file directory
\* stays accounted for, what becomes this miner's is there.
LEMMA RestoreKept ==
  ASSUME KeptInv, TypeInv', UNCHANGED <<deal, comp, stored, late, rep>>,
         rp' = rp \/ rp'.pc = "off", cause \subseteq cause',
         \A f \in Fid, g \in Frag : Filed(f, g) => Filed(f, g)',
         \A f \in Fid, g \in Frag : f \notin stored => fil'[f][g] = "none",
         \A f \in Fid, g \in Frag : fil'[f][g] = "short" => fil[f][g] = "short" \/ Filed(f, g)',
         \A g \in Frag : order'[g].st # "none" => order'[g].f \in stored,
         \A f \in stored : \A g \in mine'[f] : g \in mine[f] \/ Filed(f, g)',
         rs'.pc \in {"local", "lost", "restore", "copy", "complete"} => rs'.f \in stored,
         (rs.pc = "complete" => Filed(rs.f, rs.g))'
  PROVE  KeptInv'
<1>1. deal' = deal /\ comp' = comp /\ stored' = stored /\ late' = late /\ rep' = rep
  OBVIOUS
<1>2. /\ TypeOK /\ deal \subseteq Fid /\ stored \subseteq Fid /\ mine \in [Fid -> SUBSET Frag]
      /\ mine' \in [Fid -> SUBSET Frag] /\ rp.f \in Fid
  BY TaskFields DEF KeptInv, TypeInv, TypeOK
<1>3. \A f \in Fid, g \in Frag : Kept(f, g) => Kept(f, g)'
  BY <1>1 DEF Kept
<1>4. \A f \in Fid : Reported(f)' <=> Reported(f)
  BY <1>1 DEF Reported
<1>5. StoredInv'
  BY <1>1, <1>4 DEF KeptInv, StoredInv
<1>6. SentInv'
  <2>1. \A f \in deal, i \in Index : <<f, i>> \in late => \A g \in Column[f][i] : Kept(f, g)'
    BY <1>2, <1>3, ColumnType DEF KeptInv, SentInv
  <2>2. CASE rp' = rp
    BY <1>1, <1>2, <1>4, <2>1, <2>2 DEF KeptInv, SentInv
  <2>3. CASE rp'.pc = "off"
    BY <1>1, <2>1, <2>3 DEF SentInv
  <2> QED  BY <2>2, <2>3
<1>7. FiledInv'
  <2>1. \A f \in stored : \A g \in mine'[f] : fil'[f][g] = "short" => Filed(f, g)'
    BY <1>2 DEF KeptInv, FiledInv
  <2>2. CASE rp' = rp
    <3>1. rp.pc \in {"deal", "mkdir", "move", "remove"} /\ rp.f \in stored =>
          \A g \in mine'[rp.f] : (rp.pc \in {"mkdir", "move"} /\ g \in rp.todo) \/ Filed(rp.f, g)'
      BY <1>2, <2>2 DEF KeptInv, FiledInv
    <3> QED  BY <1>1, <2>1, <2>2, <3>1 DEF FiledInv
  <2>3. CASE rp'.pc = "off"
    BY <1>1, <2>1, <2>3 DEF FiledInv
  <2> QED  BY <2>2, <2>3
<1>8. KeptWhileAssigned'
  <2> SUFFICES ASSUME NEW f \in Fid, NEW g \in Frag, Answerable(f, g)' PROVE Kept(f, g)'
    BY Assigned
  <2>1. CASE Answerable(f, g)
    BY <1>3, <2>1, Assigned DEF KeptInv
  <2>2. CASE ~Answerable(f, g)
    <3>1. f \in stored /\ g \in mine'[f] /\ g \notin mine[f]
      BY <1>1, <2>2 DEF Answerable
    <3> QED  BY <3>1 DEF Kept
  <2> QED  BY <2>1, <2>2
<1> QED  BY <1>5, <1>6, <1>7, <1>8 DEF KeptInv

\* A step of ReportFiles that touches neither chain nor disk.
LEMMA ReportKept ==
  ASSUME KeptInv, TypeInv', UNCHANGED <<chain, rep, fil, rs, cause>>,
         rp'.pc \in {"mkdir", "move"} => rp'.f \in stored,
         rp'.pc = "send" => \A i \in rp'.idx : \A g \in Column[rp'.f][i] : rep[rp'.f][g] = "good",
         rp'.pc = "remove" => rp'.f \notin deal,
         rp'.pc \in {"deal", "mkdir", "move", "remove"} /\ rp'.f \in stored =>
           \A g \in mine[rp'.f] : (rp'.pc \in {"mkdir", "move"} /\ g \in rp'.todo) \/ Filed(rp'.f, g)
  PROVE  KeptInv'
<1>1. /\ deal' = deal /\ comp' = comp /\ stored' = stored /\ mine' = mine /\ order' = order
      /\ late' = late /\ rep' = rep /\ fil' = fil /\ rs' = rs /\ cause' = cause
  BY DEF chain
<1>2. \A f, g : /\ Filed(f, g)' <=> Filed(f, g)
                /\ Kept(f, g)' <=> Kept(f, g)
                /\ Answerable(f, g)' <=> Answerable(f, g)
                /\ Reported(f)' <=> Reported(f)
  BY <1>1 DEF Filed, Kept, Answerable, Reported
<1>3. StoredInv'
  BY <1>1, <1>2 DEF KeptInv, StoredInv
<1>4. SentInv'
  BY <1>1, <1>2 DEF KeptInv, SentInv
<1>5. FiledInv'
  BY <1>1, <1>2 DEF KeptInv, FiledInv
<1>6. KeptWhileAssigned'
  BY <1>2, Assigned DEF KeptInv
<1> QED  BY <1>3, <1>4, <1>5, <1>6 DEF KeptInv

LEMMA PutKept == ASSUME KeptInv, PutStep PROVE KeptInv'
<1>1. /\ TypeInv' /\ rep \in Contents /\ fil \in Contents /\ up.f \in Fid /\ up.g \in Frag
  BY PutTypes, TaskFields DEF KeptInv, TypeInv, TypeOK, Contents
<1>2. UNCHANGED <<deal, comp, stored, mine, order, late, rp, rs, cause>>
  BY DEF PutStep, PutStart, PutFill, PutCheck, PutMkdir, PutRename, chain
<1>3. /\ \A f \in Fid, g \in Frag : rep[f][g] = "good" => rep'[f][g] = "good"
      /\ \A f \in Fid, g \in Frag :
           fil'[f][g] = fil[f][g] \/ (fil[f][g] = "short" /\ fil'[f][g] = "good")
  <2>1. CASE PutCheck \/ PutMkdir
    BY <2>1 DEF PutCheck, PutMkdir, disk
  <2>2. CASE PutStart
    <3>1. PICK x \in Uploads : /\ rep[x[1]][x[2]] = "none"
                               /\ rep' = rep \/ rep' = Put(rep, x[1], x[2], "short")
      BY <2>2 DEF PutStart, Put
    <3>2. x[1] \in Fid /\ x[2] \in Frag /\ fil' = fil
      BY <2>2, ConstantAssumption DEF PutStart
    <3>3. CASE rep' = Put(rep, x[1], x[2], "short")
      BY <1>1, <3>1, <3>2, <3>3, Entered DEF Content
    <3> QED  BY <3>1, <3>2, <3>3
  <2>3. CASE PutFill
    <3> DEFINE v == IF rep[up.f][up.g] = "short" THEN "good" ELSE rep[up.f][up.g]
               w == IF fil[up.f][up.g] = "short" /\ rep[up.f][up.g] = "none"
                    THEN "good" ELSE fil[up.f][up.g]
    <3>1. rep' = Put(rep, up.f, up.g, v) /\ fil' = Put(fil, up.f, up.g, w)
      BY <2>3 DEF PutFill, Put
    <3>2. v \in Content /\ w \in Content
      BY <1>1 DEF Contents, Content
    <3>3. /\ rep[up.f][up.g] = "good" => v = "good"
          /\ w = fil[up.f][up.g] \/ (fil[up.f][up.g] = "short" /\ w = "good")
      OBVIOUS
    <3> HIDE DEF v, w
    <3>4. \A f \in Fid, g \in Frag :
            rep'[f][g] = IF f = up.f /\ g = up.g THEN v ELSE rep[f][g]
      BY <1>1, <3>1, <3>2, Entered
    <3>5. \A f \in Fid, g \in Frag :
            fil'[f][g] = IF f = up.f /\ g = up.g THEN w ELSE fil[f][g]
      BY <1>1, <3>1, <3>2, Entered
    <3> QED  BY <3>3, <3>4, <3>5
  <2>4. CASE PutRename
    <3>1. (rep' = rep \/ rep' = Put(rep, up.f, up.g, "good")) /\ fil' = fil
      BY <2>4 DEF PutRename, Put
    <3>2. CASE rep' = Put(rep, up.f, up.g, "good")
      BY <1>1, <3>1, <3>2, Entered DEF Content
    <3> QED  BY <3>1, <3>2
  <2> QED  BY <2>1, <2>2, <2>3, <2>4 DEF PutStep
<1> QED  BY <1>1, <1>2, <1>3, GrowKept

LEMMA GetKept == ASSUME KeptInv, GetStep PROVE KeptInv'
<1>1. /\ TypeInv'
      /\ UNCHANGED <<deal, comp, stored, mine, order, late, rp, rs, cause, rep, fil>>
  BY GetTypes DEF KeptInv, GetStep, GetStart, findFragment, GetEnd, chain, disk
<1> QED  BY <1>1, GrowKept

\* reportfile and the first half of checkfile.
LEMMA LookKept ==
  ASSUME KeptInv, TypeInv',
         ReportStart \/ ReportNext \/ CheckFile \/ CheckDeal \/ MkFileDir \/ ReportFile
  PROVE  KeptInv'
<1>1. UNCHANGED <<chain, rep, fil, rs, cause>>
  BY DEF ReportStart, ReportNext, CheckFile, CheckDeal, MkFileDir, ReportFile, disk
<1>2. /\ TypeOK /\ rp \in Reporter /\ rp.dirs \subseteq Fid /\ repdir \subseteq Fid
      /\ deal \cap stored = {}
  BY TaskFields DEF KeptInv, TypeInv, TypeOK, StoredInv
<1>3. CASE rp'.pc \in {"off", "file", "report", "next"}
  BY <1>1, <1>3, ReportKept
<1>4. CASE ReportStart \/ ReportNext
  <2>1. rp'.pc \in {"off", "file"}
    <3>1. \/ rp' = RpOff
          \/ \E d \in SUBSET Fid : d # {} /\ rp' = [RpOff EXCEPT !.pc = "file", !.dirs = d, !.f = Min(d)]
      <4>1. rp.dirs \ {rp.f} \in SUBSET Fid /\ repdir \in SUBSET Fid
        BY <1>2
      <4> QED  BY <1>4, <4>1, Zenon DEF ReportStart, ReportNext
    <3>2. CASE rp' = RpOff
      BY <3>2 DEF RpOff
    <3>3. CASE \E d \in SUBSET Fid : d # {} /\ rp' = [RpOff EXCEPT !.pc = "file", !.dirs = d, !.f = Min(d)]
      <4>1. PICK d \in SUBSET Fid : d # {} /\ rp' = [RpOff EXCEPT !.pc = "file", !.dirs = d, !.f = Min(d)]
        BY <3>3, Zenon
      <4> QED  BY <4>1, NextReport
    <3> QED  BY <3>1, <3>2, <3>3
  <2> QED  BY <1>3, <2>1
<1>5. CASE CheckFile
  <2>1. CASE RpGoto("next")
    BY <1>2, <1>3, <2>1, ReporterGoto DEF ReportPc
  <2>2. CASE rp.f \notin stored /\ RpGoto("deal")
    <3>1. rp'.pc = "deal" /\ rp'.f = rp.f
      BY <1>2, <2>2, ReporterGoto DEF ReportPc
    <3> QED  BY <1>1, <2>2, <3>1, ReportKept
  <2>3. CASE rp.f \in stored /\ mine[rp.f] = {} /\ RpGoto("remove")
    <3>1. rp'.pc = "remove" /\ rp'.f = rp.f
      BY <1>2, <2>3, ReporterGoto DEF ReportPc
    <3>2. rp'.f \notin deal /\ mine[rp'.f] = {}
      BY <1>2, <2>3, <3>1
    <3> QED  BY <1>1, <3>1, <3>2, ReportKept
  <2>4. CASE rp.f \in stored /\ rp' = [rp EXCEPT !.pc = "mkdir", !.todo = mine[rp.f]]
    <3>1. rp'.pc = "mkdir" /\ rp'.f = rp.f /\ rp'.todo = mine[rp.f]
      BY <1>2, <2>4 DEF Reporter
    <3> QED  BY <1>1, <2>4, <3>1, ReportKept
  <2> QED  BY <1>5, <2>1, <2>2, <2>3, <2>4 DEF CheckFile
<1>6. CASE CheckDeal
  <2>1. CASE RpGoto("next") \/ RpGoto("report")
    BY <1>2, <1>3, <2>1, ReporterGoto DEF ReportPc
  <2>2. CASE rp.f \notin deal /\ RpGoto("remove")
    <3>1. rp'.pc = "remove" /\ rp'.f = rp.f /\ rp.pc = "deal"
      BY <1>2, <1>6, <2>2, ReporterGoto DEF ReportPc, CheckDeal
    <3>2. rp.f \in stored => \A g \in mine[rp.f] : Filed(rp.f, g)
      BY <3>1 DEF KeptInv, FiledInv
    <3> QED  BY <1>1, <2>2, <3>1, <3>2, ReportKept
  <2> QED  BY <1>6, <2>1, <2>2 DEF CheckDeal
<1>7. CASE MkFileDir
  <2>1. rp'.pc = "move" /\ rp'.f = rp.f /\ rp'.todo = rp.todo /\ rp.pc = "mkdir"
    BY <1>2, <1>7, ReporterGoto DEF ReportPc, MkFileDir
  <2>2. rp.f \in stored /\ \A g \in mine[rp.f] : g \in rp.todo \/ Filed(rp.f, g)
    BY <2>1 DEF KeptInv, StoredInv, FiledInv
  <2> QED  BY <1>1, <2>1, <2>2, ReportKept
<1>8. CASE ReportFile
  <2>1. CASE RpGoto("next")
    BY <1>2, <1>3, <2>1, ReporterGoto DEF ReportPc
  <2>2. CASE rp' = [rp EXCEPT !.pc = "send", !.idx = SucIndex(rp.f)]
    <3>1. rp'.pc = "send" /\ rp'.f = rp.f /\ rp'.idx = SucIndex(rp.f)
      BY <1>2, <2>2 DEF Reporter
    <3>2. \A i \in SucIndex(rp.f) : \A g \in Column[rp.f][i] : rep[rp.f][g] = "good"
      BY DEF SucIndex
    <3> QED  BY <1>1, <3>1, <3>2, ReportKept
  <2> QED  BY <1>8, <2>1, <2>2 DEF ReportFile
<1> QED  BY <1>4, <1>5, <1>6, <1>7, <1>8

\* A step of ReportFiles that moves or removes files.
LEMMA MovedKept ==
  ASSUME KeptInv, TypeInv', UNCHANGED <<chain, rs, cause>>,
         rp'.pc \in {"move", "remove", "next"},
         rp'.pc = "move" => rp'.f \in stored,
         rp'.pc = "remove" => rp'.f \notin deal,
         (rp.pc \in {"move", "remove"} /\ rp.f \in stored =>
            \A g \in mine[rp.f] : (rp.pc = "move" /\ g \in rp.todo) \/ Filed(rp.f, g))',
         \A f \in Fid, g \in Frag : Filed(f, g) => Filed(f, g)',
         \A f \in Fid, g \in Frag : f \notin stored => fil'[f][g] = "none",
         \A f \in stored : \A g \in mine[f] : fil'[f][g] = "short" => Filed(f, g)',
         \A f \in Fid, g \in Frag : Answerable(f, g) => Kept(f, g)',
         \A f \in deal, i \in Index : <<f, i>> \in late => \A g \in Column[f][i] : Kept(f, g)'
  PROVE  KeptInv'
<1>1. /\ deal' = deal /\ comp' = comp /\ stored' = stored /\ mine' = mine /\ order' = order
      /\ late' = late /\ rs' = rs /\ cause' = cause
  BY DEF chain
<1>2. \A f, g : /\ Answerable(f, g)' <=> Answerable(f, g)
                /\ Reported(f)' <=> Reported(f)
  BY <1>1 DEF Answerable, Reported
<1>3. /\ TypeOK /\ rp' \in Reporter /\ rs.f \in Fid /\ rs.g \in Frag /\ mine \in [Fid -> SUBSET Frag]
      /\ stored \subseteq Fid
  BY TaskFields DEF KeptInv, TypeInv, TypeOK
<1>4. rp'.f \in Fid
  BY <1>3 DEF Reporter
<1>5. StoredInv'
  BY <1>1, <1>2 DEF KeptInv, StoredInv
<1>6. SentInv'
  BY <1>1, <1>2 DEF KeptInv, SentInv
<1>7. FiledInv'
  <2>2. (rs.pc = "complete" => Filed(rs.f, rs.g))'
    <3>1. rs.pc = "complete" => Filed(rs.f, rs.g)
      BY DEF KeptInv, FiledInv
    <3>2. Filed(rs.f, rs.g) => Filed(rs.f, rs.g)'
      <4>1. \A f \in Fid, g \in Frag : Filed(f, g) => (fil'[f][g] = "good" \/ <<f, g>> \in cause
                                       \/ (rs.pc = "copy" /\ rs.f = f /\ rs.g = g))
        BY <1>1 DEF Filed
      <4> QED  BY <1>1, <1>3, <4>1 DEF Filed
    <3> QED  BY <1>1, <3>1, <3>2
  <2> QED  BY <1>1, <2>2 DEF FiledInv
<1>8. KeptWhileAssigned'
  BY <1>2, Assigned
<1> QED  BY <1>5, <1>6, <1>7, <1>8 DEF KeptInv

\* RemoveAll of a directory in the report directory.
LEMMA RemoveReportKept == ASSUME KeptInv, TypeInv', RemoveReport PROVE KeptInv'
<1>1. /\ TypeOK /\ rp \in Reporter /\ rp.f \in Fid /\ rep \in Contents
      /\ mine \in [Fid -> SUBSET Frag] /\ deal \subseteq Fid /\ stored \subseteq Fid
  BY TaskFields DEF KeptInv, TypeInv, TypeOK, Contents
<1>2. UNCHANGED <<chain, rs, cause>> /\ fil' = fil /\ rp.pc = "remove" /\ rp'.pc = "next"
  BY <1>1, ReporterGoto DEF RemoveReport, ReportPc
<1>3. \A f \in Fid, g \in Frag : f # rp.f => rep'[f][g] = rep[f][g]
  BY <1>1 DEF RemoveReport, Contents
<1>4. \A f, g : Filed(f, g)' <=> Filed(f, g)
  BY <1>2 DEF Filed
<1>5. \A f \in Fid, g \in Frag : Kept(f, g) /\ f # rp.f => Kept(f, g)'
  BY <1>3, <1>4 DEF Kept
<1>6. \A f \in Fid, g \in Frag : Answerable(f, g) => Kept(f, g)'
  <2> SUFFICES ASSUME NEW f \in Fid, NEW g \in Frag, Answerable(f, g) PROVE Kept(f, g)'
    OBVIOUS
  <2>1. CASE f # rp.f
    BY <1>5, <2>1, Assigned DEF KeptInv
  <2>2. CASE f = rp.f /\ f \in deal /\ Reported(f)
    <3>1. <<f, g>> \in cause
      BY <1>2, <2>2 DEF KeptInv, SentInv
    <3> QED  BY <1>2, <3>1 DEF Kept, Filed
  <2>3. CASE f = rp.f /\ f \in stored /\ g \in mine[f]
    <3>1. Filed(f, g)
      BY <1>2, <2>3 DEF KeptInv, FiledInv
    <3> QED  BY <1>4, <3>1 DEF Kept
  <2> QED  BY <2>1, <2>2, <2>3 DEF Answerable, Reported
<1>7. \A f \in deal, i \in Index : <<f, i>> \in late => \A g \in Column[f][i] : Kept(f, g)'
  <2> SUFFICES ASSUME NEW f \in deal, NEW i \in Index, <<f, i>> \in late, NEW g \in Column[f][i]
               PROVE  Kept(f, g)'
    OBVIOUS
  <2>1. f \in Fid /\ g \in Frag
    BY <1>1, ColumnType
  <2>2. CASE f # rp.f
    BY <1>5, <2>1, <2>2 DEF KeptInv, SentInv
  <2>3. CASE f = rp.f
    <3>1. <<f, g>> \in cause
      BY <1>2, <2>1, <2>3 DEF KeptInv, SentInv
    <3> QED  BY <1>2, <3>1 DEF Kept, Filed
  <2> QED  BY <2>2, <2>3
<1>8. \A f \in Fid, g \in Frag : f \notin stored => fil'[f][g] = "none"
  BY <1>2 DEF KeptInv, StoredInv
<1>9. \A f \in stored : \A g \in mine[f] : fil'[f][g] = "short" => Filed(f, g)'
  BY <1>2, <1>4 DEF KeptInv, FiledInv
<1> QED  BY <1>2, <1>4, <1>6, <1>7, <1>8, <1>9, MovedKept

\* The loop of checkfile over the fragments of a stored file.
LEMMA MoveFragmentsKept == ASSUME KeptInv, TypeInv', MoveFragments PROVE KeptInv'
<1>1. /\ TypeOK /\ rp \in Reporter /\ rp.f \in Fid /\ rep \in Contents /\ fil \in Contents
      /\ mine \in [Fid -> SUBSET Frag] /\ deal \subseteq Fid /\ stored \subseteq Fid
      /\ rp.todo \subseteq Frag
  BY TaskFields DEF KeptInv, TypeInv, TypeOK, Contents
<1>2. UNCHANGED <<chain, rs, cause>> /\ rp.pc = "move"
  BY DEF MoveFragments
<1>3. /\ rp.f \in stored /\ rp.f \notin deal
      /\ \A g \in mine[rp.f] : g \in rp.todo \/ Filed(rp.f, g)
  BY <1>2 DEF KeptInv, StoredInv, FiledInv
<1>4. CASE rp.todo = {} /\ RpGoto("remove") /\ UNCHANGED <<rep, fil>>
  <2>1. rp'.pc = "remove" /\ rp'.f = rp.f
    BY <1>1, <1>4, ReporterGoto DEF ReportPc
  <2> QED  BY <1>2, <1>3, <1>4, <2>1, ReportKept
<1>5. CASE RpGoto("next") /\ UNCHANGED <<rep, fil>>
  <2>1. rp'.pc = "next"
    BY <1>1, <1>5, ReporterGoto DEF ReportPc
  <2> QED  BY <1>2, <1>5, <2>1, ReportKept
<1>6. ASSUME NEW g \in rp.todo, fil[rp.f][g] # "none", rp' = [rp EXCEPT !.todo = @ \ {g}],
             UNCHANGED <<rep, fil>>
      PROVE  KeptInv'
  <2>1. rp'.pc = "move" /\ rp'.f = rp.f /\ rp'.todo = rp.todo \ {g}
    BY <1>1, <1>2, <1>6 DEF Reporter
  <2>2. g \in Frag /\ fil[rp.f][g] \in Content
    BY <1>1 DEF Contents
  <2>3. g \in mine[rp.f] => Filed(rp.f, g)
    <3>1. CASE fil[rp.f][g] = "good"
      BY <3>1 DEF Filed
    <3>2. CASE fil[rp.f][g] = "short"
      BY <1>3, <3>2 DEF KeptInv, FiledInv
    <3> QED  BY <1>6, <2>2, <3>1, <3>2 DEF Content
  <2> QED  BY <1>2, <1>3, <1>6, <2>1, <2>3, ReportKept
<1>7. ASSUME NEW g \in rp.todo, fil[rp.f][g] = "none", rp' = [rp EXCEPT !.todo = @ \ {g}],
             fil' = Put(fil, rp.f, g, rep[rp.f][g]), rep' = Put(rep, rp.f, g, "none")
      PROVE  KeptInv'
  <2>1. rp'.pc = "move" /\ rp'.f = rp.f /\ rp'.todo = rp.todo \ {g}
    BY <1>1, <1>2, <1>7 DEF Reporter
  <2>2. g \in Frag /\ rep[rp.f][g] \in Content /\ "none" \in Content
    BY <1>1 DEF Contents, Content
  <2>3. \A e \in Fid, h \in Frag : fil'[e][h] = IF e = rp.f /\ h = g THEN rep[rp.f][g] ELSE fil[e][h]
    BY <1>1, <1>7, <2>2, Entered
  <2>4. \A e \in Fid, h \in Frag : rep'[e][h] = IF e = rp.f /\ h = g THEN "none" ELSE rep[e][h]
    BY <1>1, <1>7, <2>2, Entered
  <2>5. \A e \in Fid, h \in Frag : Filed(e, h) => Filed(e, h)'
    BY <1>2, <1>7, <2>3 DEF Filed
  <2>6. \A e \in Fid, h \in Frag : Kept(e, h) => Kept(e, h)'
    BY <1>2, <1>7, <2>3, <2>4, <2>5 DEF Kept, Filed
  <2>7. g \in mine[rp.f] /\ rep[rp.f][g] # "good" => Filed(rp.f, g)
    <3>1. g \in mine[rp.f] => Answerable(rp.f, g)
      BY <1>3 DEF Answerable
    <3> QED  BY <1>1, <2>2, <3>1, Assigned DEF KeptInv, Kept
  <2>8. \A e \in Fid, h \in Frag : Answerable(e, h) => Kept(e, h)'
    BY <2>6, Assigned DEF KeptInv
  <2>9. \A e \in deal, i \in Index : <<e, i>> \in late => \A h \in Column[e][i] : Kept(e, h)'
    BY <1>1, <2>6, ColumnType DEF KeptInv, SentInv
  <2>10. \A e \in Fid, h \in Frag : e \notin stored => fil'[e][h] = "none"
    BY <1>3, <2>3 DEF KeptInv, StoredInv
  <2>11. \A e \in stored : \A h \in mine[e] : fil'[e][h] = "short" => Filed(e, h)'
    <3> SUFFICES ASSUME NEW e \in stored, NEW h \in mine[e], fil'[e][h] = "short"
                 PROVE  Filed(e, h)
      BY <1>1, <2>5
    <3>1. e \in Fid /\ h \in Frag
      BY <1>1
    <3>2. CASE e = rp.f /\ h = g
      BY <2>3, <2>7, <3>1, <3>2
    <3>3. CASE ~(e = rp.f /\ h = g)
      BY <2>3, <3>1, <3>3 DEF KeptInv, FiledInv
    <3> QED  BY <3>2, <3>3
  <2>12. (\A h \in mine[rp.f] : h \in rp.todo \/ Filed(rp.f, h))'
    <3>1. ASSUME NEW h \in mine[rp.f], h \notin rp.todo \ {g}
          PROVE  \/ <<rp.f, h>> \in cause \/ fil'[rp.f][h] = "good"
                 \/ (rs.pc = "copy" /\ rs.f = rp.f /\ rs.g = h)
      <4>1. h \in Frag
        BY <1>1
      <4>2. h # g => Filed(rp.f, h)
        BY <1>3, <3>1
      <4>3. CASE h = g /\ rep[rp.f][g] = "good"
        BY <1>1, <2>3, <4>1, <4>3
      <4>4. CASE Filed(rp.f, h)
        <5>1. h # g => fil'[rp.f][h] = fil[rp.f][h]
          BY <1>1, <2>3, <4>1
        <5> QED  BY <1>7, <4>4, <5>1 DEF Filed
      <4> QED  BY <2>7, <4>2, <4>3, <4>4
    <3> QED  BY <1>2, <2>1, <3>1 DEF Filed, chain
  <2> QED  BY <1>2, <1>3, <2>1, <2>5, <2>8, <2>9, <2>10, <2>11, <2>12, MovedKept
<1> QED  BY <1>4, <1>5, <1>6, <1>7 DEF MoveFragments, Put

LEMMA SendReportKept == ASSUME KeptInv, TypeInv', SendReport PROVE KeptInv'
<1> DEFINE i == Min(rp.idx)
<1>1. /\ TypeOK /\ rp \in Reporter /\ rp.f \in Fid /\ rp.idx \subseteq Index
      /\ comp \in [Fid -> [Index -> {"free", "me", "other"}]]
      /\ mine \in [Fid -> SUBSET Frag] /\ deal \subseteq Fid /\ stored \subseteq Fid
  BY TaskFields DEF KeptInv, TypeInv, TypeOK
<1>2. /\ UNCHANGED <<deal, stored, mine, order, rs, cause>> /\ rep' = rep /\ fil' = fil
      /\ rp.pc = "send"
  BY DEF SendReport, disk
<1>3. i \in rp.idx /\ i \in Index
  BY <1>1, <1>2, MinFacts, ConstantAssumption DEF KeptInv, TypeInv
<1>4. /\ \/ comp' = comp
         \/ comp' = [comp EXCEPT ![rp.f][i] = "me"] /\ rp.f \in deal
      /\ late' = late \/ late' = late \cup {<<rp.f, i>>}
      /\ \/ rp' = [rp EXCEPT !.pc = "next", !.idx = {}]
         \/ rp' = [rp EXCEPT !.idx = @ \ {i}]
  BY DEF SendReport, TransferReport, Takes
<1> HIDE DEF i
<1>5. rp'.f = rp.f /\ rp'.idx \subseteq rp.idx /\ rp'.pc \in {"next", "send"}
  <2>1. CASE rp' = [rp EXCEPT !.pc = "next", !.idx = {}]
    BY <1>1, <2>1 DEF Reporter
  <2>2. CASE rp' = [rp EXCEPT !.idx = @ \ {i}]
    BY <1>1, <1>2, <2>2 DEF Reporter
  <2> QED  BY <1>4, <2>1, <2>2
<1>6. \A e \in Fid, j \in Index : comp'[e][j] = "me" =>
         comp[e][j] = "me" \/ (e = rp.f /\ j = i /\ rp.f \in deal)
  <2>1. CASE comp' = comp
    BY <2>1
  <2>2. CASE comp' = [comp EXCEPT ![rp.f][i] = "me"] /\ rp.f \in deal
    BY <1>1, <1>3, <2>2, CompType
  <2> QED  BY <1>4, <2>1, <2>2
<1>7. \A f, g : (Filed(f, g)' <=> Filed(f, g)) /\ (Kept(f, g)' <=> Kept(f, g))
  BY <1>2 DEF Filed, Kept
<1>8. \A g \in Column[rp.f][i] : rep[rp.f][g] = "good" /\ Kept(rp.f, g)
  BY <1>2, <1>3 DEF KeptInv, SentInv, Kept
<1>9. StoredInv'
  <2>1. \A f \in Fid : f \notin deal => ~Reported(f)'
    BY <1>6 DEF Reported, KeptInv, StoredInv
  <2> QED  BY <1>2, <1>5, <2>1 DEF KeptInv, StoredInv
<1>10. SentInv'
  <2>1. \A j \in rp'.idx : \A g \in Column[rp'.f][j] : rep'[rp'.f][g] = "good"
    BY <1>2, <1>5 DEF KeptInv, SentInv
  <2>2. \A f \in deal, j \in Index : <<f, j>> \in late' => \A g \in Column[f][j] : Kept(f, g)'
    <3> SUFFICES ASSUME NEW f \in deal, NEW j \in Index, <<f, j>> \in late', NEW g \in Column[f][j]
                 PROVE  Kept(f, g)
      BY <1>7
    <3>1. CASE <<f, j>> \in late
      BY <3>1 DEF KeptInv, SentInv
    <3>2. CASE f = rp.f /\ j = i
      BY <1>8, <3>2
    <3> QED  BY <1>4, <3>1, <3>2
  <2> QED  BY <1>2, <1>5, <2>1, <2>2 DEF SentInv
<1>11. FiledInv'
  BY <1>2, <1>5, <1>7 DEF KeptInv, FiledInv
<1>12. KeptWhileAssigned'
  <2> SUFFICES ASSUME NEW f \in Fid, NEW g \in Frag, Answerable(f, g)' PROVE Kept(f, g)
    BY <1>7, Assigned
  <2>1. CASE Answerable(f, g)
    BY <2>1, Assigned DEF KeptInv
  <2>2. CASE f = rp.f /\ g \in Column[f][i]
    BY <1>8, <2>2
  <2> QED  BY <1>2, <1>6, <2>1, <2>2 DEF Answerable
<1> QED  BY <1>9, <1>10, <1>11, <1>12 DEF KeptInv

LEMMA ReportStepKept == ASSUME KeptInv, ReportStep PROVE KeptInv'
<1>1. TypeInv'
  BY ReportTypes DEF KeptInv
<1> QED  BY <1>1, LookKept, RemoveReportKept, MoveFragmentsKept, SendReportKept DEF ReportStep

\* A step of RestoreFiles that only looks.
LEMMA SearchKept ==
  ASSUME KeptInv, TypeInv', UNCHANGED <<chain, rep, fil, rp, cause>>, rs.pc # "copy",
         rs'.pc \notin {"copy", "complete"},
         rs'.pc \in {"local", "lost", "restore"} => rs'.f \in stored
  PROVE  KeptInv'
<1>1. /\ deal' = deal /\ comp' = comp /\ stored' = stored /\ mine' = mine /\ order' = order
      /\ late' = late /\ rep' = rep /\ fil' = fil /\ rp' = rp /\ cause' = cause
  BY DEF chain
<1>2. \A f \in Fid, g \in Frag : Filed(f, g) => Filed(f, g)'
  BY <1>1 DEF Filed
<1>3. \A f \in Fid, g \in Frag : f \notin stored => fil'[f][g] = "none"
  BY <1>1 DEF KeptInv, StoredInv
<1>4. \A g \in Frag : order'[g].st # "none" => order'[g].f \in stored
  BY <1>1 DEF KeptInv, StoredInv
<1> QED  BY <1>1, <1>2, <1>3, <1>4, RestoreKept

LEMMA RestoreLookKept ==
  ASSUME KeptInv, TypeInv', RestoreStart \/ RestoreFile \/ RestoreLocal \/ ListOrders
  PROVE  KeptInv'
<1>1. /\ TypeOK /\ rs \in Restorer /\ (rs.pc = "local" => rs.f \in stored)
      /\ rs.pc \in {"off", "file", "local", "others"}
  BY DEF KeptInv, TypeInv, TypeOK, StoredInv, RestoreStart, RestoreFile, RestoreLocal, ListOrders
<1>2. UNCHANGED <<chain, rep, fil, rp, cause>>
  BY DEF RestoreStart, RestoreFile, RestoreLocal, ListOrders, disk
<1>3. /\ rs'.pc \notin {"copy", "complete"}
      /\ rs'.pc \in {"local", "lost", "restore"} => rs'.f \in stored
  <2>1. CASE RestoreStart
    BY <2>1, Defaults DEF RestoreStart, Restorer
  <2>2. CASE RestoreFile
    <3>1. CASE rs.dirs = {}
      BY <2>2, <3>1, Defaults DEF RestoreFile, Restorer
    <3>2. CASE rs.dirs # {}
      <4> DEFINE f == Min(rs.dirs)
                 t == mine[f]
      <4>1. /\ rs.pc = "file"
            /\ \/ rs' = [rs EXCEPT !.dirs = @ \ {f}]
               \/ /\ f \in stored
                  /\ rs' = [rs EXCEPT !.pc = "local", !.dirs = @ \ {f}, !.f = f, !.todo = t]
        BY <2>2, <3>2 DEF RestoreFile
      <4> HIDE DEF f, t
      <4> QED  BY <1>1, <4>1 DEF Restorer
    <3> QED  BY <3>1, <3>2
  <2>3. CASE RestoreLocal
    <3>1. /\ rs.pc = "local"
          /\ \/ rs' = [RsOff EXCEPT !.pc = "file", !.dirs = rs.dirs]
             \/ \E g \in rs.todo :
                 \/ rs' = [rs EXCEPT !.todo = @ \ {g}]
                 \/ rs' = [rs EXCEPT !.pc = "restore", !.todo = @ \ {g}, !.g = g]
      BY <2>3, Zenon DEF RestoreLocal
    <3>2. CASE rs' = [RsOff EXCEPT !.pc = "file", !.dirs = rs.dirs]
      BY <3>2, Defaults DEF Restorer
    <3>3. ASSUME NEW g \in rs.todo,
                 \/ rs' = [rs EXCEPT !.todo = @ \ {g}]
                 \/ rs' = [rs EXCEPT !.pc = "restore", !.todo = @ \ {g}, !.g = g]
          PROVE  rs'.pc \in {"local", "restore"} /\ rs'.f = rs.f
      BY <1>1, <3>1, <3>3 DEF Restorer
    <3> QED  BY <1>1, <3>1, <3>2, <3>3
  <2>4. CASE ListOrders
    <3> DEFINE t == {g \in Frag : order[g].st # "none"}
    <3>1. rs' = RsOff \/ rs' = [rs EXCEPT !.pc = "claim", !.todo = t]
      BY <2>4 DEF ListOrders
    <3> HIDE DEF t
    <3>2. CASE rs' = RsOff
      BY <3>2 DEF RsOff
    <3>3. CASE rs' = [rs EXCEPT !.pc = "claim", !.todo = t]
      BY <1>1, <3>3 DEF Restorer
    <3> QED  BY <3>1, <3>2, <3>3
  <2> QED  BY <2>1, <2>2, <2>3, <2>4
<1> QED  BY <1>1, <1>2, <1>3, SearchKept

LEMMA RestoreFragmentKept == ASSUME KeptInv, TypeInv', RestoreFragment PROVE KeptInv'
<1>1. /\ TypeOK /\ rs \in Restorer /\ rs.f \in Fid /\ rs.g \in Frag /\ fil \in Contents
      /\ rs.pc = "restore" /\ rs.f \in stored
  BY TaskFields DEF KeptInv, TypeInv, TypeOK, StoredInv, Contents, RestoreFragment
<1>2. /\ deal' = deal /\ comp' = comp /\ stored' = stored /\ mine' = mine /\ order' = order
      /\ late' = late /\ rep' = rep /\ rp' = rp
  BY DEF RestoreFragment, chain
<1>3. \A f \in Fid, g \in Frag : f \notin stored => fil[f][g] = "none"
  BY DEF KeptInv, StoredInv
<1>4. \A g \in Frag : order'[g].st # "none" => order'[g].f \in stored
  BY <1>2 DEF KeptInv, StoredInv
<1>5. CASE RestoreReturns /\ fil' = fil /\ cause' = cause \cup {<<rs.f, rs.g>>}
  <2>1. rs'.f = rs.f /\ rs'.g = rs.g /\ rs'.pc \in {"local", "complete"}
    BY <1>1, <1>5 DEF RestoreReturns, Restorer
  <2>2. \A f \in Fid, g \in Frag : Filed(f, g) => Filed(f, g)'
    BY <1>1, <1>5 DEF Filed
  <2>3. Filed(rs.f, rs.g)'
    BY <1>5, <2>1 DEF Filed
  <2> QED  BY <1>1, <1>2, <1>3, <1>4, <1>5, <2>1, <2>2, <2>3, RestoreKept
<1>6. CASE /\ rs'.pc = "copy" /\ rs'.f = rs.f /\ rs'.g = rs.g
           /\ fil' = Put(fil, rs.f, rs.g, "short") /\ cause \subseteq cause'
  <2>1. \A f \in Fid, g \in Frag : fil'[f][g] = IF f = rs.f /\ g = rs.g THEN "short" ELSE fil[f][g]
    BY <1>1, <1>6, Entered DEF Content
  <2>2. \A f \in Fid, g \in Frag : Filed(f, g) => Filed(f, g)'
    BY <1>1, <1>6, <2>1 DEF Filed
  <2>3. Filed(rs.f, rs.g)'
    BY <1>6 DEF Filed
  <2>4. \A f \in Fid, g \in Frag : fil'[f][g] = "short" => fil[f][g] = "short" \/ Filed(f, g)'
    BY <1>6, <2>1 DEF Filed
  <2>5. \A f \in Fid, g \in Frag : f \notin stored => fil'[f][g] = "none"
    BY <1>1, <1>3, <2>1
  <2> QED  BY <1>1, <1>2, <1>4, <1>6, <2>2, <2>4, <2>5, RestoreKept
<1>7. CASE RestoreFails /\ UNCHANGED <<fil, cause>>
  <2>1. rs'.f = rs.f /\ rs'.pc \in {"lost", "claim"}
    BY <1>1, <1>7 DEF RestoreFails, Restorer
  <2> QED  BY <1>1, <1>2, <1>7, <2>1, SearchKept DEF chain
<1> QED
  <2>1. CASE /\ rs' = [rs EXCEPT !.pc = "copy",
                                 !.src = IF rs.g = ZeroFile THEN rs.f ELSE Min(Sources(rs.g))]
             /\ fil' = [fil EXCEPT ![rs.f][rs.g] = "short"]
             /\ cause' = cause \/ cause' = cause \cup {<<rs.f, rs.g>>}
    <3> DEFINE v == IF rs.g = ZeroFile THEN rs.f ELSE Min(Sources(rs.g))
    <3>1. rs' = [rs EXCEPT !.pc = "copy", !.src = v]
      BY <2>1
    <3> HIDE DEF v
    <3>2. rs'.pc = "copy" /\ rs'.f = rs.f /\ rs'.g = rs.g
      BY <1>1, <3>1 DEF Restorer
    <3> QED  BY <1>6, <2>1, <3>2 DEF Put
  <2> QED  BY <1>5, <1>7, <2>1 DEF RestoreFragment

LEMMA CopyFileKept == ASSUME KeptInv, TypeInv', CopyFile PROVE KeptInv'
<1>1. /\ TypeOK /\ rs \in Restorer /\ rs.f \in Fid /\ rs.g \in Frag /\ fil \in Contents
      /\ rs.pc = "copy" /\ rs.f \in stored /\ rs.src \in Fid
  BY TaskFields DEF KeptInv, TypeInv, TypeOK, StoredInv, Contents, CopyFile
<1>2. /\ deal' = deal /\ comp' = comp /\ stored' = stored /\ mine' = mine /\ order' = order
      /\ late' = late /\ rep' = rep /\ rp' = rp
  BY DEF CopyFile, chain
<1>3. \A f \in Fid, g \in Frag : f \notin stored => fil[f][g] = "none"
  BY DEF KeptInv, StoredInv
<1>4. \A g \in Frag : order'[g].st # "none" => order'[g].f \in stored
  BY <1>2 DEF KeptInv, StoredInv
<1>5. rs'.f = rs.f /\ rs'.g = rs.g /\ rs'.pc \in {"local", "complete", "lost", "claim"}
  <2>1. RestoreReturns \/ RestoreFails
    BY DEF CopyFile
  <2> QED  BY <1>1, <2>1 DEF RestoreReturns, RestoreFails, Restorer
<1>6. cause \subseteq cause'
  BY DEF CopyFile
<1> DEFINE new == IF rs.g = ZeroFile THEN "good" ELSE fil[rs.src][rs.g]
           v == IF new = "none" THEN "short" ELSE new
<1>7. \/ fil' = fil /\ <<rs.f, rs.g>> \in cause'
      \/ fil' = Put(fil, rs.f, rs.g, v) /\ (v = "good" \/ <<rs.f, rs.g>> \in cause')
  BY DEF CopyFile, Put
<1>8. v \in Content
  BY <1>1 DEF Content, Contents
<1> HIDE DEF v
<1>9. /\ \A f \in Fid, g \in Frag : f # rs.f \/ g # rs.g => fil'[f][g] = fil[f][g]
      /\ fil'[rs.f][rs.g] = "good" \/ <<rs.f, rs.g>> \in cause'
  <2>1. CASE fil' = fil /\ <<rs.f, rs.g>> \in cause'
    BY <2>1
  <2>2. CASE fil' = Put(fil, rs.f, rs.g, v) /\ (v = "good" \/ <<rs.f, rs.g>> \in cause')
    BY <1>1, <1>8, <2>2, Entered
  <2> QED  BY <1>7, <2>1, <2>2
<1>10. \A f \in Fid, g \in Frag : Filed(f, g) => Filed(f, g)'
  BY <1>6, <1>9 DEF Filed
<1>11. Filed(rs.f, rs.g)'
  BY <1>5, <1>9 DEF Filed
<1>12. \A f \in Fid, g \in Frag : fil'[f][g] = "short" => fil[f][g] = "short" \/ Filed(f, g)'
  BY <1>9 DEF Filed
<1>13. \A f \in Fid, g \in Frag : f \notin stored => fil'[f][g] = "none"
  BY <1>1, <1>3, <1>9
<1> QED  BY <1>1, <1>2, <1>4, <1>5, <1>6, <1>10, <1>11, <1>12, <1>13, RestoreKept

\* A step that changes orders and what is assigned, but no file.
LEMMA OrderKept ==
  ASSUME KeptInv, TypeInv', UNCHANGED <<deal, comp, stored, late, rep, fil, rp, cause>>,
         rs' = rs \/ (rs.pc # "copy" /\ rs'.pc \in {"off", "local", "restore", "claim"}
                      /\ (rs'.pc \in {"local", "restore"} => rs'.f \in stored)),
         \A g \in Frag : order'[g].st # "none" => order'[g].f \in stored,
         \A f \in stored : \A g \in mine'[f] : g \in mine[f] \/ Filed(f, g)
  PROVE  KeptInv'
<1>1. TypeOK /\ stored \subseteq Fid /\ mine' \in [Fid -> SUBSET Frag]
  BY DEF KeptInv, TypeInv, TypeOK
<1>2. \A f, g : Filed(f, g) => Filed(f, g)'
  BY DEF Filed
<1>3. \A f \in Fid, g \in Frag : f \notin stored => fil'[f][g] = "none"
  BY DEF KeptInv, StoredInv
<1>4. /\ rs'.pc \in {"local", "lost", "restore", "copy", "complete"} => rs'.f \in stored
      /\ (rs.pc = "complete" => Filed(rs.f, rs.g))'
  <2>1. CASE rs' = rs
    <3>1. rs.pc = "complete" => Filed(rs.f, rs.g)
      BY DEF KeptInv, FiledInv
    <3>2. (rs.pc = "complete" => Filed(rs.f, rs.g))'
      BY <2>1, <3>1 DEF Filed
    <3> QED  BY <2>1, <3>2 DEF KeptInv, StoredInv
  <2>2. CASE rs' # rs
    BY <2>2
  <2> QED  BY <2>1, <2>2
<1>5. \A f \in stored : \A g \in mine'[f] : g \in mine[f] \/ Filed(f, g)'
  BY <1>2
<1> QED  BY <1>2, <1>3, <1>4, <1>5, RestoreKept

LEMMA ReportLostKept == ASSUME KeptInv, TypeInv', ReportLost PROVE KeptInv'
<1>1. /\ TypeOK /\ rs \in Restorer /\ rs.f \in Fid /\ rs.g \in Frag /\ order \in [Frag -> Order]
      /\ rs.pc = "lost" /\ rs.f \in stored
      /\ \A g \in Frag : order[g].st # "none" => order[g].f \in stored
  BY TaskFields DEF KeptInv, TypeInv, TypeOK, StoredInv, ReportLost
<1>2. /\ UNCHANGED <<deal, comp, stored, late, rep, fil, rp, cause>> /\ mine' = mine
  BY DEF ReportLost, disk
<1>3. rs'.pc = "local" /\ rs'.f = rs.f
  BY <1>1 DEF ReportLost, RsGoto, Restorer
<1>4. \A g \in Frag : order'[g].st # "none" => order'[g].f \in stored
  <2>1. CASE order' = order
    BY <1>1, <2>1
  <2>2. CASE order' = [order EXCEPT ![rs.g] = [st |-> "open", f |-> rs.f]]
    BY <1>1, <2>2
  <2> QED  BY <2>1, <2>2 DEF ReportLost
<1> QED  BY <1>1, <1>2, <1>3, <1>4, OrderKept

LEMMA ClaimOrderKept == ASSUME KeptInv, TypeInv', ClaimOrder PROVE KeptInv'
<1>1. /\ TypeOK /\ rs \in Restorer /\ order \in [Frag -> Order] /\ rs.todo \subseteq Frag
      /\ rs.pc = "claim"
      /\ \A g \in Frag : order[g].st # "none" => order[g].f \in stored
  BY TaskFields DEF KeptInv, TypeInv, TypeOK, StoredInv, ClaimOrder
<1>2. /\ UNCHANGED <<deal, comp, stored, late, rep, fil, rp, cause>> /\ mine' = mine
  BY DEF ClaimOrder, disk
<1>3. \/ rs' = RsOff /\ order' = order
      \/ \E g \in rs.todo :
           \/ /\ order[g].st = "open" /\ order' = [order EXCEPT ![g].st = "mine"]
              /\ rs' = [rs EXCEPT !.pc = "restore", !.todo = @ \ {g}, !.g = g, !.f = order[g].f]
           \/ /\ rs' = [rs EXCEPT !.todo = @ \ {g}]
              /\ \/ order' = order
                 \/ order[g].st = "open" /\ order' = [order EXCEPT ![g].st = "mine"]
  BY Zenon DEF ClaimOrder, Claimable
<1>4. CASE rs' = RsOff /\ order' = order
  <2>1. rs'.pc = "off"
    BY <1>4 DEF RsOff
  <2> QED  BY <1>1, <1>2, <1>4, <2>1, OrderKept
<1>5. ASSUME NEW g \in rs.todo,
             order' = order \/ (order[g].st = "open" /\ order' = [order EXCEPT ![g].st = "mine"])
      PROVE  \A h \in Frag : order'[h].st # "none" => order'[h].f \in stored
  <2>1. CASE order' = order
    BY <1>1, <2>1
  <2>2. CASE order[g].st = "open" /\ order' = [order EXCEPT ![g].st = "mine"]
    <3>1. g \in Frag /\ order[g] \in Order /\ order[g].f \in stored
      BY <1>1, <2>2
    <3>2. ASSUME NEW h \in Frag, order'[h].st # "none" PROVE order'[h].f \in stored
      <4>1. CASE h = g
        BY <1>1, <2>2, <3>1, <4>1 DEF Order
      <4>2. CASE h # g
        BY <1>1, <2>2, <3>1, <3>2, <4>2
      <4> QED  BY <4>1, <4>2
    <3> QED  BY <3>2
  <2> QED  BY <1>5, <2>1, <2>2
<1>6. ASSUME NEW g \in rs.todo, order[g].st = "open", order' = [order EXCEPT ![g].st = "mine"],
             rs' = [rs EXCEPT !.pc = "restore", !.todo = @ \ {g}, !.g = g, !.f = order[g].f]
      PROVE  KeptInv'
  <2>1. order[g].f \in stored
    BY <1>1, <1>6
  <2> DEFINE e == order[g].f
  <2>2. rs' = [rs EXCEPT !.pc = "restore", !.todo = @ \ {g}, !.g = g, !.f = e] /\ e \in stored
    BY <1>6, <2>1
  <2> HIDE DEF e
  <2>3. rs'.pc = "restore" /\ rs'.f \in stored
    BY <1>1, <2>2 DEF Restorer
  <2>4. \A h \in Frag : order'[h].st # "none" => order'[h].f \in stored
    BY <1>5, <1>6
  <2> QED  BY <1>1, <1>2, <2>3, <2>4, OrderKept
<1>7. ASSUME NEW g \in rs.todo, rs' = [rs EXCEPT !.todo = @ \ {g}],
             order' = order \/ (order[g].st = "open" /\ order' = [order EXCEPT ![g].st = "mine"])
      PROVE  KeptInv'
  <2>1. rs'.pc = "claim"
    BY <1>1, <1>7 DEF Restorer
  <2>2. \A h \in Frag : order'[h].st # "none" => order'[h].f \in stored
    BY <1>5, <1>7
  <2> QED  BY <1>1, <1>2, <2>1, <2>2, OrderKept
<1> QED  BY <1>3, <1>4, <1>6, <1>7

LEMMA CompleteOrderKept == ASSUME KeptInv, TypeInv', CompleteOrder PROVE KeptInv'
<1>1. /\ TypeOK /\ rs \in Restorer /\ order \in [Frag -> Order] /\ rs.f \in Fid /\ rs.g \in Frag
      /\ mine \in [Fid -> SUBSET Frag] /\ rs.pc = "complete" /\ Filed(rs.f, rs.g)
      /\ stored \subseteq Fid
      /\ \A g \in Frag : order[g].st # "none" => order[g].f \in stored
  BY TaskFields DEF KeptInv, TypeInv, TypeOK, StoredInv, FiledInv, CompleteOrder
<1>2. UNCHANGED <<deal, comp, stored, late, rep, fil, rp, cause>>
  BY DEF CompleteOrder, disk
<1>3. rs'.pc \in {"off", "claim"}
  <2>1. RsGoto("claim") \/ rs' = RsOff
    BY DEF CompleteOrder
  <2> QED  BY <1>1, <2>1 DEF RsGoto, RsOff, Restorer
<1>4. \/ UNCHANGED <<order, mine>>
      \/ /\ order' = [order EXCEPT ![rs.g] = NoOrder]
         /\ mine' = [mine EXCEPT ![rs.f] = IF rs.f \in stored THEN @ \cup {rs.g} ELSE @]
  BY DEF CompleteOrder
<1>5. \A g \in Frag : order'[g].st # "none" => order'[g].f \in stored
  <2>1. NoOrder.st = "none"
    BY DEF NoOrder
  <2> QED  BY <1>1, <1>4, <2>1
<1>6. \A f \in stored : \A g \in mine'[f] : g \in mine[f] \/ Filed(f, g)
  <2>1. \A f \in Fid : mine'[f] \subseteq mine[f] \/ (f = rs.f /\ mine'[f] \subseteq mine[f] \cup {rs.g})
    BY <1>1, <1>4
  <2> QED  BY <1>1, <2>1
<1> QED  BY <1>1, <1>2, <1>3, <1>5, <1>6, OrderKept

LEMMA RestoreStepKept == ASSUME KeptInv, RestoreStep PROVE KeptInv'
<1>1. TypeInv'
  BY RestoreTypes DEF KeptInv
<1> QED  BY <1>1, RestoreLookKept, RestoreFragmentKept, CopyFileKept, ReportLostKept,
            ClaimOrderKept, CompleteOrderKept DEF RestoreStep

LEMMA OthersOrderKept == ASSUME KeptInv, TypeInv', OthersOrder PROVE KeptInv'
<1>1. /\ TypeOK /\ order \in [Frag -> Order] /\ mine \in [Fid -> SUBSET Frag] /\ stored \subseteq Fid
      /\ \A g \in Frag : order[g].st # "none" => order[g].f \in stored
  BY DEF KeptInv, TypeInv, TypeOK, StoredInv
<1>2. UNCHANGED <<deal, comp, stored, late, rep, fil, rp, cause>> /\ rs' = rs
  BY DEF OthersOrder, disk, tasks
<1>3. CASE \E f \in stored, g \in Frag :
             order' = [order EXCEPT ![g] = [st |-> "open", f |-> f]] /\ mine' = mine
  <2>1. PICK f \in stored, g \in Frag :
          order' = [order EXCEPT ![g] = [st |-> "open", f |-> f]] /\ mine' = mine
    BY <1>3
  <2>2. \A h \in Frag : order'[h].st # "none" => order'[h].f \in stored
    BY <1>1, <2>1
  <2>3. \A e \in stored : \A h \in mine'[e] : h \in mine[e]
    BY <2>1
  <2> QED  BY <1>2, <2>2, <2>3, OrderKept
<1>4. CASE \E g \in Frag : /\ order' = [order EXCEPT ![g] = NoOrder]
                           /\ mine' = [mine EXCEPT ![order[g].f] = @ \ {g}]
  <2>1. PICK g \in Frag : /\ order' = [order EXCEPT ![g] = NoOrder]
                          /\ mine' = [mine EXCEPT ![order[g].f] = @ \ {g}]
    BY <1>4
  <2>2. \A h \in Frag : order'[h].st # "none" => order'[h].f \in stored
    <3>1. NoOrder.st = "none"
      BY DEF NoOrder
    <3> QED  BY <1>1, <2>1, <3>1
  <2>3. \A f \in stored : \A h \in mine'[f] : h \in mine[f]
    BY <1>1, <2>1
  <2> QED  BY <1>2, <2>2, <2>3, OrderKept
<1>5. \A f \in stored : FragmentsOf(f) \subseteq Frag
  BY <1>1, ColumnsType DEF FragmentsOf
<1> QED  BY <1>3, <1>4, <1>5 DEF OthersOrder

LEMMA DiskLossKept == ASSUME KeptInv, TypeInv', DiskLoss PROVE KeptInv'
<1>1. /\ TypeOK /\ fil \in Contents /\ fildir \subseteq Fid
      /\ \A g \in Frag : order[g].st # "none" => order[g].f \in stored
      /\ \A f \in Fid, g \in Frag : f \notin stored => fil[f][g] = "none"
      /\ rs.pc \in {"local", "lost", "restore", "copy", "complete"} => rs.f \in stored
      /\ rs.pc = "complete" => Filed(rs.f, rs.g)
      /\ rs.f \in Fid /\ rs.g \in Frag
  BY TaskFields DEF KeptInv, TypeInv, TypeOK, Contents, StoredInv, FiledInv
<1>2. UNCHANGED <<deal, comp, stored, late, rep, mine, order, rp, rs>>
  BY DEF DiskLoss, chain
<1>3. PICK a \in fildir, b \in Frag, d \in {"none", "short"} :
        fil[a][b] = "good" /\ fil' = Put(fil, a, b, d) /\ cause' = cause \cup {<<a, b>>}
  BY DEF DiskLoss, Put
<1>4. a \in Fid /\ d \in Content
  BY <1>1 DEF Content
<1>5. \A f \in Fid, g \in Frag : fil'[f][g] = IF f = a /\ g = b THEN d ELSE fil[f][g]
  BY <1>1, <1>3, <1>4, Entered
<1>6. \A f \in Fid, g \in Frag : Filed(f, g) => Filed(f, g)'
  BY <1>2, <1>3, <1>5 DEF Filed
<1>7. \A f \in Fid, g \in Frag : fil'[f][g] = "short" => fil[f][g] = "short" \/ Filed(f, g)'
  BY <1>3, <1>5 DEF Filed
<1>8. \A f \in Fid, g \in Frag : f \notin stored => fil'[f][g] = "none"
  BY <1>1, <1>3, <1>4, <1>5
<1>9. (rs.pc = "complete" => Filed(rs.f, rs.g))'
  <2>1. Filed(rs.f, rs.g) =>
          fil'[rs.f][rs.g] = "good" \/ <<rs.f, rs.g>> \in cause' \/ rs.pc = "copy"
    BY <1>1, <1>3, <1>5 DEF Filed
  <2> QED  BY <1>1, <1>2, <2>1 DEF Filed
<1> QED  BY <1>1, <1>2, <1>3, <1>6, <1>7, <1>8, <1>9, RestoreKept

LEMMA CrashKept == ASSUME KeptInv, Crash PROVE KeptInv'
<1>1. TypeInv'
  BY CrashTypes DEF KeptInv
<1>2. /\ UNCHANGED <<deal, comp, stored, late, rep, mine, order, fil>>
      /\ rp'.pc = "off" /\ rs'.pc = "off"
  BY DEF Crash, chain, disk, RpOff, RsOff
<1>3. cause \subseteq cause' /\ (rs.pc = "copy" => <<rs.f, rs.g>> \in cause')
  BY DEF Crash
<1>4. \A f \in Fid, g \in Frag : Filed(f, g) => Filed(f, g)'
  BY <1>2, <1>3 DEF Filed
<1>5. /\ \A g \in Frag : order'[g].st # "none" => order'[g].f \in stored
      /\ \A f \in Fid, g \in Frag : f \notin stored => fil'[f][g] = "none"
  BY <1>2 DEF KeptInv, StoredInv
<1> QED  BY <1>1, <1>2, <1>3, <1>4, <1>5, RestoreKept

\* A step of the chain alone leaves the fragments where they are.
LEMMA ChainKeeps ==
  ASSUME UNCHANGED <<rep, fil, rs>>, cause \subseteq cause'
  PROVE  \A f, g : /\ Filed(f, g) => Filed(f, g)'
                   /\ Kept(f, g) => Kept(f, g)'
                   /\ <<f, g>> \in cause' => Filed(f, g)' /\ Kept(f, g)'
  BY DEF Filed, Kept

LEMMA CreateDealKept == ASSUME KeptInv, TypeInv', CreateDeal PROVE KeptInv'
<1>1. PICK a \in Fid \ (deal \cup stored) :
        /\ deal' = deal \cup {a}
        /\ cause' = IF \E x \in late : x[1] = a THEN cause \cup ({a} \X Frag) ELSE cause
  BY DEF CreateDeal
<1>2. /\ comp' = comp /\ stored' = stored /\ mine' = mine /\ order' = order /\ late' = late
      /\ rep' = rep /\ fil' = fil /\ rp' = rp /\ rs' = rs
  BY DEF CreateDeal, disk, tasks
<1>3. cause \subseteq cause' /\ \A i : <<a, i>> \in late => \A g \in Frag : <<a, g>> \in cause'
  BY <1>1
<1>4. /\ TypeOK /\ deal \subseteq Fid /\ stored \subseteq Fid /\ mine \in [Fid -> SUBSET Frag]
      /\ rp.f \in Fid /\ rs.f \in Fid /\ rs.g \in Frag
  BY TaskFields DEF KeptInv, TypeInv, TypeOK
<1>5. \A f, g : /\ Filed(f, g) => Filed(f, g)'
                /\ Kept(f, g) => Kept(f, g)'
                /\ <<f, g>> \in cause' => Filed(f, g)' /\ Kept(f, g)'
  BY <1>2, <1>3, ChainKeeps
<1>6. \A f \in Fid : (Reported(f)' <=> Reported(f)) /\ (Reported(f) => f \in deal)
  BY <1>2 DEF Reported, KeptInv, StoredInv
<1>7. StoredInv'
  BY <1>1, <1>2, <1>6 DEF KeptInv, StoredInv
<1>8. SentInv'
  <2>1. \A f \in deal', i \in Index : <<f, i>> \in late => \A g \in Column[f][i] : Kept(f, g)'
    <3> SUFFICES ASSUME NEW f \in deal', NEW i \in Index, <<f, i>> \in late, NEW g \in Column[f][i]
                 PROVE  Kept(f, g)'
      OBVIOUS
    <3>1. CASE f = a
      BY <1>3, <1>5, <3>1, ColumnType
    <3>2. CASE f \in deal
      BY <1>5, <3>2 DEF KeptInv, SentInv
    <3> QED  BY <1>1, <3>1, <3>2
  <2>2. rp.pc = "remove" /\ rp.f \in deal'
        /\ (Reported(rp.f) \/ \E i \in Index : <<rp.f, i>> \in late) =>
          \A g \in Frag : <<rp.f, g>> \in cause'
    <3>1. CASE rp.f = a
      BY <1>1, <1>3, <1>6, <3>1
    <3>2. CASE rp.f # a
      BY <1>1, <1>3, <3>2 DEF KeptInv, SentInv
    <3> QED  BY <3>1, <3>2
  <2> QED  BY <1>2, <1>4, <1>6, <2>1, <2>2 DEF KeptInv, SentInv
<1>9. FiledInv'
  <2>1. (rs.pc = "complete" => Filed(rs.f, rs.g))'
    BY <1>2, <1>5 DEF KeptInv, FiledInv
  <2>2. \A f \in stored : \A g \in mine[f] : fil[f][g] = "short" => Filed(f, g)'
    BY <1>5 DEF KeptInv, FiledInv
  <2>3. rp.pc \in {"deal", "mkdir", "move", "remove"} /\ rp.f \in stored =>
        \A g \in mine[rp.f] : (rp.pc \in {"mkdir", "move"} /\ g \in rp.todo) \/ Filed(rp.f, g)'
    BY <1>2, <1>5 DEF KeptInv, FiledInv
  <2> QED  BY <1>2, <2>1, <2>2, <2>3 DEF FiledInv
<1>10. KeptWhileAssigned'
  <2> SUFFICES ASSUME NEW f \in Fid, NEW g \in Frag, Answerable(f, g)' PROVE Kept(f, g)
    BY <1>5, Assigned
  <2>1. Answerable(f, g)
    <3>1. \/ f \in stored /\ g \in mine[f]
          \/ f \in deal' /\ \E i \in Index : comp[f][i] = "me" /\ g \in Column[f][i]
      BY <1>2 DEF Answerable
    <3>2. CASE f \in deal' /\ \E i \in Index : comp[f][i] = "me" /\ g \in Column[f][i]
      BY <1>6, <3>2 DEF Answerable, Reported
    <3> QED  BY <3>1, <3>2 DEF Answerable
  <2> QED  BY <2>1, Assigned DEF KeptInv
<1> QED  BY <1>7, <1>8, <1>9, <1>10 DEF KeptInv

\* A report, this miner's or another's, or the end of a deal: the deals become no
\* more, and a report counts or is on its way that was on its way or counted.
LEMMA ChainKept ==
  ASSUME KeptInv, TypeInv', UNCHANGED <<stored, mine, order, rep, fil, rp, rs, cause>>,
         deal' \subseteq deal, late' \subseteq late,
         \A f \in Fid, i \in Index :
           comp'[f][i] = "me" => /\ f \in deal'
                                 /\ comp[f][i] = "me" \/ <<f, i>> \in late
  PROVE  KeptInv'
<1>1. /\ stored' = stored /\ mine' = mine /\ order' = order
      /\ rep' = rep /\ fil' = fil /\ rp' = rp /\ rs' = rs /\ cause' = cause
  OBVIOUS
<1>2. TypeOK /\ deal \subseteq Fid /\ rp.f \in Fid
  BY TaskFields DEF KeptInv, TypeInv, TypeOK
<1>3. \A f, g : (Filed(f, g)' <=> Filed(f, g)) /\ (Kept(f, g)' <=> Kept(f, g))
  BY <1>1 DEF Filed, Kept
<1>4. \A f \in Fid : Reported(f)' =>
        f \in deal' /\ (Reported(f) \/ \E i \in Index : <<f, i>> \in late)
  BY DEF Reported
<1>5. StoredInv'
  BY <1>1, <1>4 DEF KeptInv, StoredInv
<1>6. SentInv'
  <2>1. \A f \in deal', i \in Index : <<f, i>> \in late' => \A g \in Column[f][i] : Kept(f, g)'
    BY <1>3 DEF KeptInv, SentInv
  <2>2. (rp.pc = "remove" /\ rp.f \in deal
         /\ (Reported(rp.f) \/ \E i \in Index : <<rp.f, i>> \in late) =>
           \A g \in Frag : <<rp.f, g>> \in cause)'
    <3>1. Reported(rp.f)' => Reported(rp.f) \/ \E i \in Index : <<rp.f, i>> \in late
      <4>1. PICK e \in Fid : e = rp.f
        BY <1>2
      <4> QED  BY <1>1, <1>4, <4>1 DEF Reported
    <3> QED  BY <1>1, <3>1 DEF KeptInv, SentInv
  <2> QED  BY <1>1, <2>1, <2>2 DEF KeptInv, SentInv
<1>7. FiledInv'
  BY <1>1, <1>3 DEF KeptInv, FiledInv
<1>8. KeptWhileAssigned'
  <2> SUFFICES ASSUME NEW f \in Fid, NEW g \in Frag, Answerable(f, g)' PROVE Kept(f, g)
    BY <1>3, Assigned
  <2>1. CASE Answerable(f, g)
    BY <2>1, Assigned DEF KeptInv
  <2>2. CASE f \in deal /\ \E i \in Index : <<f, i>> \in late /\ g \in Column[f][i]
    BY <2>2 DEF KeptInv, SentInv
  <2> QED  BY <1>1, <2>1, <2>2 DEF Answerable
<1> QED  BY <1>5, <1>6, <1>7, <1>8 DEF KeptInv

LEMMA DealKept == ASSUME KeptInv, TypeInv', EndDeal \/ OtherReports \/ LateReport PROVE KeptInv'
<1>1. /\ TypeOK /\ comp \in [Fid -> [Index -> {"free", "me", "other"}]] /\ deal \subseteq Fid
      /\ late \subseteq (Fid \X Index)
      /\ \A f \in Fid, i \in Index : comp[f][i] = "me" => f \in deal
  BY DEF KeptInv, TypeInv, TypeOK, StoredInv, Reported
<1>2. UNCHANGED <<stored, mine, order, rep, fil, rp, rs, cause>>
  BY DEF EndDeal, OtherReports, LateReport, disk, tasks
<1>3. CASE EndDeal
  <2>1. PICK a \in deal : deal' = deal \ {a} /\ comp' = [comp EXCEPT ![a] = Free] /\ late' = late
    BY <1>3 DEF EndDeal
  <2>2. \A e \in Fid, j \in Index : comp'[e][j] = IF e = a THEN "free" ELSE comp[e][j]
    BY <1>1, <2>1, FreeType
  <2>3. \A e \in Fid, j \in Index : comp'[e][j] = "me" => e \in deal' /\ comp[e][j] = "me"
    BY <1>1, <2>1, <2>2
  <2> QED  BY <1>2, <2>1, <2>3, ChainKept
<1>4. CASE OtherReports
  <2>1. PICK a \in deal, i \in Index : comp' = [comp EXCEPT ![a][i] = "other"]
    BY <1>4 DEF OtherReports
  <2>2. \A e \in Fid, j \in Index : comp'[e][j] = IF e = a /\ j = i THEN "other" ELSE comp[e][j]
    BY <1>1, <2>1, CompType
  <2>3. deal' = deal /\ late' = late
    BY <1>4 DEF OtherReports
  <2>4. \A e \in Fid, j \in Index : comp'[e][j] = "me" => e \in deal' /\ comp[e][j] = "me"
    BY <1>1, <2>2, <2>3
  <2> QED  BY <1>2, <2>3, <2>4, ChainKept
<1>5. CASE LateReport
  <2>1. PICK x \in late : /\ late' = late \ {x}
                          /\ \/ x[1] \in deal /\ comp' = [comp EXCEPT ![x[1]][x[2]] = "me"]
                             \/ comp' = comp
    BY <1>5 DEF LateReport, TransferReport, Takes
  <2>2. x[1] \in Fid /\ x[2] \in Index /\ x = <<x[1], x[2]>> /\ deal' = deal
    BY <1>1, <1>5 DEF LateReport
  <2>3. CASE x[1] \in deal /\ comp' = [comp EXCEPT ![x[1]][x[2]] = "me"]
    <3>1. \A e \in Fid, j \in Index :
            comp'[e][j] = IF e = x[1] /\ j = x[2] THEN "me" ELSE comp[e][j]
      BY <1>1, <2>2, <2>3, CompType
    <3>2. \A e \in Fid, j \in Index : comp'[e][j] = "me" =>
            e \in deal' /\ (comp[e][j] = "me" \/ <<e, j>> \in late)
      <4>1. <<x[1], x[2]>> \in late
        BY <2>2
      <4> QED  BY <1>1, <2>2, <2>3, <3>1, <4>1
    <3> QED  BY <1>2, <2>1, <2>2, <3>2, ChainKept
  <2>4. CASE comp' = comp
    BY <1>1, <1>2, <2>1, <2>2, <2>4, ChainKept
  <2> QED  BY <2>1, <2>3, <2>4
<1> QED  BY <1>3, <1>4, <1>5

\* The deal is replaced by the file's metadata.
LEMMA StoreFileKept == ASSUME KeptInv, TypeInv', StoreFile PROVE KeptInv'
<1>1. PICK a \in deal :
        /\ deal' = deal \ {a} /\ comp' = [comp EXCEPT ![a] = Free] /\ stored' = stored \cup {a}
        /\ mine' = [mine EXCEPT ![a] =
                      UNION {Column[a][i] : i \in {j \in Index : comp[a][j] = "me"}}]
        /\ cause' = IF rp.pc = "deal" /\ rp.f = a THEN cause \cup ({a} \X Frag) ELSE cause
  BY DEF StoreFile
<1>2. /\ order' = order /\ late' = late /\ rep' = rep /\ fil' = fil /\ rp' = rp /\ rs' = rs
  BY DEF StoreFile, disk, tasks
<1>3. /\ TypeOK /\ deal \subseteq Fid /\ stored \subseteq Fid /\ mine \in [Fid -> SUBSET Frag]
      /\ comp \in [Fid -> [Index -> {"free", "me", "other"}]]
      /\ rp.f \in Fid /\ rs.f \in Fid /\ rs.g \in Frag /\ a \in Fid /\ a \notin stored
      /\ mine' \in [Fid -> SUBSET Frag]
  BY TaskFields DEF KeptInv, TypeInv, TypeOK, StoredInv
<1>4. cause \subseteq cause' /\ (rp.pc = "deal" /\ rp.f = a => \A g \in Frag : <<a, g>> \in cause')
  BY <1>1
<1>5. \A f, g : /\ Filed(f, g) => Filed(f, g)'
                /\ Kept(f, g) => Kept(f, g)'
                /\ <<f, g>> \in cause' => Filed(f, g)' /\ Kept(f, g)'
  BY <1>2, <1>4, ChainKeeps
<1>6. \A e \in Fid, j \in Index : comp'[e][j] = IF e = a THEN "free" ELSE comp[e][j]
  BY <1>1, <1>3, FreeType
<1>7. \A f \in Fid : Reported(f)' => Reported(f) /\ f # a
  BY <1>6 DEF Reported
<1>8. /\ \A f \in Fid : f # a => mine'[f] = mine[f]
      /\ \A g \in mine'[a] : Answerable(a, g) /\ Reported(a)
  <2> DEFINE m == UNION {Column[a][i] : i \in {j \in Index : comp[a][j] = "me"}}
  <2>1. \A g \in m : Answerable(a, g) /\ Reported(a)
    BY DEF Answerable, Reported
  <2>2. mine' = [mine EXCEPT ![a] = m]
    BY <1>1
  <2> HIDE DEF m
  <2> QED  BY <1>3, <2>1, <2>2
<1>9. \A g \in Frag : fil[a][g] = "none"
  BY <1>3 DEF KeptInv, StoredInv
<1>10. StoredInv'
  <2>1. \A f \in Fid : f \notin deal' => ~Reported(f)'
    BY <1>1, <1>7 DEF KeptInv, StoredInv
  <2> QED  BY <1>1, <1>2, <2>1 DEF KeptInv, StoredInv
<1>11. SentInv'
  <2>1. \A f \in deal', i \in Index : <<f, i>> \in late => \A g \in Column[f][i] : Kept(f, g)'
    BY <1>1, <1>5 DEF KeptInv, SentInv
  <2>2. (rp.pc = "remove" /\ rp.f \in deal
         /\ (Reported(rp.f) \/ \E i \in Index : <<rp.f, i>> \in late) =>
           \A g \in Frag : <<rp.f, g>> \in cause)'
    <3>1. Reported(rp.f)' => Reported(rp.f)
      <4>1. PICK e \in Fid : e = rp.f
        BY <1>3
      <4> QED  BY <1>2, <1>7, <4>1 DEF Reported
    <3> QED  BY <1>1, <1>2, <1>4, <3>1 DEF KeptInv, SentInv
  <2> QED  BY <1>2, <2>1, <2>2 DEF KeptInv, SentInv
<1>12. FiledInv'
  <2>1. (rs.pc = "complete" => Filed(rs.f, rs.g))'
    BY <1>2, <1>5 DEF KeptInv, FiledInv
  <2>2. \A f \in stored' : \A g \in mine'[f] : fil[f][g] = "short" => Filed(f, g)'
    <3> SUFFICES ASSUME NEW f \in stored', NEW g \in mine'[f], fil[f][g] = "short"
                 PROVE  Filed(f, g)'
      OBVIOUS
    <3>1. f \in Fid /\ g \in Frag
      BY <1>1, <1>3
    <3>2. f # a
      BY <1>9, <3>1
    <3> QED  BY <1>1, <1>5, <1>8, <3>1, <3>2 DEF KeptInv, FiledInv
  <2>3. rp.pc \in {"deal", "mkdir", "move", "remove"} /\ rp.f \in stored' =>
        \A g \in mine'[rp.f] : (rp.pc \in {"mkdir", "move"} /\ g \in rp.todo) \/ Filed(rp.f, g)'
    <3> SUFFICES ASSUME rp.pc \in {"deal", "mkdir", "move", "remove"}, rp.f \in stored',
                        NEW g \in mine'[rp.f]
                 PROVE  (rp.pc \in {"mkdir", "move"} /\ g \in rp.todo) \/ Filed(rp.f, g)'
      BY <1>2
    <3>1. g \in Frag
      BY <1>3
    <3>2. CASE rp.f # a
      <4>1. (rp.pc \in {"mkdir", "move"} /\ g \in rp.todo) \/ Filed(rp.f, g)
        BY <1>1, <1>3, <1>8, <3>2 DEF KeptInv, FiledInv
      <4> QED  BY <1>2, <1>5, <4>1
    <3>3. CASE rp.f = a
      <4>1. rp.pc \notin {"mkdir", "move"}
        BY <1>3, <3>3 DEF KeptInv, StoredInv
      <4>2. rp.pc = "remove" => <<rp.f, g>> \in cause
        BY <1>1, <1>8, <3>1, <3>3 DEF KeptInv, SentInv
      <4>3. <<rp.f, g>> \in cause'
        BY <1>4, <3>1, <3>3, <4>1, <4>2
      <4> QED  BY <1>2, <1>5, <4>3
    <3> QED  BY <3>2, <3>3
  <2> QED  BY <1>2, <2>1, <2>2, <2>3 DEF FiledInv
<1>13. KeptWhileAssigned'
  <2> SUFFICES ASSUME NEW f \in Fid, NEW g \in Frag, Answerable(f, g)' PROVE Answerable(f, g)
    BY <1>5, Assigned DEF KeptInv
  <2>1. \/ f \in deal' /\ \E i \in Index : comp'[f][i] = "me" /\ g \in Column[f][i]
        \/ f \in stored' /\ g \in mine'[f]
    BY DEF Answerable
  <2>2. CASE f \in deal' /\ \E i \in Index : comp'[f][i] = "me" /\ g \in Column[f][i]
    BY <1>1, <1>6, <2>2 DEF Answerable
  <2>3. CASE f \in stored' /\ g \in mine'[f] /\ f # a
    BY <1>1, <1>8, <2>3 DEF Answerable
  <2>4. CASE f = a /\ g \in mine'[f]
    BY <1>8, <2>4
  <2> QED  BY <2>1, <2>2, <2>3, <2>4
<1> QED  BY <1>10, <1>11, <1>12, <1>13 DEF KeptInv

LEMMA EnvironmentKept == ASSUME KeptInv, Environment PROVE KeptInv'
<1>1. TypeInv'
  BY EnvironmentTypes DEF KeptInv
<1> QED  BY <1>1, CreateDealKept, DealKept, StoreFileKept, OthersOrderKept, DiskLossKept
         DEF Environment

LEMMA InitKept == Init => KeptInv
<1> SUFFICES ASSUME Init PROVE KeptInv
  OBVIOUS
<1>1. /\ deal = {} /\ stored = Stored0 /\ late = {} /\ cause = {} /\ rp.pc = "off" /\ rs.pc = "off"
      /\ \A g \in Frag : order[g].st = "none"
  BY DEF Init, RpOff, RsOff, NoOrder
<1>2. \A f \in Fid, i \in Index : comp[f][i] = "free"
  BY DEF Init, Free
<1>3. \A f \in Fid : f \notin stored => mine[f] = {}
  BY DEF Init
<1>4. \A f \in Fid, g \in Frag : fil[f][g] = IF g \in mine[f] THEN "good" ELSE "none"
  BY DEF Init
<1>5. TypeInv /\ stored \subseteq Fid /\ mine \in [Fid -> SUBSET Frag]
  BY InitTypes DEF TypeInv, TypeOK
<1>6. StoredInv
  BY <1>1, <1>2, <1>3, <1>4 DEF StoredInv, Reported
<1>7. SentInv
  BY <1>1 DEF SentInv
<1>8. FiledInv
  <2>1. \A f \in stored : \A g \in mine[f] : fil[f][g] = "good"
    BY <1>4, <1>5
  <2> QED  BY <1>1, <2>1 DEF FiledInv
<1>9. KeptWhileAssigned
  <2>1. \A f \in Fid, g \in Frag : Answerable(f, g) => fil[f][g] = "good"
    BY <1>1, <1>4 DEF Answerable
  <2> QED  BY <2>1 DEF KeptWhileAssigned, Held
<1> QED  BY <1>5, <1>6, <1>7, <1>8, <1>9 DEF KeptInv

LEMMA NextKept == KeptInv /\ [Next]_vars => KeptInv'
<1> SUFFICES ASSUME KeptInv, [Next]_vars PROVE KeptInv'
  OBVIOUS
<1>1. CASE UNCHANGED vars
  <2>1. /\ TypeInv'
        /\ UNCHANGED <<deal, comp, stored, mine, order, late, rp, rs, cause, rep, fil>>
    BY <1>1, NextTypes DEF vars, chain, disk, tasks, KeptInv
  <2> QED  BY <2>1, GrowKept
<1> QED  BY <1>1, PutKept, GetKept, ReportStepKept, RestoreStepKept, EnvironmentKept, CrashKept
         DEF Next

\* A fragment that the chain holds this miner to, by a report that counts or by the
\* file's metadata, is complete in one of the two directories unless one of the
\* accidents recorded in `cause' happened to it, however uploads, RemoveAll, moves,
\* copies, late reports and crashes interleave.
THEOREM FragmentsAreKept == Spec => []KeptWhileAssigned
<1>1. KeptInv => KeptWhileAssigned
  BY DEF KeptInv
<1> QED  BY InitKept, NextKept, <1>1, PTL DEF Spec
=============================================================================
