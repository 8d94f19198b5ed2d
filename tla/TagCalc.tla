------------------------------ MODULE TagCalc -------------------------------
(***************************************************************************)
(* The tags of one stored file: CalcTag of node/calctag.go, which has the  *)
(* TEE tag every fragment of the file and reports the tags to the chain,   *)
(* and checkTag of node/chlgservice.go, which a service challenge runs at  *)
(* the same time and which recomputes a tag that is missing or unreadable  *)
(* (calcFragmentTag of node/restore.go).                                   *)
(*                                                                         *)
(* A tag file keeps the tag's index in the file and the TEE's signature.   *)
(* The TEE signs the digest list it is sent followed by the new fragment,  *)
(* so the signature of the last tag covers the whole file; reportFileTag   *)
(* sends it with the list rebuilt from the indices.  The TEE, the chain    *)
(* and the file system are external.  The TEE's public keys are left out   *)
(* of the digests, and reading all tags of the directory is one step.      *)
(***************************************************************************)
EXTENDS Naturals, Sequences, FiniteSets

CONSTANTS N,           \* fragments of the file kept by this miner, in Glob order
          SubmitTries, \* calls of CalculateReport in one reportFileTag: 3
          MaxFails,    \* bound: failures of RPCs, the TEE and the cache
          MaxCrashes,  \* bound: crashes of the miner process
          MaxChecks    \* bound: checkTag calls

ASSUME ConstantAssumption ==
  /\ {N, SubmitTries} \subseteq Nat \ {0}
  /\ {MaxFails, MaxCrashes, MaxChecks} \subseteq Nat

Frag == 1..N
Hole == 0     \* a nil entry of a digest list

VARIABLES
  tag,       \* disk: the .tag file of each fragment
  keys,      \* disk: fragments with a cache entry tag:<fid>.<fragment>
  onChain,   \* chain: the miner's fragments of the file have a Tag
  pc,        \* where CalcTag is; "off": the token is in calcTagCh
  at,        \* the fragment its current loop is at
  list,      \* the digest list to send to the TEE or to the chain
  sig,       \* the signature to send with it
  index,     \* the index of the tag being computed
  isReport,  \* isReportTag of calctag
  try,       \* attempt of reportFileTag's loop
  passes,    \* removal loops still to run
  cpc,       \* where checkTag is
  cfrag,     \* its fragment
  cindex,    \* the index calcFragmentTag counted
  again,     \* its second recomputation
  orphan,    \* writers whose open tag file has been removed
  strict,    \* external: the TEE compares the list with the signature sent along
  panicked,  \* history: CalcTag has ended in a panic
  torn,      \* history: a crash interrupted a removal loop
  fails, crashes, checks   \* bound counters

calcVars == <<pc, at, list, sig, index, isReport, try, passes>>
checkVars == <<cpc, cfrag, cindex, again>>
history == <<strict, panicked, torn, crashes, checks>>
vars == <<tag, keys, onChain, pc, at, list, sig, index, isReport, try, passes,
          cpc, cfrag, cindex, again, orphan, strict, panicked, torn, fails, crashes, checks>>

\* "short": created or cut below MinTagFileSize.  "cut": longer, not decodable.
TagState == {"none", "short", "cut", "ok"}
Digests == Seq(Frag \cup {Hole})
Tag == [st : TagState, index : Nat, sig : Digests]
NoTag == [st |-> "none", index |-> 0, sig |-> <<>>]
Partial(st) == [st |-> st, index |-> 0, sig |-> <<>>]

PcState == {"off", "scan", "tee", "write", "decide", "report", "send", "recheck",
            "height", "remove"}
CheckPc == {"off", "read", "tee", "create", "write", "drop"}

TypeOK ==
  /\ tag \in [Frag -> Tag] /\ keys \subseteq Frag /\ onChain \in BOOLEAN
  /\ pc \in PcState /\ at \in 1..(N + 1)
  /\ list \in Digests /\ sig \in Digests /\ index \in Nat
  /\ isReport \in BOOLEAN /\ try \in 1..SubmitTries /\ passes \in 1..2
  /\ cpc \in CheckPc /\ cfrag \in Frag /\ cindex \in Nat /\ again \in BOOLEAN
  /\ orphan \subseteq {"calc", "check"}
  /\ strict \in BOOLEAN /\ panicked \in BOOLEAN /\ torn \in BOOLEAN
  /\ fails \in 0..MaxFails /\ crashes \in 0..MaxCrashes /\ checks \in 0..MaxChecks

Init ==
  /\ tag = [f \in Frag |-> NoTag] /\ keys = {} /\ onChain = FALSE
  /\ pc = "off" /\ at = 1 /\ list = <<>> /\ sig = <<>> /\ index = 0
  /\ isReport = FALSE /\ try = 1 /\ passes = 1
  /\ cpc = "off" /\ cfrag = 1 /\ cindex = 0 /\ again = FALSE
  /\ orphan = {} /\ strict \in BOOLEAN /\ panicked = FALSE /\ torn = FALSE
  /\ fails = 0 /\ crashes = 0 /\ checks = 0
-----------------------------------------------------------------------------
(* The tag files of the directory. *)

\* getFragmentTags, getTagsNumber
Files == {f \in Frag : tag[f].st # "none"}

First(S) == CHOOSE f \in S : \A g \in S : f <= g
Last(S) == CHOOSE f \in S : \A g \in S : g <= f
Indexed(S, j) == {f \in S : tag[f].index = j}

\* digest[tag.Index-1] = dig, for the tags of S in order, in a list of length n.
Digest(S, n) ==
  [j \in 1..n |-> IF Indexed(S, j) = {} THEN Hole ELSE Last(Indexed(S, j))]

\* The tags of S that cannot be placed in a list of length n.
Misfits(S, n) == {f \in S : tag[f].st # "ok" \/ tag[f].index > n}

MaxIndex(S) ==
  IF S = {} THEN 0 ELSE tag[CHOOSE f \in S : \A g \in S : tag[g].index <= tag[f].index].index

\* The signature of the tag with the highest index, the first one of them.
LatestSig(S) == IF S = {} THEN <<>> ELSE tag[First(Indexed(S, MaxIndex(S)))].sig

\* os.Remove of f's tag by `who'; a writer that has the file open keeps writing
\* to a file without a name.
Writing(who, f) == IF who = "calc" THEN pc = "write" /\ at = f
                   ELSE cpc = "write" /\ cfrag = f
RemoveTag(who, f) ==
  /\ tag' = [tag EXCEPT ![f] = NoTag]
  /\ orphan' = orphan \cup ({x \in {"calc", "check"} \ {who} : Writing(x, f)})

\* WriteBufToFile creates or truncates the file ...
CreateTag(who, f) ==
  /\ tag' = [tag EXCEPT ![f] = Partial("short")]
  /\ orphan' = orphan \ {who}

\* ... and writes it: into the named file, unless that was removed meanwhile.  Two
\* writers of one file leave either content or a mixture.
FillTag(who, f, t) ==
  /\ IF who \in orphan THEN tag' = tag
     ELSE IF tag[f].st = "short" THEN tag' = [tag EXCEPT ![f] = t]
     ELSE tag' \in {[tag EXCEPT ![f] = t], [tag EXCEPT ![f] = Partial("cut")]}
  /\ orphan' = orphan \ {who}

\* One of the failures the environment may still have.
Failure == fails < MaxFails /\ fails' = fails + 1
-----------------------------------------------------------------------------
(* CalcTag. *)

Goto(l) == pc' = l /\ UNCHANGED <<at, list, sig, index, isReport, try, passes>>

\* calctag returns; its locals are dropped and the token goes back.
Return ==
  /\ pc' = "off" /\ at' = 1 /\ list' = <<>> /\ sig' = <<>> /\ index' = 0
  /\ isReport' = FALSE /\ try' = 1 /\ passes' = 1

\* calctag past its checks of the fragments.  A failed QueryFile or check returns
\* without effect.
Start ==
  /\ pc = "off" /\ Goto("scan")
  /\ UNCHANGED <<tag, keys, onChain, checkVars, orphan, history, fails>>

\* Fault variant of ScanInvalid: the undecodable tag is reported and kept.
ScanInvalidKept ==
  /\ pc = "scan" /\ at <= N
  /\ LET bad == Misfits(Files \ {at}, Cardinality(Files))
     IN  bad # {} /\ tag[First(bad)].st # "ok"
  /\ Return
  /\ UNCHANGED <<tag, orphan, keys, onChain, checkVars, history, fails>>

\* calcRequestDigest: the first other tag that does not fit cannot be decoded; it is
\* removed and calctag returns.
ScanInvalid ==
  /\ pc = "scan" /\ at <= N
  /\ LET bad == Misfits(Files \ {at}, Cardinality(Files))
     IN  bad # {} /\ tag[First(bad)].st # "ok" /\ RemoveTag("calc", First(bad))
  /\ Return
  /\ UNCHANGED <<keys, onChain, checkVars, history, fails>>

\* calcRequestDigest: its index is past the end of the list, and digest[tag.Index-1]
\* panics; CalcTag recovers and ends.
ScanPanics ==
  /\ pc = "scan" /\ at <= N
  /\ LET bad == Misfits(Files \ {at}, Cardinality(Files))
     IN  bad # {} /\ tag[First(bad)].st = "ok"
  /\ panicked' = TRUE
  /\ Return
  /\ UNCHANGED <<tag, keys, onChain, checkVars, orphan, strict, torn, crashes, checks, fails>>

\* The fragment's own tag file is there and long enough.
ScanCalced ==
  /\ pc = "scan" /\ at <= N
  /\ Misfits(Files \ {at}, Cardinality(Files)) = {}
  /\ tag[at].st \in {"cut", "ok"}
  /\ at' = at + 1
  /\ UNCHANGED <<tag, keys, onChain, pc, list, sig, index, isReport, try, passes,
                 checkVars, orphan, history, fails>>

\* Fault variant of ScanRequest: the index skips one.
ScanRequestSkipsIndex ==
  /\ pc = "scan" /\ at <= N
  /\ Misfits(Files \ {at}, Cardinality(Files)) = {}
  /\ tag[at].st \in {"none", "short"}
  /\ list' = Digest(Files \ {at}, Cardinality(Files))
  /\ sig' = LatestSig(Files \ {at})
  /\ index' = MaxIndex(Files \ {at}) + 2
  /\ RemoveTag("calc", at)
  /\ pc' = "tee" /\ UNCHANGED <<at, isReport, try, passes>>
  /\ UNCHANGED <<keys, onChain, checkVars, history, fails>>

\* The tag is to be computed; a file that is too short is removed first, after the
\* list was given a place for it.
ScanRequest ==
  /\ pc = "scan" /\ at <= N
  /\ Misfits(Files \ {at}, Cardinality(Files)) = {}
  /\ tag[at].st \in {"none", "short"}
  /\ list' = Digest(Files \ {at}, Cardinality(Files))
  /\ sig' = LatestSig(Files \ {at})
  /\ index' = MaxIndex(Files \ {at}) + 1
  /\ RemoveTag("calc", at)
  /\ pc' = "tee" /\ UNCHANGED <<at, isReport, try, passes>>
  /\ UNCHANGED <<keys, onChain, checkVars, history, fails>>

\* The TEE (external) signs the list with the fragment added; a strict one only if
\* the signature sent along covers the list.
TeeAnswers ==
  /\ pc = "tee" /\ (strict => sig = list)
  /\ sig' = Append(list, at)
  /\ CreateTag("calc", at)
  /\ pc' = "write" /\ UNCHANGED <<at, list, index, isReport, try, passes>>
  /\ UNCHANGED <<keys, onChain, checkVars, history, fails>>

\* No TEE of the list answers, or none with a well-formed tag: calctag returns.
TeeFails ==
  /\ pc = "tee"
  /\ IF strict /\ sig # list THEN UNCHANGED fails ELSE Failure
  /\ Return
  /\ UNCHANGED <<tag, orphan, keys, onChain, checkVars, history>>

WriteTag ==
  /\ pc = "write"
  /\ FillTag("calc", at, [st |-> "ok", index |-> index, sig |-> sig])
  /\ at' = at + 1 /\ isReport' = TRUE /\ pc' = "scan"
  /\ UNCHANGED <<list, sig, index, try, passes>>
  /\ UNCHANGED <<keys, onChain, checkVars, history, fails>>

ScanEnds ==
  /\ pc = "scan" /\ at > N
  /\ Goto("decide")
  /\ UNCHANGED <<tag, orphan, keys, onChain, checkVars, history, fails>>

\* Nothing was computed: the chain says whether the tags were reported.  Then every
\* fragment must have its tag file (checkAllFragmentTag).
Decide ==
  /\ pc = "decide"
  /\ \/ ~isReport /\ Failure /\ Return
     \/ UNCHANGED fails /\ IF (isReport \/ ~onChain) /\ Files = Frag
                           THEN Goto("report") ELSE Return
  /\ UNCHANGED <<tag, orphan, keys, onChain, checkVars, history>>

\* calctag's answer to an error of reportFileTag, and reportFileTag's own removal
\* before it: p loops over the tag files.
StartRemoval(p) ==
  /\ pc' = "remove" /\ at' = 1 /\ passes' = p
  /\ UNCHANGED <<list, sig, index, isReport, try>>

\* reportFileTag: a tag that has gone, cannot be decoded or has too high an index is
\* an error; in the last two cases it is removed.
ReportInvalid ==
  /\ pc = "report"
  /\ Misfits(Frag, N) # {}
  /\ RemoveTag("calc", First(Misfits(Frag, N)))
  /\ StartRemoval(1)
  /\ UNCHANGED <<keys, onChain, checkVars, history, fails>>

\* reportFileTag: digest[j].FragmentName of an entry that no tag has filled.
ReportPanics ==
  /\ pc = "report"
  /\ Misfits(Frag, N) = {}
  /\ \E j \in Frag : Digest(Frag, N)[j] = Hole
  /\ panicked' = TRUE
  /\ Return
  /\ UNCHANGED <<tag, orphan, keys, onChain, checkVars, strict, torn, crashes, checks, fails>>

Report ==
  /\ pc = "report"
  /\ Misfits(Frag, N) = {}
  /\ \A j \in Frag : Digest(Frag, N)[j] # Hole
  /\ list' = Digest(Frag, N)
  /\ sig' = tag[Last(Indexed(Frag, N))].sig
  /\ try' = 1
  /\ pc' = "send" /\ UNCHANGED <<at, index, isReport, passes>>
  /\ UNCHANGED <<tag, orphan, keys, onChain, checkVars, history, fails>>

\* CalculateReport (external chain): it takes one report, signed as a whole.  A call
\* may fail and its transaction still reach a block.
Send ==
  /\ pc = "send"
  /\ IF ~onChain /\ sig = list
     THEN \/ onChain' = TRUE /\ Goto("height") /\ UNCHANGED fails
          \/ onChain' \in BOOLEAN /\ Goto("recheck") /\ Failure
     ELSE Goto("recheck") /\ UNCHANGED <<onChain, fails>>
  /\ UNCHANGED <<tag, orphan, keys, checkVars, history>>

\* Cache.Put for every tag.  Only the error of the last Put is returned.
PutKeys(p) ==
  \/ keys' = Frag /\ UNCHANGED fails /\ Return
  \/ /\ Failure
     /\ \E S \in SUBSET Frag :
          /\ S # Frag /\ keys' = keys \cup S
          /\ IF N \in S THEN Return ELSE StartRemoval(p)

\* Fault variant of Recheck: a failed query counts as the tags being on chain.
RecheckTrustsError ==
  /\ pc = "recheck"
  /\ \/ onChain /\ PutKeys(1)
     \/ Failure /\ keys' = Frag /\ Return
     \/ /\ ~onChain /\ UNCHANGED <<keys, fails>>
        /\ IF try < SubmitTries
           THEN pc' = "send" /\ try' = try + 1
                /\ UNCHANGED <<at, list, sig, index, isReport, passes>>
           ELSE StartRemoval(2)
  /\ UNCHANGED <<tag, orphan, onChain, checkVars, history>>

\* After a failed attempt the chain is asked; after the last one all tags go.
Recheck ==
  /\ pc = "recheck"
  /\ \/ onChain /\ PutKeys(1)
     \/ /\ Failure \/ (~onChain /\ UNCHANGED fails)
        /\ IF try < SubmitTries
           THEN pc' = "send" /\ try' = try + 1
                /\ UNCHANGED <<at, list, sig, index, isReport, passes>>
           ELSE StartRemoval(2)
        /\ UNCHANGED keys
  /\ UNCHANGED <<tag, orphan, onChain, checkVars, history>>

\* Fault variant of Height: the tags are removed whenever a report was sent.
HeightRemoves ==
  /\ pc = "height"
  /\ StartRemoval(1)
  /\ UNCHANGED <<tag, orphan, onChain, checkVars, history, keys, fails>>

\* QueryBlockNumber; its error is an error of reportFileTag.
Height ==
  /\ pc = "height"
  /\ \/ PutKeys(1)
     \/ Failure /\ StartRemoval(1) /\ UNCHANGED keys
  /\ UNCHANGED <<tag, orphan, onChain, checkVars, history>>

\* One os.Remove of a removal loop.
Remove ==
  /\ pc = "remove"
  /\ RemoveTag("calc", at)
  /\ IF at < N THEN at' = at + 1 /\ UNCHANGED <<pc, list, sig, index, isReport, try, passes>>
     ELSE IF passes > 1 THEN StartRemoval(passes - 1)
     ELSE Return
  /\ UNCHANGED <<keys, onChain, checkVars, history, fails>>
-----------------------------------------------------------------------------
(* checkTag, of a service challenge over a fragment whose tag is on chain. *)

CheckReturn == cpc' = "off" /\ cfrag' = 1 /\ cindex' = 0 /\ again' = FALSE

CheckStart(f) ==
  /\ cpc = "off" /\ onChain /\ checks < MaxChecks
  /\ checks' = checks + 1
  /\ cpc' = "read" /\ cfrag' = f /\ UNCHANGED <<cindex, again>>
  /\ UNCHANGED <<tag, keys, onChain, calcVars, orphan, strict, panicked, torn, crashes,
                 fails>>

\* Fault variant of CheckRead: every tag is recomputed.
CheckReadRecomputes ==
  /\ cpc = "read"
  /\ RemoveTag("check", cfrag)
  /\ cpc' = "tee" /\ again' = TRUE /\ UNCHANGED <<cfrag, cindex>>
  /\ UNCHANGED <<keys, onChain, calcVars, history, fails>>

\* A missing tag is recomputed, an undecodable one is removed first.
CheckRead ==
  /\ cpc = "read"
  /\ CASE tag[cfrag].st = "ok" -> CheckReturn /\ UNCHANGED <<tag, orphan>>
       [] tag[cfrag].st = "none" -> /\ cpc' = "tee"
                                    /\ UNCHANGED <<cfrag, cindex, again, tag, orphan>>
       [] OTHER -> /\ RemoveTag("check", cfrag)
                   /\ cpc' = "tee" /\ again' = TRUE /\ UNCHANGED <<cfrag, cindex>>
  /\ UNCHANGED <<keys, onChain, calcVars, history, fails>>

\* calcFragmentTag: the TEE tags the fragment by itself; the index is the number of
\* tag files plus one.
CheckTee ==
  /\ cpc = "tee"
  /\ \/ Failure /\ CheckReturn
     \/ /\ cindex' = Cardinality(Files) + 1
        /\ cpc' = "create" /\ UNCHANGED <<cfrag, again, fails>>
  /\ UNCHANGED <<tag, keys, onChain, calcVars, orphan, history>>

CheckCreate ==
  /\ cpc = "create"
  /\ CreateTag("check", cfrag)
  /\ cpc' = "write" /\ UNCHANGED <<cfrag, cindex, again>>
  /\ UNCHANGED <<keys, onChain, calcVars, history, fails>>

CheckWrite ==
  /\ cpc = "write"
  /\ FillTag("check", cfrag, [st |-> "ok", index |-> cindex, sig |-> <<cfrag>>])
  /\ IF again THEN CheckReturn
     ELSE cpc' = "drop" /\ UNCHANGED <<cfrag, cindex, again>>
  /\ UNCHANGED <<keys, onChain, calcVars, history, fails>>

\* After recomputing a missing tag, checkTag decodes the empty buffer of its first
\* read, fails, removes the new file and computes it once more.
CheckDrop ==
  /\ cpc = "drop"
  /\ RemoveTag("check", cfrag)
  /\ cpc' = "tee" /\ again' = TRUE /\ UNCHANGED <<cfrag, cindex>>
  /\ UNCHANGED <<keys, onChain, calcVars, history, fails>>
-----------------------------------------------------------------------------
\* The process dies and restarts; a file being written keeps any prefix.
Crash ==
  /\ crashes < MaxCrashes /\ crashes' = crashes + 1
  /\ \E s \in {"short", "cut"} :
       tag' = [f \in Frag |->
         IF \/ Writing("calc", f) /\ "calc" \notin orphan
            \/ Writing("check", f) /\ "check" \notin orphan
         THEN Partial(s) ELSE tag[f]]
  /\ orphan' = {}
  /\ torn' = (torn \/ pc = "remove")
  /\ Return /\ CheckReturn
  /\ UNCHANGED <<keys, onChain, strict, panicked, checks, fails>>

CalcStep ==
  \/ Start \/ ScanInvalid \/ ScanPanics \/ ScanCalced \/ ScanRequest \/ ScanEnds
  \/ TeeAnswers \/ TeeFails \/ WriteTag \/ Decide
  \/ ReportInvalid \/ ReportPanics \/ Report \/ Send \/ Recheck \/ Height \/ Remove

CheckStep == CheckRead \/ CheckTee \/ CheckCreate \/ CheckWrite \/ CheckDrop

Next ==
  \/ CalcStep \/ CheckStep
  \/ \E f \in Frag : CheckStart(f)
  \/ Crash

Spec == Init /\ [][Next]_vars

\* Node.Start runs CalcTag every minute while its token is in the channel, and a
\* CalcTag that can go on does.
FairSpec == Spec /\ WF_vars(CalcStep)
-----------------------------------------------------------------------------
(* Properties. *)

\* A cached tag entry is written only for a file whose tags the chain holds, on
\* every path through the retries of reportFileTag.
KeySound == keys # {} => onChain

\* Once the chain holds the tags, they stay on disk unless a call failed or the
\* process crashed: neither the retries nor a service challenge's checkTag cost a
\* miner a tag by themselves.
TagsKept ==
  onChain /\ fails = 0 /\ crashes = 0 => \A f \in Frag : tag[f].st = "ok"

\* Until a service challenge checks a tag, calctag indexes a digest list out of range,
\* or leaves one with a hole, only after a crash in the middle of removing the tags.
PanicNeedsTornRemoval == panicked => torn \/ checks > 0

\* calcRequestDigest and reportFileTag only see indices within their list, which
\* reportFileTag checks ("invalid tag.Index: %d maxIndex: %d") and calcRequestDigest
\* takes for granted.
NoPanic == ~panicked

\* The tags of a stored file are eventually reported, and then all are on disk for
\* good, whatever fails on the way, unless a crash tears a removal or a service
\* challenge checks a tag.
Settles == <>(torn \/ checks > 0) \/ <>[](onChain /\ \A f \in Frag : tag[f].st = "ok")
-----------------------------------------------------------------------------
\* The inductive strengthening of KeySound: QueryBlockNumber is asked only about a
\* report that is in a block.
KeyInv == KeySound /\ (pc = "height" => onChain)
-----------------------------------------------------------------------------
\* The loops over the fragments stand at a fragment.
TypeInv == TypeOK /\ (pc \in {"tee", "write", "remove"} => at \in Frag)
-----------------------------------------------------------------------------
\* The inductive strengthening of TagsKept: as long as nothing fails, tags are sent
\* only when all are there, and a reported file is only looked at.
AllTagged == \A f \in Frag : tag[f].st = "ok"
TagInv ==
  /\ pc = "off" => ~isReport
  /\ fails = 0 /\ crashes = 0 =>
       /\ ~onChain => cpc = "off"
       /\ pc \in {"send", "recheck"} => AllTagged
       /\ onChain => /\ AllTagged /\ cpc \in {"off", "read"}
                     /\ pc \in {"off", "scan", "decide", "height"}
                     /\ pc \in {"scan", "decide"} => ~isReport
-----------------------------------------------------------------------------
\* The inductive strengthening of PanicNeedsTornRemoval: outside the removal loops the
\* indices of the complete tags are the numbers up to their count, and the tag that
\* is being computed gets the next one.
Tagged == {f \in Frag : tag[f].st = "ok"}
Consecutive ==
  /\ \A f \in Tagged : tag[f].index \in 1..Cardinality(Tagged)
  /\ \A j \in 1..Cardinality(Tagged) : \E f \in Tagged : tag[f].index = j
Orderly ==
  /\ ~panicked /\ cpc = "off" /\ orphan = {}
  /\ pc # "remove" => Consecutive
  /\ pc = "remove" => \A f \in Frag : f < at => tag[f].st = "none"
  /\ pc \in {"tee", "write"} => tag[at].st # "ok" /\ index = Cardinality(Tagged) + 1
  /\ pc = "write" => tag[at].st = "short"
IndexInv == torn \/ checks > 0 \/ Orderly
=============================================================================
