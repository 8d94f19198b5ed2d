---------------------------- MODULE StartupProofs ----------------------------
(***************************************************************************)
(* The properties of Startup, for any TEEs, accounts, configurations,      *)
(* failures, commands and numbers of starts.                               *)
(***************************************************************************)
EXTENDS Startup, Integers, TLAPS

(***************************************************************************)
(* Records.                                                                *)
(***************************************************************************)
\* A process past checkRegistrationInfo has all its fields.
LEMMA CheckedFacts ==
  ASSUME TypeOK, proc.pc \in Later
  PROVE  proc \in Checked
<1>1. proc \in Process
  BY DEF TypeOK
<1>2. proc # Off
  BY DEF Off, Later
<1>3. proc \notin [pc : {"boot", "tees"}, cfg : Config]
  BY DEF Later
<1>4. proc \notin [pc : {"query"}, cfg : Config, tees : SUBSET Tee]
  BY DEF Later
<1> QED  BY <1>1, <1>2, <1>3, <1>4 DEF Process

LEMMA CheckedFields ==
  ASSUME NEW p \in Checked
  PROVE  /\ p \in Process /\ p.pc \in Later /\ p.cfg \in Config /\ p.tees \subseteq Tee
         /\ p.case \in Cases /\ p.info \in Registration /\ p.key \in Nat /\ p.gen \in Nat
         /\ p.todo \subseteq Tee /\ p.tries \in Nat
  BY DEF Checked, Process

\* A step within checkMiner keeps what was configured and read.
Keeps == /\ proc \in Checked /\ proc' \in Checked /\ proc'.cfg = proc.cfg
         /\ proc'.case = proc.case /\ proc'.info = proc.info

LEMMA GotoFacts ==
  ASSUME proc \in Checked, NEW p \in Later, Goto(p)
  PROVE  Keeps /\ proc'.pc = p /\ proc'.key = proc.key /\ proc'.gen = proc.gen
  BY DEF Goto, Keeps, Checked

LEMMA ConfigFields ==
  ASSUME NEW c \in Config
  PROVE  /\ c.space \in Nat /\ c.earnings \in Account /\ c.endpoint \in Endpoint
         /\ c.assigned \in BOOLEAN /\ c.tees \subseteq Tee
  BY DEF Config

LEMMA RegistrationFields ==
  ASSUME NEW c \in Registration
  PROVE  /\ c.reg \in BOOLEAN /\ c.state \in {"positive", "exit"} /\ c.key \in Nat
         /\ c.decl \in Nat /\ c.stake \in Nat /\ c.earnings \in Account
         /\ c.endpoint \in Endpoint /\ c.gen \in Nat /\ c.by \in Payer
         /\ c.bal \in Balances
  BY DEF Registration

\* What an accepted extrinsic changes.
LEMMA EffectFacts ==
  ASSUME chain \in Registration, NEW x \in Extrinsic, Valid(x), chain' = Effect(x)
  PROVE  /\ chain' \in Registration /\ chain'.reg
         /\ x.call = "Regnstk" =>
              /\ chain'.decl = x.n * Unit /\ chain'.stake = x.n /\ chain'.key = chain.key
              /\ chain'.earnings = x.earnings /\ chain'.endpoint = x.endpoint /\ ~chain.reg
         /\ x.call # "Regnstk" => chain.reg /\ chain'.gen = chain.gen
         /\ x.call = "PoisKey" =>
              /\ chain.key = NoKey /\ chain'.key = x.n
              /\ chain'.decl = chain.decl /\ chain'.stake = chain.stake
         /\ x.call # "PoisKey" => chain'.key = chain.key
         /\ x.call = "Collateral" =>
              chain'.stake = chain.stake + x.n /\ chain'.decl = chain.decl
         /\ x.call = "Space" =>
              chain'.decl = chain.decl + x.n * Unit /\ chain'.stake = chain.stake
         /\ x.call \in {"Beneficiary", "Endpoint"} =>
              chain'.decl = chain.decl /\ chain'.stake = chain.stake
         /\ x.call = "Beneficiary" => chain'.earnings = x.earnings
         /\ x.call = "Endpoint" => chain'.endpoint = x.endpoint
         /\ x.call \notin {"Regnstk", "Beneficiary"} => chain'.earnings = chain.earnings
         /\ x.call \notin {"Regnstk", "Endpoint"} => chain'.endpoint = chain.endpoint
<1>1. /\ x.n \in Nat /\ x.by \in Payer /\ x.earnings \in Account /\ x.endpoint \in Endpoint
      /\ x.call \in {"Regnstk", "PoisKey", "Collateral", "Space", "Beneficiary", "Endpoint"}
  BY DEF Extrinsic, Payer
<1>2. Unit \in Nat /\ "sign" \in Payer
  BY ConstantsAssumption DEF Payer
<1>3. CASE x.call = "Regnstk"
  <2>1. ~chain.reg /\ x.n <= chain.bal[x.by]
    BY <1>3 DEF Valid
  <2>2. chain' = [chain EXCEPT !.reg = TRUE, !.state = "positive", !.decl = x.n * Unit,
                               !.stake = x.n, !.by = x.by, !.bal[x.by] = @ - x.n,
                               !.earnings = x.earnings, !.endpoint = x.endpoint, !.gen = @ + 1]
    BY <1>3 DEF Effect
  <2> DEFINE b == [chain.bal EXCEPT ![x.by] = @ - x.n]
  <2>3. b \in Balances
    BY <1>1, <2>1 DEF Registration, Balances
  <2>4. x.n * Unit \in Nat
    BY <1>1, <1>2
  <2>5. chain' = [chain EXCEPT !.reg = TRUE, !.state = "positive", !.decl = x.n * Unit,
                               !.stake = x.n, !.by = x.by, !.bal = b,
                               !.earnings = x.earnings, !.endpoint = x.endpoint, !.gen = @ + 1]
    BY <2>2 DEF Registration
  <2> HIDE DEF b
  <2>6. chain' \in Registration
    <3>1. chain' = [reg |-> TRUE, state |-> "positive", key |-> chain.key, decl |-> x.n * Unit,
                    stake |-> x.n, earnings |-> x.earnings, endpoint |-> x.endpoint,
                    gen |-> chain.gen + 1, by |-> x.by, bal |-> b]
      BY <2>5 DEF Registration
    <3>2. chain.key \in Nat /\ chain.gen + 1 \in Nat
      BY DEF Registration
    <3> QED  BY <1>1, <2>3, <2>4, <3>1, <3>2 DEF Registration
  <2>7. /\ chain'.reg /\ chain'.decl = x.n * Unit /\ chain'.stake = x.n
        /\ chain'.key = chain.key /\ chain'.earnings = x.earnings
        /\ chain'.endpoint = x.endpoint
    BY <2>5 DEF Registration
  <2> QED  BY <1>3, <2>1, <2>6, <2>7
<1>4. CASE x.call = "PoisKey"
  <2>1. chain.reg /\ chain.key = NoKey /\ chain' = [chain EXCEPT !.key = x.n]
    BY <1>4 DEF Valid, Effect
  <2> QED  BY <1>1, <1>4, <2>1 DEF Registration
<1>5. CASE x.call = "Collateral"
  <2>1. /\ chain.reg /\ x.n <= chain.bal["sign"]
        /\ chain' = [chain EXCEPT !.stake = @ + x.n, !.bal["sign"] = @ - x.n]
    BY <1>5 DEF Valid, Effect
  <2> DEFINE b == [chain.bal EXCEPT !["sign"] = @ - x.n]
  <2>2. b \in Balances
    BY <1>1, <1>2, <2>1 DEF Registration, Balances
  <2>3. chain' = [chain EXCEPT !.stake = @ + x.n, !.bal = b]
    BY <2>1 DEF Registration
  <2> HIDE DEF b
  <2>4. chain' \in Registration
    <3>1. chain' = [reg |-> chain.reg, state |-> chain.state, key |-> chain.key,
                    decl |-> chain.decl, stake |-> chain.stake + x.n,
                    earnings |-> chain.earnings, endpoint |-> chain.endpoint,
                    gen |-> chain.gen, by |-> chain.by, bal |-> b]
      BY <2>3 DEF Registration
    <3>2. chain.stake + x.n \in Nat
      BY <1>1 DEF Registration
    <3> QED  BY <2>2, <3>1, <3>2 DEF Registration
  <2>5. /\ chain'.reg = chain.reg /\ chain'.decl = chain.decl
        /\ chain'.stake = chain.stake + x.n /\ chain'.key = chain.key
        /\ chain'.earnings = chain.earnings /\ chain'.endpoint = chain.endpoint
        /\ chain'.gen = chain.gen
    BY <2>3 DEF Registration
  <2> QED  BY <1>5, <2>1, <2>4, <2>5
<1>6. CASE x.call = "Space"
  <2>1. chain.reg /\ chain' = [chain EXCEPT !.decl = @ + x.n * Unit]
    BY <1>6 DEF Valid, Effect
  <2>2. x.n * Unit \in Nat
    BY <1>1, <1>2
  <2> QED  BY <1>1, <1>6, <2>1, <2>2 DEF Registration
<1>7. CASE x.call = "Beneficiary"
  <2>1. chain.reg /\ chain' = [chain EXCEPT !.earnings = x.earnings]
    BY <1>7 DEF Valid, Effect
  <2> QED  BY <1>1, <1>7, <2>1 DEF Registration
<1>8. CASE x.call = "Endpoint"
  <2>1. chain.reg /\ chain' = [chain EXCEPT !.endpoint = x.endpoint]
    BY <1>8 DEF Valid, Effect
  <2> QED  BY <1>1, <1>8, <2>1 DEF Registration
<1> QED  BY <1>1, <1>3, <1>4, <1>5, <1>6, <1>7, <1>8

\* The extrinsics of a start carry its configuration.
LEMMA CallFacts ==
  ASSUME proc \in Checked, NEW n \in Nat,
         NEW c \in {"Regnstk", "PoisKey", "Collateral", "Space", "Beneficiary", "Endpoint"}
  PROVE  /\ Call(c, n) \in Extrinsic /\ Call(c, n).call = c /\ Call(c, n).n = n
         /\ Call(c, n).earnings = proc.cfg.earnings /\ Call(c, n).endpoint = proc.cfg.endpoint
<1>1. proc.cfg \in Config
  BY CheckedFields
<1>2. proc.cfg.earnings \in Account /\ proc.cfg.endpoint \in Endpoint
  BY <1>1, ConfigFields
<1> QED  BY <1>2 DEF Call, Extrinsic

(***************************************************************************)
(* Sizes.                                                                  *)
(***************************************************************************)
\* Rounding up to whole units loses nothing, and adds less than one unit.
LEMMA RoundUp ==
  ASSUME NEW s \in Nat, NEW u \in Nat \ {0}
  PROVE  /\ (s + u - 1) \div u \in Nat
         /\ s <= ((s + u - 1) \div u) * u
         /\ ((s + u - 1) \div u) * u < s + u
<1> DEFINE q == (s + u - 1) \div u
           r == (s + u - 1) % u
<1>1. /\ s + u - 1 \in Nat /\ q \in Int /\ r \in 0..(u - 1)
      /\ s + u - 1 = u * q + r
  OBVIOUS
<1>2. q \in Nat
  <2>1. SUFFICES ASSUME q < 0 PROVE FALSE
    BY <1>1
  <2>2. q <= -1
    BY <1>1, <2>1
  <2>3. u * q <= u * (-1)
    BY <1>1, <2>2
  <2> QED  BY <1>1, <2>3
<1> QED  BY <1>1, <1>2

LEMMA WholeDiv ==
  ASSUME NEW s \in Nat, NEW u \in Nat \ {0}
  PROVE  /\ s \div u \in Nat
         /\ s % u = 0 => (s \div u) * u = s
<1> DEFINE q == s \div u
<1>1. q \in Int /\ s % u \in 0..(u - 1) /\ s = u * q + (s % u)
  OBVIOUS
<1>2. q \in Nat
  <2>1. SUFFICES ASSUME q < 0 PROVE FALSE
    BY <1>1
  <2>2. q <= -1
    BY <1>1, <2>1
  <2>3. u * q <= u * (-1)
    BY <1>1, <2>2
  <2> QED  BY <1>1, <2>3
<1> QED  BY <1>1, <1>2

\* The growth a start declares brings a whole old space to its own, rounded up.
LEMMA Sizes ==
  ASSUME proc \in Checked
  PROVE  /\ Unit \in Nat /\ Unit > 0
         /\ NewTib \in Nat /\ OldTib \in Nat /\ Growth \in Nat
         /\ proc.cfg.space \in Nat /\ proc.info.decl \in Nat
         /\ NewTib * Unit = DeclaredBy(proc.cfg.space, 0)
         /\ proc.info.decl % Unit = 0 =>
              proc.info.decl + Growth * Unit = DeclaredBy(proc.cfg.space, proc.info.decl)
         /\ Growth * Unit \in Nat /\ NewTib * Unit \in Nat
<1>1. proc.cfg.space \in Nat /\ proc.info.decl \in Nat
  BY CheckedFields, ConfigFields, RegistrationFields
<1>2. Unit \in Nat \ {0}
  BY ConstantsAssumption
<1>3. NewTib \in Nat
  BY <1>1, <1>2, RoundUp DEF NewTib
<1>4. OldTib \in Nat /\ (proc.info.decl % Unit = 0 => OldTib * Unit = proc.info.decl)
  BY <1>1, <1>2, WholeDiv DEF OldTib
<1>5. Growth \in Nat
  BY <1>3, <1>4 DEF Growth
<1>6. Growth * Unit \in Nat /\ NewTib * Unit \in Nat /\ OldTib * Unit \in Nat
  BY <1>2, <1>3, <1>4, <1>5
<1>7. NewTib * Unit = DeclaredBy(proc.cfg.space, 0)
  <2> DEFINE n == NewTib * Unit
  <2>1. DeclaredBy(proc.cfg.space, 0) = IF 0 < n THEN n ELSE 0
    BY DEF DeclaredBy, NewTib
  <2>2. n \in Nat
    BY <1>6
  <2> HIDE DEF n
  <2>3. (IF 0 < n THEN n ELSE 0) = n
    BY <2>2
  <2> QED  BY <2>1, <2>3 DEF n
<1>8. OldTib * Unit + Growth * Unit
        = IF OldTib * Unit < NewTib * Unit THEN NewTib * Unit ELSE OldTib * Unit
  <2> DEFINE a == NewTib  b == OldTib  g == Growth
  <2>1. a \in Nat /\ b \in Nat /\ g = IF a > b THEN a - b ELSE 0
    BY <1>3, <1>4 DEF Growth
  <2> HIDE DEF a, b, g
  <2>2. CASE a > b
    <3>1. b * Unit + g * Unit = a * Unit /\ b * Unit < a * Unit
      BY <1>2, <2>1, <2>2
    <3> QED  BY <3>1 DEF a, b, g
  <2>3. CASE ~(a > b)
    <3>1. b * Unit + g * Unit = b * Unit /\ ~(b * Unit < a * Unit)
      BY <1>2, <2>1, <2>3
    <3> QED  BY <3>1 DEF a, b, g
  <2> QED  BY <2>2, <2>3
<1>9. proc.info.decl % Unit = 0 =>
        proc.info.decl + Growth * Unit = DeclaredBy(proc.cfg.space, proc.info.decl)
  <2>1. DeclaredBy(proc.cfg.space, proc.info.decl)
          = IF proc.info.decl < NewTib * Unit THEN NewTib * Unit ELSE proc.info.decl
    BY DEF DeclaredBy, NewTib
  <2> QED  BY <1>4, <1>8, <2>1
<1> QED  BY <1>1, <1>2, <1>3, <1>4, <1>5, <1>6, <1>7, <1>9

LEMMA InflightFacts ==
  ASSUME TypeOK
  PROVE  /\ Inflight \in Nat
         /\ proc.pc # "space" => Inflight = 0
         /\ proc.pc = "space" /\ proc.cfg.assigned => Inflight = 0
         /\ proc.pc = "space" /\ ~proc.cfg.assigned => Inflight = Growth
<1>1. CASE proc.pc = "space"
  <2>1. proc \in Checked
    BY <1>1, CheckedFacts DEF Later, Pcs
  <2> QED  BY <1>1, <2>1, Sizes DEF Inflight
<1> QED  BY <1>1 DEF Inflight

(***************************************************************************)
(* The end of a process, from wherever it is.                              *)
(***************************************************************************)
LEMMA StopFacts ==
  ASSUME TypeOK, Stop
  PROVE  /\ proc' \in Process /\ proc'.pc = "off" /\ changed' = changed
         /\ spare' = spare + Inflight /\ spare' \in Nat
         /\ lost \subseteq lost' /\ lost' \subseteq Nat
         /\ proc.pc \in {"send", "verify"} => proc.key \in lost'
         /\ kept \subseteq kept' /\ kept' \subseteq Nat
         /\ proc.pc = "clean" => ws \subseteq kept'
<1>1. proc' \in Process /\ proc'.pc = "off" /\ changed' = changed
  BY DEF Stop, Off, Process
<1>2. spare' = spare + Inflight /\ spare' \in Nat
  BY InflightFacts DEF Stop, TypeOK
<1>3. CASE proc.pc \in {"send", "verify"}
  <2>1. proc.key \in Nat
    BY <1>3, CheckedFacts, CheckedFields DEF Later, Pcs
  <2> QED  BY <1>1, <1>2, <1>3, <2>1 DEF Stop, TypeOK
<1>4. CASE proc.pc \notin {"send", "verify"}
  BY <1>1, <1>2, <1>4 DEF Stop, TypeOK
<1> QED  BY <1>3, <1>4

\* What may be left unsent when a process ends is no key.
LEMMA StopInv ==
  ASSUME IInv, Stop, UNCHANGED <<chain, nkey, commands>>, faults' \in 0..MaxFaults,
         late' \subseteq Extrinsic, \A y \in late' : y \in late \/ y.call # "PoisKey",
         ws' \subseteq ws
  PROVE  IInv'
<1> DEFINE pc == proc.pc
<1>1. TypeOK'
  BY StopFacts DEF IInv, TypeOK
<1>2. CaseInv' /\ ConfInv'
  <2>1. proc'.pc = "off"
    BY StopFacts DEF IInv
  <2> QED  BY <2>1 DEF CaseInv, ConfInv, Updating, Keying, Later
<1>3. KeyInv'
  <2>1. LateKeys'
    <3> SUFFICES ASSUME NEW y \in late', y.call = "PoisKey"
                 PROVE  y.n \in lost' \/ chain'.key # NoKey
      BY DEF LateKeys
    <3>1. y \in late
      OBVIOUS
    <3>2. y.n \in lost \/ (pc \in {"send", "verify"} /\ y.n = proc.key) \/ chain.key # NoKey
      BY <3>1 DEF IInv, KeyInv, LateKeys
    <3> QED  BY <3>2, StopFacts DEF IInv
  <2>2. proc'.pc = "off"
    BY StopFacts DEF IInv
  <2> QED  BY <2>1, <2>2 DEF IInv, KeyInv, Later, Keying, Updating, Up
<1>4. CleanInv'
  <2>1. chain.reg => ws \subseteq {chain.gen} \cup kept'
    BY StopFacts DEF IInv, CleanInv
  <2>2. proc'.pc = "off"
    BY StopFacts DEF IInv
  <2> QED  BY <2>1, <2>2 DEF CleanInv, Later, Updating, Up
<1>5. PaidOnce'
  <2>1. Inflight' = 0
    BY StopFacts DEF IInv, Inflight
  <2>2. spare' = spare + Inflight /\ spare \in Nat /\ Inflight \in Nat
    BY StopFacts, InflightFacts DEF IInv, TypeOK
  <2>3. (spare' + Inflight' + 1) = spare + Inflight + 1
    BY <2>1, <2>2
  <2> QED  BY <2>3 DEF IInv, PaidOnce
<1> QED  BY <1>1, <1>2, <1>3, <1>4, <1>5 DEF IInv

(***************************************************************************)
(* The initial states and the steps before the registration is read.       *)
(***************************************************************************)
LEMMA InitInv == Init => IInv
<1> SUFFICES ASSUME Init PROVE IInv
  OBVIOUS
<1>1. PICK reg \in BOOLEAN, decl \in Decl0, earnings \in Account, endpoint \in Endpoint :
        /\ chain = [reg |-> reg, state |-> "positive", key |-> IF reg THEN 1 ELSE NoKey,
                    decl |-> IF reg THEN decl ELSE 0,
                    stake |-> IF reg THEN (decl + Unit - 1) \div Unit ELSE 0,
                    earnings |-> earnings, endpoint |-> endpoint, gen |-> IF reg THEN 1 ELSE 0,
                    by |-> "sign", bal |-> [a \in {"sign", "stake"} |-> Balance]]
        /\ ws = IF reg THEN {1} ELSE {}
        /\ nkey = IF reg THEN 1 ELSE 0
  BY ZenonT(60) DEF Init
<1>2. /\ late = {} /\ proc = Off /\ faults = 0 /\ commands = 0
      /\ lost = {} /\ kept = {} /\ spare = 0 /\ changed = {}
  BY DEF Init
<1>3. /\ decl \in Nat /\ Unit \in Nat \ {0} /\ Balance \in Nat /\ NoKey \in Nat
      /\ MaxFaults \in Nat /\ MaxCommands \in Nat
  BY ConstantsAssumption DEF NoKey
<1> DEFINE tib == (decl + Unit - 1) \div Unit
           bal == [a \in {"sign", "stake"} |-> Balance]
<1>4. tib \in Nat /\ tib * Unit < decl + Unit
  BY <1>3, RoundUp
<1>5. bal \in Balances
  BY <1>3 DEF Balances, Payer
<1>6. chain = [reg |-> reg, state |-> "positive", key |-> IF reg THEN 1 ELSE NoKey,
               decl |-> IF reg THEN decl ELSE 0, stake |-> IF reg THEN tib ELSE 0,
               earnings |-> earnings, endpoint |-> endpoint, gen |-> IF reg THEN 1 ELSE 0,
               by |-> "sign", bal |-> bal]
  BY <1>1
<1> HIDE DEF tib, bal
<1>7. chain \in Registration
  BY <1>3, <1>4, <1>5, <1>6 DEF Registration, Payer
<1>8. proc \in Process /\ proc.pc = "off"
  BY <1>2 DEF Process, Off
<1>9. TypeOK
  BY <1>1, <1>2, <1>3, <1>7, <1>8 DEF TypeOK
<1>10. CaseInv /\ ConfInv
  BY <1>8 DEF CaseInv, ConfInv, Updating, Keying, Later
<1>11. KeyInv /\ CleanInv
  <2>1. chain.reg = reg /\ chain.key = (IF reg THEN 1 ELSE NoKey)
        /\ chain.gen = (IF reg THEN 1 ELSE 0)
    BY <1>6
  <2> QED  BY <1>1, <1>2, <1>8, <2>1
              DEF KeyInv, LateKeys, CleanInv, Updating, Keying, Up, Later
<1>12. PaidOnce
  BY <1>2, <1>3, <1>4, <1>6, <1>8 DEF PaidOnce, Inflight
<1> QED  BY <1>9, <1>10, <1>11, <1>12 DEF IInv

\* Nothing depends on a process that has not read its registration.
LEMMA EarlyInv ==
  ASSUME IInv, proc.pc \in {"off", "boot", "tees"},
         proc' \in Process, proc'.pc \in {"boot", "tees", "query"},
         UNCHANGED <<chain, late, ws, nkey, commands, history>>, faults' \in 0..MaxFaults
  PROVE  IInv'
<1>1. /\ chain' = chain /\ late' = late /\ ws' = ws /\ lost' = lost /\ kept' = kept
      /\ spare' = spare /\ changed' = changed
  BY DEF history
<1>2. TypeOK'
  BY DEF IInv, TypeOK, history
<1>3. CaseInv' /\ ConfInv'
  BY DEF CaseInv, ConfInv, Updating, Keying, Later
<1>4. KeyInv'
  <2>1. LateKeys'
    BY <1>1 DEF IInv, KeyInv, LateKeys
  <2> QED  BY <1>1, <2>1 DEF IInv, KeyInv, Later, Keying, Updating, Up
<1>5. CleanInv'
  BY <1>1 DEF IInv, CleanInv, Later, Updating, Up
<1>6. PaidOnce'
  <2>1. Inflight = 0 /\ Inflight' = 0
    BY DEF Inflight
  <2> QED  BY <1>1, <2>1 DEF IInv, PaidOnce
<1> QED  BY <1>2, <1>3, <1>4, <1>5, <1>6 DEF IInv

\* A failing call ends the process; a process that is up may end at any time.
LEMMA FaultStops ==
  ASSUME IInv, CallFails, Stop, ws' \subseteq ws, UNCHANGED <<nkey, commands>>
  PROVE  IInv'
<1>1. faults' \in 0..MaxFaults
  BY ConstantsAssumption DEF CallFails, IInv, TypeOK
<1>2. late' = late /\ chain' = chain /\ late \subseteq Extrinsic
  BY DEF CallFails, IInv, TypeOK
<1> QED  BY <1>1, <1>2, StopInv

LEMMA ConfigureInv == ASSUME IInv, Configure PROVE IInv'
<1>1. PICK in \in Input : buildConfigItems(in) \/ Parse(in)
  BY DEF Configure
<1>2. in \in [way : {"start", "run"}, space : Nat, port : Nat,
              earnings : Account \cup {NoAccount}, endpoint : Endpoint,
              assigned : BOOLEAN, tees : SUBSET Tee]
  BY ConstantsAssumption
<1>3. proc' \in Process /\ proc'.pc = "boot"
  <2>1. CASE buildConfigItems(in)
    <3>1. /\ in.earnings \in Account
          /\ proc' = [pc |-> "boot", cfg |-> [in EXCEPT !.port = StartPort(in)]]
      BY <2>1 DEF buildConfigItems, StartEarnings
    <3>2. StartPort(in) \in Nat
      BY <1>2 DEF StartPort
    <3>3. [in EXCEPT !.port = StartPort(in)] \in Config
      BY <1>2, <3>1, <3>2 DEF Config
    <3> QED  BY <3>1, <3>3 DEF Process
  <2>2. CASE Parse(in)
    <3>1. in.earnings \in Account /\ proc' = [pc |-> "boot", cfg |-> in]
      BY <2>2 DEF Parse
    <3>2. in \in Config
      BY <1>2, <3>1 DEF Config
    <3> QED  BY <3>1, <3>2 DEF Process
  <2> QED  BY <1>1, <2>1, <2>2
<1>4. /\ proc.pc = "off" /\ UNCHANGED <<chain, late, ws, nkey, commands, history>>
      /\ faults' \in 0..MaxFaults
  BY DEF Configure, IInv, TypeOK
<1> QED  BY <1>3, <1>4, EarlyInv

\* The configuration of a process that is starting.
LEMMA BootFacts ==
  ASSUME TypeOK, proc.pc \in {"boot", "tees"}
  PROVE  proc \in [pc : {"boot", "tees"}, cfg : Config]
<1>1. proc \in Process
  BY DEF TypeOK
<1>2. proc # Off
  BY DEF Off
<1>3. proc \notin Checked
  BY CheckedFields DEF Later
<1>4. proc \notin [pc : {"query"}, cfg : Config, tees : SUBSET Tee]
  OBVIOUS
<1> QED  BY <1>1, <1>2, <1>3, <1>4 DEF Process

LEMMA QueryFacts ==
  ASSUME TypeOK, proc.pc = "query"
  PROVE  proc.cfg \in Config /\ proc.tees \subseteq Tee
<1>1. proc \in Process
  BY DEF TypeOK
<1>2. proc # Off
  BY DEF Off
<1>3. proc \notin Checked
  BY CheckedFields DEF Later
<1>4. proc \notin [pc : {"boot", "tees"}, cfg : Config]
  OBVIOUS
<1>5. proc \in [pc : {"query"}, cfg : Config, tees : SUBSET Tee]
  BY <1>1, <1>2, <1>3, <1>4 DEF Process
<1> QED  BY <1>5

LEMMA InitChainClientInv == ASSUME IInv, InitChainClient PROVE IInv'
<1>1. proc.pc = "boot" /\ UNCHANGED <<ws, nkey, commands>>
  BY DEF InitChainClient
<1>2. CASE Answered /\ Goto("tees") /\ UNCHANGED history
  <2>1. proc \in [pc : {"boot", "tees"}, cfg : Config]
    BY <1>1, BootFacts DEF IInv
  <2>2. proc' \in [pc : {"boot", "tees"}, cfg : Config] /\ proc'.pc = "tees"
    BY <1>2, <2>1 DEF Goto
  <2>3. proc' \in Process
    BY <2>2 DEF Process
  <2>4. UNCHANGED <<chain, late, history>> /\ faults' \in 0..MaxFaults
    BY <1>2 DEF Answered, IInv, TypeOK
  <2> QED  BY <1>1, <2>2, <2>3, <2>4, EarlyInv
<1>3. CASE CallFails /\ Stop
  BY <1>1, <1>3, FaultStops
<1> QED  BY <1>2, <1>3 DEF InitChainClient

LEMMA checkConfiguredTeesInv == ASSUME IInv, checkConfiguredTees PROVE IInv'
<1>1. proc.pc = "tees" /\ UNCHANGED <<ws, nkey, commands>>
  BY DEF checkConfiguredTees
<1>2. PICK valid \in SUBSET proc.cfg.tees :
        /\ IF valid = proc.cfg.tees THEN Answered ELSE CallFails
        /\ IF valid = {} /\ proc.cfg.tees # {}
             THEN Stop
             ELSE proc' = [pc |-> "query", cfg |-> proc.cfg, tees |-> valid] /\ UNCHANGED history
  BY Zenon DEF checkConfiguredTees
<1>3. CASE valid = {} /\ proc.cfg.tees # {}
  BY <1>1, <1>2, <1>3, FaultStops
<1>4. CASE ~(valid = {} /\ proc.cfg.tees # {})
  <2>1. proc' = [pc |-> "query", cfg |-> proc.cfg, tees |-> valid] /\ UNCHANGED history
    BY <1>2, <1>4
  <2>2. proc \in [pc : {"boot", "tees"}, cfg : Config]
    BY <1>1, BootFacts DEF IInv
  <2>3. valid \subseteq Tee
    BY <2>2, ConfigFields
  <2>4. proc' \in Process /\ proc'.pc = "query"
    BY <2>1, <2>2, <2>3 DEF Process
  <2>5. UNCHANGED <<chain, late>> /\ faults' \in 0..MaxFaults
    BY <1>2, ConstantsAssumption DEF Answered, CallFails, IInv, TypeOK
  <2> QED  BY <1>1, <2>1, <2>4, <2>5, EarlyInv
<1> QED  BY <1>3, <1>4

LEMMA checkRegistrationInfoInv == ASSUME IInv, checkRegistrationInfo PROVE IInv'
<1>1. proc.pc = "query" /\ UNCHANGED <<ws, nkey, commands>>
  BY DEF checkRegistrationInfo
<1>2. CASE /\ Answered /\ proc' = Read(Case)
           /\ changed' = {} /\ UNCHANGED <<lost, kept, spare>>
  <2>1. chain' = chain /\ late' = late /\ faults' = faults
    BY <1>2 DEF Answered
  <2>2. /\ Case \in Cases
        /\ Case = "Unregistered" <=> ~chain.reg
        /\ Case = "Registered" <=> chain.reg /\ chain.key # NoKey
    BY DEF Case, Cases
  <2>3. /\ proc'.pc = IF Case = "Unregistered" THEN "register" ELSE "build"
        /\ proc'.case = Case /\ proc'.info = chain
    BY <1>2 DEF Read
  <2>4. proc' \in Checked
    <3>1. proc.cfg \in Config /\ proc.tees \subseteq Tee /\ chain \in Registration
      BY <1>1, QueryFacts DEF IInv, TypeOK
    <3>2. (IF Case = "Unregistered" THEN "register" ELSE "build") \in Later
      BY DEF Later, Pcs
    <3>3. proc' = [pc |-> IF Case = "Unregistered" THEN "register" ELSE "build",
                   cfg |-> proc.cfg, tees |-> proc.tees, case |-> Case, info |-> chain,
                   key |-> NoKey, todo |-> {}, tries |-> 0, st |-> "none", gen |-> 0]
      BY <1>2 DEF Read
    <3> HIDE DEF Case
    <3> QED  BY <2>2, <3>1, <3>2, <3>3 DEF Checked, NoKey
  <2>5. TypeOK'
    BY <1>1, <1>2, <2>1, <2>4, CheckedFields DEF IInv, TypeOK
  <2>6. CaseInv'
    BY <2>2, <2>3 DEF CaseInv, Updating, Keying
  <2>7. LateKeys'
    BY <1>1, <1>2, <2>1 DEF IInv, KeyInv, LateKeys
  <2>8. KeyInv'
    BY <1>2, <2>1, <2>2, <2>3, <2>7 DEF IInv, KeyInv, Later, Updating, Keying, Up
  <2>9. CleanInv'
    BY <1>1, <1>2, <2>1, <2>2, <2>3 DEF IInv, CleanInv, Later, Updating, Up
  <2>10. ConfInv'
    BY <2>1, <2>2, <2>3 DEF ConfInv, Later, Up
  <2>11. PaidOnce'
    <3>1. Inflight = 0 /\ Inflight' = 0
      BY <1>1, <2>3 DEF Inflight
    <3> QED  BY <1>2, <2>1, <3>1 DEF IInv, PaidOnce
  <2> QED  BY <2>5, <2>6, <2>8, <2>9, <2>10, <2>11 DEF IInv
<1>3. CASE Answered /\ Stop
  <2>1. /\ UNCHANGED <<chain, late, faults>> /\ faults \in 0..MaxFaults
        /\ late \subseteq Extrinsic
    BY <1>3 DEF Answered, IInv, TypeOK
  <2> QED  BY <1>1, <1>3, <2>1, StopInv
<1>4. CASE CallFails /\ Stop
  BY <1>1, <1>4, FaultStops
<1> QED  BY <1>2, <1>3, <1>4 DEF checkRegistrationInfo

LEMMA CrashInv == ASSUME IInv, Crash PROVE IInv'
  BY FaultStops DEF Crash

(***************************************************************************)
(* Steps of a process that has read its registration and sends nothing.    *)
(***************************************************************************)
\* What they leave alone, whatever their position.
Quiet == /\ Keeps
         /\ UNCHANGED <<chain, late, commands, kept, spare, changed>>
         /\ faults' \in 0..MaxFaults
         /\ lost \subseteq lost'

\* A step of this kind from a process that owes no declaration, neither
\* forgets a key on its way nor leaves the clean-up without having done it.
LEMMA QuietFacts ==
  ASSUME IInv, Quiet, lost' \subseteq Nat, nkey' \in Nat, ws' \subseteq ws,
         proc.pc # "space", proc'.pc = "space" => proc.cfg.assigned,
         proc.pc \in {"send", "verify"} =>
           \/ proc.key \in lost' \/ chain.key # NoKey
           \/ proc'.pc \in {"send", "verify"} /\ proc'.key = proc.key,
         proc.pc = "clean" => ws' = {}
  PROVE  /\ TypeOK' /\ PaidOnce' /\ LateKeys'
         /\ chain'.reg /\ proc'.pc # "clean" => ws' \subseteq {chain'.gen} \cup kept'
<1>1. TypeOK'
  BY CheckedFields DEF IInv, TypeOK, Quiet, Keeps
<1>2. PaidOnce'
  <2>1. Inflight = 0 /\ Inflight' = 0
    BY DEF Inflight, Quiet, Keeps
  <2> QED  BY <2>1 DEF IInv, PaidOnce, Quiet
<1>3. LateKeys'
  <2> SUFFICES ASSUME NEW y \in late', y.call = "PoisKey"
               PROVE  \/ y.n \in lost' \/ chain'.key # NoKey
                      \/ proc'.pc \in {"send", "verify"} /\ y.n = proc'.key
    BY DEF LateKeys
  <2>1. y.n \in lost \/ (proc.pc \in {"send", "verify"} /\ y.n = proc.key) \/ chain.key # NoKey
    BY DEF IInv, KeyInv, LateKeys, Quiet
  <2> QED  BY <2>1 DEF Quiet
<1>4. chain'.reg /\ proc'.pc # "clean" => ws' \subseteq {chain'.gen} \cup kept'
  BY DEF IInv, CleanInv, Quiet
<1> QED  BY <1>1, <1>2, <1>3, <1>4

LEMMA RemoveAndBuildInv == ASSUME IInv, RemoveAndBuild PROVE IInv'
<1>1. proc.pc = "clean" /\ UNCHANGED <<nkey, commands>>
  BY DEF RemoveAndBuild
<1>2. CASE Answered /\ ws' = {} /\ Goto("list") /\ UNCHANGED history
  <2>1. proc \in Checked /\ "list" \in Later
    BY <1>1, CheckedFacts DEF IInv, Later, Pcs
  <2>2. Quiet /\ proc'.pc = "list" /\ lost' = lost
    BY <1>1, <1>2, <2>1, GotoFacts DEF Quiet, Answered, history, IInv, TypeOK
  <2>3. /\ TypeOK' /\ PaidOnce' /\ LateKeys'
        /\ chain'.reg => ws' \subseteq {chain'.gen} \cup kept'
    BY <1>1, <1>2, <2>2, QuietFacts DEF IInv, TypeOK
  <2>4. CaseInv'
    BY <1>1, <2>2 DEF IInv, CaseInv, Updating, Keying, Quiet, Keeps
  <2>5. KeyInv'
    BY <1>1, <2>2, <2>3
       DEF IInv, CaseInv, KeyInv, Quiet, Keeps, Later, Pcs, Updating, Keying, Up
  <2>6. CleanInv' /\ ConfInv'
    BY <1>1, <2>2, <2>3
       DEF IInv, CaseInv, CleanInv, ConfInv, Quiet, Keeps, Later, Pcs, Updating, Keying, Up
  <2> QED  BY <2>3, <2>4, <2>5, <2>6 DEF IInv
<1>3. CASE CallFails /\ Stop /\ ws' \in SUBSET ws
  BY <1>1, <1>3, FaultStops
<1> QED  BY <1>2, <1>3 DEF RemoveAndBuild

LEMMA BuildInv == ASSUME IInv, Build PROVE IInv'
<1>1. proc.pc = "build" /\ UNCHANGED <<ws, nkey, commands>>
  BY DEF Build
<1>2. CASE /\ Answered /\ UNCHANGED history
           /\ Goto(IF proc.case = "Registered" THEN "expand" ELSE "list")
  <2>1. proc \in Checked /\ "list" \in Later /\ "expand" \in Later
    BY <1>1, CheckedFacts DEF IInv, Later, Pcs
  <2>2. /\ Quiet /\ proc'.pc = (IF proc.case = "Registered" THEN "expand" ELSE "list")
        /\ proc'.key = proc.key /\ proc'.gen = proc.gen /\ lost' = lost
    BY <1>1, <1>2, <2>1, GotoFacts DEF Quiet, Answered, history, IInv, TypeOK
  <2>3. /\ TypeOK' /\ PaidOnce' /\ LateKeys'
        /\ chain'.reg => ws' \subseteq {chain'.gen} \cup kept'
    BY <1>1, <1>2, <2>2, QuietFacts DEF IInv, TypeOK
  <2>4. CaseInv'
    BY <1>1, <2>2 DEF IInv, CaseInv, Updating, Keying, Quiet, Keeps
  <2>5. KeyInv'
    BY <1>1, <2>2, <2>3
       DEF IInv, CaseInv, KeyInv, Quiet, Keeps, Later, Pcs, Updating, Keying, Up
  <2>6. CleanInv' /\ ConfInv'
    BY <1>1, <2>2, <2>3
       DEF IInv, CaseInv, CleanInv, ConfInv, Quiet, Keeps, Later, Pcs, Updating, Keying, Up
  <2> QED  BY <2>3, <2>4, <2>5, <2>6 DEF IInv
<1>3. CASE CallFails /\ Stop
  BY <1>1, <1>3, FaultStops
<1> QED  BY <1>2, <1>3 DEF Build

LEMMA ListTeesInv == ASSUME IInv, ListTees PROVE IInv'
<1>1. proc.pc = "list" /\ UNCHANGED <<ws, nkey, commands>>
  BY DEF ListTees
<1>2. ASSUME NEW ok \in SUBSET Tee, Answered \/ CallFails,
             proc' = [proc EXCEPT !.pc = "ask", !.tees = ok, !.todo = ok],
             UNCHANGED history
      PROVE  IInv'
  <2>1. proc \in Checked /\ "ask" \in Later
    BY <1>1, CheckedFacts DEF IInv, Later, Pcs
  <2>2. Quiet /\ proc'.pc = "ask" /\ lost' = lost
    <3>1. Keeps /\ proc'.pc = "ask"
      BY <1>2, <2>1 DEF Keeps, Checked
    <3> QED  BY <1>1, <1>2, <3>1, ConstantsAssumption
                DEF Quiet, Answered, CallFails, history, IInv, TypeOK
  <2>3. /\ TypeOK' /\ PaidOnce' /\ LateKeys'
        /\ chain'.reg => ws' \subseteq {chain'.gen} \cup kept'
    BY <1>1, <1>2, <2>2, QuietFacts DEF IInv, TypeOK
  <2>4. CaseInv'
    BY <1>1, <2>2 DEF IInv, CaseInv, Updating, Keying, Quiet, Keeps
  <2>5. KeyInv'
    BY <1>1, <2>2, <2>3
       DEF IInv, CaseInv, KeyInv, Quiet, Keeps, Later, Pcs, Updating, Keying, Up
  <2>6. CleanInv' /\ ConfInv'
    BY <1>1, <2>2, <2>3
       DEF IInv, CaseInv, CleanInv, ConfInv, Quiet, Keeps, Later, Pcs, Updating, Keying, Up
  <2> QED  BY <2>3, <2>4, <2>5, <2>6 DEF IInv
<1>3. CASE CallFails /\ Stop
  BY <1>1, <1>3, FaultStops
<1> QED  BY <1>2, <1>3 DEF ListTees

LEMMA AskTeeInv == ASSUME IInv, AskTee PROVE IInv'
<1>1. proc.pc = "ask" /\ UNCHANGED <<ws, commands>> /\ nkey \in Nat
  BY DEF AskTee, IInv, TypeOK
<1>2. ASSUME NEW t, nkey' = nkey + 1, Answered, UNCHANGED history,
             proc' = [proc EXCEPT !.pc = "send", !.key = nkey + 1, !.tries = 3, !.todo = @ \ {t}]
      PROVE  IInv'
  <2>1. proc \in Checked /\ "send" \in Later
    BY <1>1, CheckedFacts DEF IInv, Later, Pcs
  <2>2. Quiet /\ proc'.pc = "send" /\ proc'.key # NoKey /\ lost' = lost
    <3> DEFINE k == nkey + 1
    <3>1. k \in Nat /\ k # NoKey
      BY <1>1 DEF NoKey
    <3>2. proc' = [proc EXCEPT !.pc = "send", !.key = k, !.tries = 3, !.todo = @ \ {t}]
      BY <1>2
    <3> HIDE DEF k
    <3>3. Keeps /\ proc'.pc = "send" /\ proc'.key = k
      BY <2>1, <3>1, <3>2 DEF Keeps, Checked
    <3> QED  BY <1>1, <1>2, <3>1, <3>3 DEF Quiet, Answered, history, IInv, TypeOK
  <2>3. /\ TypeOK' /\ PaidOnce' /\ LateKeys'
        /\ chain'.reg => ws' \subseteq {chain'.gen} \cup kept'
    BY <1>1, <1>2, <2>2, QuietFacts DEF IInv, TypeOK
  <2>4. CaseInv'
    BY <1>1, <2>2 DEF IInv, CaseInv, Updating, Keying, Quiet, Keeps
  <2>5. KeyInv'
    BY <1>1, <2>2, <2>3
       DEF IInv, CaseInv, KeyInv, Quiet, Keeps, Later, Pcs, Updating, Keying, Up
  <2>6. CleanInv' /\ ConfInv'
    BY <1>1, <2>2, <2>3
       DEF IInv, CaseInv, CleanInv, ConfInv, Quiet, Keeps, Later, Pcs, Updating, Keying, Up
  <2> QED  BY <2>3, <2>4, <2>5, <2>6 DEF IInv
<1>3. ASSUME NEW t, CallFails, UNCHANGED <<nkey, history>>,
             proc' = [proc EXCEPT !.todo = @ \ {t}]
      PROVE  IInv'
  <2>1. proc \in Checked /\ "ask" \in Later
    BY <1>1, CheckedFacts DEF IInv, Later, Pcs
  <2>2. Quiet /\ proc'.pc = "ask" /\ lost' = lost
    <3>1. Keeps /\ proc'.pc = "ask"
      BY <1>1, <1>3, <2>1 DEF Keeps, Checked
    <3> QED  BY <1>1, <1>3, <3>1, ConstantsAssumption
                DEF Quiet, CallFails, history, IInv, TypeOK
  <2>3. /\ TypeOK' /\ PaidOnce' /\ LateKeys'
        /\ chain'.reg => ws' \subseteq {chain'.gen} \cup kept'
    BY <1>1, <1>3, <2>2, QuietFacts DEF IInv, TypeOK
  <2>4. CaseInv'
    BY <1>1, <2>2 DEF IInv, CaseInv, Updating, Keying, Quiet, Keeps
  <2>5. KeyInv'
    BY <1>1, <2>2, <2>3
       DEF IInv, CaseInv, KeyInv, Quiet, Keeps, Later, Pcs, Updating, Keying, Up
  <2>6. CleanInv' /\ ConfInv'
    BY <1>1, <2>2, <2>3
       DEF IInv, CaseInv, CleanInv, ConfInv, Quiet, Keeps, Later, Pcs, Updating, Keying, Up
  <2> QED  BY <2>3, <2>4, <2>5, <2>6 DEF IInv
<1>4. CASE proc.todo = {} /\ Answered /\ Stop /\ UNCHANGED nkey
  <2>1. /\ UNCHANGED <<chain, late, faults>> /\ faults \in 0..MaxFaults
        /\ late \subseteq Extrinsic
    BY <1>4 DEF Answered, IInv, TypeOK
  <2> QED  BY <1>1, <1>4, <2>1, StopInv
<1> QED  BY <1>2, <1>3, <1>4, Zenon DEF AskTee

\* Settling on a key needs the chain to hold one.
LEMMA KeyedFacts ==
  ASSUME proc \in Checked, chain \in Registration, Keyed
  PROVE  /\ Keeps /\ proc'.key = proc.key /\ proc'.gen = chain.gen
         /\ proc'.pc = IF proc.case = "Unregistered" THEN "init" ELSE "expand"
<1>1. (IF proc.case = "Unregistered" THEN "init" ELSE "expand") \in Later
  BY DEF Later, Pcs
<1>2. chain.gen \in Nat
  BY RegistrationFields
<1> QED  BY <1>1, <1>2 DEF Keyed, Keeps, Checked

LEMMA VerifyPoisKeyInv == ASSUME IInv, VerifyPoisKey PROVE IInv'
<1>1. proc.pc = "verify" /\ UNCHANGED <<ws, nkey, commands>>
  BY DEF VerifyPoisKey
<1>2. proc \in Checked /\ proc.key \in Nat /\ {"send", "ask"} \subseteq Later
  BY <1>1, CheckedFacts, CheckedFields DEF IInv, Later, Pcs
<1>3. CASE chain.key # NoKey /\ Answered /\ Keyed /\ UNCHANGED history
  <2>2. /\ Quiet /\ proc'.key = proc.key /\ proc'.gen = chain.gen /\ lost' = lost
        /\ proc'.pc = IF proc.case = "Unregistered" THEN "init" ELSE "expand"
    BY <1>1, <1>2, <1>3, KeyedFacts DEF Quiet, Answered, history, IInv, TypeOK
  <2>3. /\ TypeOK' /\ PaidOnce' /\ LateKeys'
        /\ chain'.reg => ws' \subseteq {chain'.gen} \cup kept'
    BY <1>1, <1>3, <2>2, QuietFacts DEF IInv, TypeOK
  <2>4. CaseInv'
    BY <1>1, <2>2 DEF IInv, CaseInv, Updating, Keying, Quiet, Keeps
  <2>5. KeyInv'
    BY <1>1, <1>3, <2>2, <2>3
       DEF IInv, CaseInv, KeyInv, Quiet, Keeps, Later, Pcs, Updating, Keying, Up
  <2>6. CleanInv' /\ ConfInv'
    BY <1>1, <1>3, <2>2, <2>3
       DEF IInv, CaseInv, CleanInv, ConfInv, Quiet, Keeps, Later, Pcs, Updating, Keying, Up
  <2> QED  BY <2>3, <2>4, <2>5, <2>6 DEF IInv
<1>4. ASSUME Answered, UNCHANGED history, proc.tries > 1,
             proc' = [proc EXCEPT !.pc = "send", !.tries = @ - 1]
      PROVE  IInv'
  <2>2. Quiet /\ proc'.pc = "send" /\ proc'.key = proc.key /\ lost' = lost
    <3> DEFINE n == proc.tries - 1
    <3>1. n \in Nat
      BY <1>2, <1>4, CheckedFields
    <3>2. proc' = [proc EXCEPT !.pc = "send", !.tries = n]
      BY <1>4
    <3> HIDE DEF n
    <3>3. Keeps /\ proc'.pc = "send" /\ proc'.key = proc.key
      BY <1>2, <3>1, <3>2 DEF Keeps, Checked
    <3> QED  BY <1>1, <1>4, <3>3 DEF Quiet, Answered, history, IInv, TypeOK
  <2>3. /\ TypeOK' /\ PaidOnce' /\ LateKeys'
        /\ chain'.reg => ws' \subseteq {chain'.gen} \cup kept'
    BY <1>1, <1>4, <2>2, QuietFacts DEF IInv, TypeOK
  <2>4. CaseInv'
    BY <1>1, <2>2 DEF IInv, CaseInv, Updating, Keying, Quiet, Keeps
  <2>5. KeyInv'
    BY <1>1, <2>2, <2>3
       DEF IInv, CaseInv, KeyInv, Quiet, Keeps, Later, Pcs, Updating, Keying, Up
  <2>6. CleanInv' /\ ConfInv'
    BY <1>1, <2>2, <2>3
       DEF IInv, CaseInv, CleanInv, ConfInv, Quiet, Keeps, Later, Pcs, Updating, Keying, Up
  <2> QED  BY <2>3, <2>4, <2>5, <2>6 DEF IInv
<1>5. CASE (Answered \/ CallFails) /\ NextTee
  <2>2. /\ Quiet /\ proc'.pc = "ask" /\ proc'.key = proc.key
        /\ lost' = lost \cup {proc.key}
    <3>1. Keeps /\ proc'.pc = "ask" /\ proc'.key = proc.key
      BY <1>2, <1>5, GotoFacts DEF NextTee
    <3> QED  BY <1>1, <1>5, <3>1, ConstantsAssumption
                DEF Quiet, NextTee, Answered, CallFails, IInv, TypeOK
  <2>3. /\ TypeOK' /\ PaidOnce' /\ LateKeys'
        /\ chain'.reg => ws' \subseteq {chain'.gen} \cup kept'
    BY <1>1, <1>2, <1>5, <2>2, QuietFacts DEF IInv, TypeOK
  <2>4. CaseInv'
    BY <1>1, <2>2 DEF IInv, CaseInv, Updating, Keying, Quiet, Keeps
  <2>5. KeyInv'
    BY <1>1, <2>2, <2>3
       DEF IInv, CaseInv, KeyInv, Quiet, Keeps, Later, Pcs, Updating, Keying, Up
  <2>6. CleanInv' /\ ConfInv'
    BY <1>1, <2>2, <2>3
       DEF IInv, CaseInv, CleanInv, ConfInv, Quiet, Keeps, Later, Pcs, Updating, Keying, Up
  <2> QED  BY <2>3, <2>4, <2>5, <2>6 DEF IInv
<1> QED  BY <1>3, <1>4, <1>5 DEF VerifyPoisKey

\* The extrinsic of a process that ends may still land, but it is no key.
LEMMA RefusedStops ==
  ASSUME IInv, NEW x \in Extrinsic, x.call # "PoisKey", Fails(x) \/ Answered, Stop,
         UNCHANGED <<ws, nkey, commands>>
  PROVE  IInv'
<1>1. chain' = chain
  BY DEF Fails, Answered
<1>2. faults' \in 0..MaxFaults /\ late' \subseteq late \cup {x}
  BY ConstantsAssumption DEF Fails, Answered, IInv, TypeOK
<1>3. late \subseteq Extrinsic
  BY DEF IInv, TypeOK
<1> QED  BY <1>1, <1>2, <1>3, StopInv

(***************************************************************************)
(* Steps of a process that has read its registration and sends.            *)
(***************************************************************************)
\* The extrinsic is in a block: a key that was on its way is no nearer.
LEMMA SentFacts ==
  ASSUME IInv, Keeps, NEW x \in Extrinsic, Sent(x), UNCHANGED <<ws, nkey, commands, history>>,
         proc.pc = "send" => x.call = "PoisKey" /\ x.n # NoKey,
         proc.pc # "verify"
  PROVE  /\ TypeOK' /\ LateKeys' /\ late' = late
         /\ chain' = Effect(x) /\ Valid(x) /\ chain \in Registration
<1>1. /\ chain' = Effect(x) /\ Valid(x) /\ UNCHANGED <<late, faults>>
      /\ chain \in Registration
  BY DEF Sent, IInv, TypeOK
<1>2. chain' \in Registration
  BY <1>1, EffectFacts
<1>3. TypeOK'
  BY <1>1, <1>2, CheckedFields DEF IInv, TypeOK, Keeps, history
<1>4. LateKeys'
  <2> SUFFICES ASSUME NEW y \in late, y.call = "PoisKey"
               PROVE  y.n \in lost \/ chain'.key # NoKey
    BY <1>1 DEF LateKeys, history
  <2>1. CASE x.call = "PoisKey"
    <3>1. chain'.key = x.n /\ chain.key = NoKey
      BY <1>1, <2>1, EffectFacts
    <3> QED  BY <3>1 DEF IInv, KeyInv, LateKeys
  <2>2. CASE x.call # "PoisKey"
    <3>1. chain'.key = chain.key
      BY <1>1, <2>2, EffectFacts
    <3>2. y.n \in lost \/ chain.key # NoKey
      BY <2>2 DEF IInv, KeyInv, LateKeys
    <3> QED  BY <3>1, <3>2
  <2> QED  BY <2>1, <2>2
<1> QED  BY <1>1, <1>3, <1>4

LEMMA registerMinerInv == ASSUME IInv, registerMiner PROVE IInv'
<1> DEFINE x == Call("Regnstk", NewTib)
<1>1. proc.pc = "register" /\ UNCHANGED <<ws, nkey, commands>>
  BY DEF registerMiner
<1>2. proc \in Checked /\ "clean" \in Later
  BY <1>1, CheckedFacts DEF IInv, Later, Pcs
<1>3. /\ NewTib \in Nat /\ Unit \in Nat /\ Unit > 0 /\ NewTib * Unit \in Nat
      /\ NewTib * Unit = DeclaredBy(proc.cfg.space, 0)
  BY <1>2, Sizes
<1>4. /\ x \in Extrinsic /\ x.call = "Regnstk" /\ x.n = NewTib
      /\ x.earnings = proc.cfg.earnings /\ x.endpoint = proc.cfg.endpoint
  BY <1>2, <1>3, CallFacts
<1>5. (Sent(x) /\ Goto("clean") /\ UNCHANGED history) \/ (Fails(x) /\ Stop)
  BY DEF registerMiner
<1> HIDE DEF x
<1>6. CASE Sent(x) /\ Goto("clean") /\ UNCHANGED history
  <2>2. Keeps /\ proc'.pc = "clean"
    BY <1>2, <1>6, GotoFacts
  <2>3. /\ TypeOK' /\ LateKeys' /\ late' = late
        /\ chain' = Effect(x) /\ Valid(x) /\ chain \in Registration
    BY <1>1, <1>4, <1>6, <2>2, SentFacts
  <2>8. /\ chain'.reg /\ ~chain.reg /\ chain'.decl = NewTib * Unit /\ chain'.stake = NewTib
        /\ chain'.key = chain.key /\ chain'.earnings = proc.cfg.earnings
        /\ chain'.endpoint = proc.cfg.endpoint
    BY <1>4, <2>3, EffectFacts
  <2>4. CaseInv'
    BY <1>1, <2>2 DEF IInv, CaseInv, Updating, Keying, Keeps
  <2>5. KeyInv'
    BY <1>1, <1>3, <1>6, <2>2, <2>3, <2>8
       DEF IInv, CaseInv, KeyInv, Keeps, history, Later, Pcs, Updating, Keying, Up
  <2>6. CleanInv' /\ ConfInv'
    BY <1>1, <1>3, <1>6, <2>2, <2>3, <2>8
       DEF IInv, CaseInv, CleanInv, ConfInv, Keeps, history, Later, Pcs, Updating, Keying, Up
  <2>7. PaidOnce'
    <3>1. Inflight' = 0 /\ spare' = spare /\ spare \in Nat
      BY <1>6, <2>2 DEF Inflight, history, IInv, TypeOK
    <3> DEFINE a == NewTib * Unit  b == (spare + 1) * Unit
    <3>2. a \in Nat /\ b \in Nat /\ b > 0
      BY <1>3, <3>1
    <3>3. chain'.stake * Unit = a /\ chain'.decl + (spare' + Inflight' + 1) * Unit = a + b
      BY <2>8, <3>1
    <3> QED  BY <3>2, <3>3 DEF PaidOnce
  <2> QED  BY <2>3, <2>4, <2>5, <2>6, <2>7 DEF IInv
<1>7. CASE Fails(x) /\ Stop
  BY <1>1, <1>4, <1>7, RefusedStops
<1> QED  BY <1>5, <1>6, <1>7

LEMMA RegisterPoisKeyInv == ASSUME IInv, RegisterPoisKey PROVE IInv'
<1> DEFINE x == Call("PoisKey", proc.key)
<1>1. proc.pc = "send" /\ UNCHANGED <<ws, nkey, commands, history>> /\ proc.key # NoKey
  BY DEF RegisterPoisKey, IInv, KeyInv
<1>2. /\ proc \in Checked /\ proc.key \in Nat /\ "verify" \in Later
      /\ chain \in Registration
  BY <1>1, CheckedFacts, CheckedFields DEF IInv, TypeOK, Later, Pcs
<1>4. x \in Extrinsic /\ x.call = "PoisKey" /\ x.n = proc.key
  BY <1>2, CallFacts
<1>5. (Sent(x) /\ Keyed) \/ (Fails(x) /\ Goto("verify"))
  BY DEF RegisterPoisKey
<1> HIDE DEF x
<1>6. CASE Sent(x) /\ Keyed
  <2>2. /\ Keeps /\ proc'.key = proc.key /\ proc'.gen = chain.gen
        /\ proc'.pc = IF proc.case = "Unregistered" THEN "init" ELSE "expand"
    BY <1>2, <1>6, KeyedFacts
  <2>3. TypeOK' /\ LateKeys' /\ late' = late /\ chain' = Effect(x) /\ Valid(x)
    BY <1>1, <1>4, <1>6, <2>2, SentFacts
  <2>8. /\ chain'.reg /\ chain.reg /\ chain'.decl = chain.decl /\ chain'.stake = chain.stake
        /\ chain'.key = proc.key /\ chain'.earnings = chain.earnings
        /\ chain'.endpoint = chain.endpoint /\ chain'.gen = chain.gen
    BY <1>2, <1>4, <2>3, EffectFacts
  <2>4. CaseInv'
    BY <1>1, <2>2 DEF IInv, CaseInv, Updating, Keying, Keeps
  <2>5. KeyInv'
    BY <1>1, <2>2, <2>3, <2>8
       DEF IInv, CaseInv, KeyInv, Keeps, history, Later, Pcs, Updating, Keying, Up
  <2>6. CleanInv' /\ ConfInv'
    BY <1>1, <2>2, <2>3, <2>8
       DEF IInv, CaseInv, CleanInv, ConfInv, Keeps, history, Later, Pcs, Updating, Keying, Up
  <2>7. PaidOnce'
    <3>1. Inflight' = 0 /\ Inflight = 0 /\ spare' = spare
      BY <1>1, <2>2 DEF Inflight, history
    <3> QED  BY <2>8, <3>1 DEF IInv, PaidOnce
  <2> QED  BY <2>3, <2>4, <2>5, <2>6, <2>7 DEF IInv
<1>7. CASE Fails(x) /\ Goto("verify")
  <2>2. Keeps /\ proc'.pc = "verify" /\ proc'.key = proc.key /\ proc'.gen = proc.gen
    BY <1>2, <1>7, GotoFacts
  <2>3. chain' = chain /\ late' \subseteq late \cup {x} /\ faults' \in 0..MaxFaults
    BY <1>7, ConstantsAssumption DEF Fails, IInv, TypeOK
  <2>8. TypeOK'
    BY <1>1, <1>4, <2>2, <2>3, CheckedFields DEF IInv, TypeOK, Keeps, history
  <2>9. LateKeys'
    <3> SUFFICES ASSUME NEW y \in late', y.call = "PoisKey"
                 PROVE  y.n \in lost \/ y.n = proc.key \/ chain.key # NoKey
      BY <1>1, <2>2, <2>3 DEF LateKeys, history
    <3> QED  BY <1>4, <2>3 DEF IInv, KeyInv, LateKeys
  <2>10. \A y \in late' : y \in late \/ y.call # "Regnstk"
    BY <1>4, <2>3
  <2>4. CaseInv'
    BY <1>1, <2>2 DEF IInv, CaseInv, Updating, Keying, Keeps
  <2>5. KeyInv'
    BY <1>1, <2>2, <2>3, <2>9, <2>10
       DEF IInv, CaseInv, KeyInv, Keeps, history, Later, Pcs, Updating, Keying, Up
  <2>6. CleanInv' /\ ConfInv'
    BY <1>1, <2>2, <2>3, <2>9, <2>10
       DEF IInv, CaseInv, CleanInv, ConfInv, Keeps, history, Later, Pcs, Updating, Keying, Up
  <2>7. PaidOnce'
    <3>1. Inflight' = 0 /\ Inflight = 0 /\ spare' = spare
      BY <1>1, <2>2 DEF Inflight, history
    <3> QED  BY <2>3, <3>1 DEF IInv, PaidOnce
  <2> QED  BY <2>4, <2>5, <2>6, <2>7, <2>8 DEF IInv
<1> QED  BY <1>5, <1>6, <1>7

LEMMA IncreaseCollateralInv == ASSUME IInv, IncreaseCollateral PROVE IInv'
<1> DEFINE x == Call("Collateral", Growth)
<1>1. proc.pc = "expand" /\ UNCHANGED <<ws, nkey, commands>>
  BY DEF IncreaseCollateral
<1>2. proc \in Checked /\ {"earnings", "space"} \subseteq Later
  BY <1>1, CheckedFacts DEF IInv, Later, Pcs
<1>3. /\ Growth \in Nat /\ Unit \in Nat /\ Growth * Unit \in Nat
      /\ proc.cfg.space \in Nat /\ proc.info.decl \in Nat
      /\ proc.info.decl % Unit = 0 =>
           proc.info.decl + Growth * Unit = DeclaredBy(proc.cfg.space, proc.info.decl)
  BY <1>2, Sizes
<1>4. x \in Extrinsic /\ x.call = "Collateral" /\ x.n = Growth
  BY <1>2, <1>3, CallFacts
<1>5. CASE Growth = 0 /\ Answered /\ Goto("earnings") /\ UNCHANGED history
  <2>2. /\ Quiet /\ proc'.pc = "earnings" /\ lost' = lost
        /\ proc'.key = proc.key /\ proc'.gen = proc.gen
    BY <1>1, <1>2, <1>5, GotoFacts DEF Quiet, Answered, history, IInv, TypeOK
  <2>3. /\ TypeOK' /\ PaidOnce' /\ LateKeys'
        /\ chain'.reg => ws' \subseteq {chain'.gen} \cup kept'
    BY <1>1, <1>5, <2>2, QuietFacts DEF IInv, TypeOK
  <2>7. proc.info.decl % Unit = 0 =>
          proc.info.decl = DeclaredBy(proc.cfg.space, proc.info.decl)
    BY <1>3, <1>5
  <2>4. CaseInv'
    BY <1>1, <2>2 DEF IInv, CaseInv, Updating, Keying, Quiet, Keeps
  <2>5. KeyInv'
    BY <1>1, <2>2, <2>3, <2>7
       DEF IInv, CaseInv, KeyInv, Quiet, Keeps, Later, Pcs, Updating, Keying, Up
  <2>6. CleanInv' /\ ConfInv'
    BY <1>1, <2>2, <2>3, <2>7
       DEF IInv, CaseInv, CleanInv, ConfInv, Quiet, Keeps, Later, Pcs, Updating, Keying, Up
  <2> QED  BY <2>3, <2>4, <2>5, <2>6 DEF IInv
<1>6. CASE proc.cfg.assigned /\ Answered /\ Goto("space") /\ UNCHANGED history
  <2>2. /\ Quiet /\ proc'.pc = "space" /\ lost' = lost
        /\ proc'.key = proc.key /\ proc'.gen = proc.gen
    BY <1>1, <1>2, <1>6, GotoFacts DEF Quiet, Answered, history, IInv, TypeOK
  <2>3. /\ TypeOK' /\ PaidOnce' /\ LateKeys'
        /\ chain'.reg => ws' \subseteq {chain'.gen} \cup kept'
    BY <1>1, <1>6, <2>2, QuietFacts DEF IInv, TypeOK
  <2>4. CaseInv'
    BY <1>1, <2>2 DEF IInv, CaseInv, Updating, Keying, Quiet, Keeps
  <2>5. KeyInv'
    BY <1>1, <2>2, <2>3
       DEF IInv, CaseInv, KeyInv, Quiet, Keeps, Later, Pcs, Updating, Keying, Up
  <2>6. CleanInv' /\ ConfInv'
    BY <1>1, <2>2, <2>3
       DEF IInv, CaseInv, CleanInv, ConfInv, Quiet, Keeps, Later, Pcs, Updating, Keying, Up
  <2> QED  BY <2>3, <2>4, <2>5, <2>6 DEF IInv
<1>7. CASE Answered /\ Stop
  BY <1>1, <1>4, <1>7, RefusedStops
<1>8. CASE ~proc.cfg.assigned /\ Sent(x) /\ Goto("space") /\ UNCHANGED history
  <2>2. Keeps /\ proc'.pc = "space" /\ proc'.key = proc.key /\ proc'.gen = proc.gen
    BY <1>2, <1>8, GotoFacts
  <2> HIDE DEF x
  <2>3. /\ TypeOK' /\ LateKeys' /\ late' = late
        /\ chain' = Effect(x) /\ Valid(x) /\ chain \in Registration
    BY <1>1, <1>4, <1>8, <2>2, SentFacts
  <2>8. /\ chain'.reg /\ chain.reg /\ chain'.key = chain.key /\ chain'.gen = chain.gen
        /\ chain'.stake = chain.stake + Growth /\ chain'.decl = chain.decl
        /\ chain'.earnings = chain.earnings /\ chain'.endpoint = chain.endpoint
    BY <1>4, <2>3, EffectFacts
  <2>4. CaseInv'
    BY <1>1, <2>2 DEF IInv, CaseInv, Updating, Keying, Keeps
  <2>5. KeyInv'
    BY <1>1, <1>8, <2>2, <2>3, <2>8
       DEF IInv, CaseInv, KeyInv, Keeps, history, Later, Pcs, Updating, Keying, Up
  <2>6. CleanInv' /\ ConfInv'
    BY <1>1, <1>8, <2>2, <2>3, <2>8
       DEF IInv, CaseInv, CleanInv, ConfInv, Keeps, history, Later, Pcs, Updating, Keying, Up
  <2>7. PaidOnce'
    <3>1. Growth' = Growth
      BY <2>2 DEF Keeps, Growth, NewTib, OldTib
    <3>2. Inflight' = Growth /\ Inflight = 0 /\ spare' = spare /\ spare \in Nat
      BY <1>1, <1>8, <2>2, <3>1 DEF Inflight, Keeps, history, IInv, TypeOK
    <3>3. chain.stake \in Nat /\ chain.decl \in Nat
      BY <2>3, RegistrationFields
    <3>4. chain.stake * Unit < chain.decl + (spare + 0 + 1) * Unit
      BY <3>2 DEF IInv, PaidOnce
    <3> DEFINE g == Growth  s == chain.stake  d == chain.decl
    <3>5. g \in Nat /\ s \in Nat /\ d \in Nat /\ s * Unit < d + (spare + 0 + 1) * Unit
      BY <1>3, <3>3, <3>4
    <3> HIDE DEF g, s, d
    <3>6. (s + g) * Unit < d + (spare + g + 1) * Unit
      BY <1>3, <3>2, <3>5
    <3> QED  BY <2>8, <3>2, <3>6 DEF PaidOnce, g, s, d
  <2> QED  BY <2>3, <2>4, <2>5, <2>6, <2>7 DEF IInv
<1>9. CASE Fails(x) /\ Stop
  BY <1>1, <1>4, <1>9, RefusedStops
<1> QED  BY <1>5, <1>6, <1>7, <1>8, <1>9 DEF IncreaseCollateral

LEMMA IncreaseDeclarationSpaceInv == ASSUME IInv, IncreaseDeclarationSpace PROVE IInv'
<1> DEFINE x == Call("Space", Growth)
<1>1. proc.pc = "space" /\ UNCHANGED <<ws, nkey, commands>>
  BY DEF IncreaseDeclarationSpace
<1>2. proc \in Checked /\ {"earnings"} \subseteq Later
  BY <1>1, CheckedFacts DEF IInv, Later, Pcs
<1>3. /\ Growth \in Nat /\ Unit \in Nat /\ Growth * Unit \in Nat
      /\ proc.info.decl % Unit = 0 =>
           proc.info.decl + Growth * Unit = DeclaredBy(proc.cfg.space, proc.info.decl)
  BY <1>2, Sizes
<1>4. x \in Extrinsic /\ x.call = "Space" /\ x.n = Growth
  BY <1>2, <1>3, CallFacts
<1>5. (Sent(x) /\ Goto("earnings") /\ UNCHANGED history) \/ (Fails(x) /\ Stop)
  BY DEF IncreaseDeclarationSpace
<1> HIDE DEF x
<1>6. CASE Sent(x) /\ Goto("earnings") /\ UNCHANGED history
  <2>2. Keeps /\ proc'.pc = "earnings" /\ proc'.key = proc.key /\ proc'.gen = proc.gen
    BY <1>2, <1>6, GotoFacts
  <2>3. /\ TypeOK' /\ LateKeys' /\ late' = late
        /\ chain' = Effect(x) /\ Valid(x) /\ chain \in Registration
    BY <1>1, <1>4, <1>6, <2>2, SentFacts
  <2>8. /\ chain'.reg /\ chain.reg /\ chain'.key = chain.key /\ chain'.gen = chain.gen
        /\ chain'.stake = chain.stake /\ chain'.decl = chain.decl + Growth * Unit
        /\ chain'.earnings = chain.earnings /\ chain'.endpoint = chain.endpoint
    BY <1>4, <2>3, EffectFacts
  <2>4. CaseInv'
    BY <1>1, <2>2 DEF IInv, CaseInv, Updating, Keying, Keeps
  <2>5. KeyInv'
    BY <1>1, <1>3, <1>6, <2>2, <2>3, <2>8
       DEF IInv, CaseInv, KeyInv, Keeps, history, Later, Pcs, Updating, Keying, Up
  <2>6. CleanInv' /\ ConfInv'
    BY <1>1, <1>3, <1>6, <2>2, <2>3, <2>8
       DEF IInv, CaseInv, CleanInv, ConfInv, Keeps, history, Later, Pcs, Updating, Keying, Up
  <2>7. PaidOnce'
    <3>1. Inflight' = 0 /\ (Inflight = 0 \/ Inflight = Growth) /\ spare' = spare /\ spare \in Nat
      BY <1>1, <1>6, <2>2, InflightFacts DEF Inflight, Keeps, history, IInv, TypeOK
    <3>2. chain.stake \in Nat /\ chain.decl \in Nat
      BY <2>3, RegistrationFields
    <3>3. chain.stake * Unit < chain.decl + (spare + Inflight + 1) * Unit
      BY DEF IInv, PaidOnce
    <3> DEFINE g == Growth  s == chain.stake  d == chain.decl  i == Inflight
    <3>4. /\ g \in Nat /\ s \in Nat /\ d \in Nat /\ (i = 0 \/ i = g)
          /\ s * Unit < d + (spare + i + 1) * Unit
      BY <1>3, <3>1, <3>2, <3>3
    <3> HIDE DEF g, s, d, i
    <3>5. (spare + i + 1) * Unit <= g * Unit + (spare + 1) * Unit
      BY <1>3, <3>1, <3>4
    <3>6. s * Unit < d + g * Unit + (spare + 0 + 1) * Unit
      BY <1>3, <3>1, <3>4, <3>5
    <3> QED  BY <2>8, <3>1, <3>6 DEF PaidOnce, g, s, d
  <2> QED  BY <2>3, <2>4, <2>5, <2>6, <2>7 DEF IInv
<1>7. CASE Fails(x) /\ Stop
  BY <1>1, <1>4, <1>7, RefusedStops
<1> QED  BY <1>5, <1>6, <1>7

LEMMA UpdateBeneficiaryInv == ASSUME IInv, UpdateBeneficiary PROVE IInv'
<1> DEFINE x == Call("Beneficiary", 0)
<1>1. proc.pc = "earnings" /\ UNCHANGED <<ws, nkey, commands>>
  BY DEF UpdateBeneficiary
<1>2. proc \in Checked /\ {"endpoint"} \subseteq Later
  BY <1>1, CheckedFacts DEF IInv, Later, Pcs
<1>3. /\ x \in Extrinsic /\ x.call = "Beneficiary" /\ x.earnings = proc.cfg.earnings
  BY <1>2, CallFacts
<1>4. CASE /\ proc.cfg.earnings = proc.info.earnings
           /\ Answered /\ Goto("endpoint") /\ UNCHANGED history
  <2>2. /\ Quiet /\ proc'.pc = ("endpoint") /\ lost' = lost
        /\ proc'.key = proc.key /\ proc'.gen = proc.gen
    BY <1>1, <1>2, <1>4, GotoFacts DEF Quiet, Answered, history, IInv, TypeOK
  <2>3. /\ TypeOK' /\ PaidOnce' /\ LateKeys'
        /\ chain'.reg => ws' \subseteq {chain'.gen} \cup kept'
    BY <1>1, <1>4, <2>2, QuietFacts DEF IInv, TypeOK
  <2>4. CaseInv'
    BY <1>1, <2>2 DEF IInv, CaseInv, Updating, Keying, Quiet, Keeps
  <2>5. KeyInv'
    BY <1>1, <1>4, <2>2, <2>3
       DEF IInv, CaseInv, KeyInv, Quiet, Keeps, Later, Pcs, Updating, Keying, Up
  <2>6. CleanInv' /\ ConfInv'
    BY <1>1, <1>4, <2>2, <2>3
       DEF IInv, CaseInv, CleanInv, ConfInv, Quiet, Keeps, Later, Pcs, Updating, Keying, Up
  <2> QED  BY <2>3, <2>4, <2>5, <2>6 DEF IInv
<1>5. CASE Sent(x) /\ Goto("endpoint") /\ UNCHANGED history
  <2>2. /\ Keeps /\ proc'.pc = ("endpoint")
        /\ proc'.key = proc.key /\ proc'.gen = proc.gen
    BY <1>2, <1>5, GotoFacts
  <2> HIDE DEF x
  <2>3. /\ TypeOK' /\ LateKeys' /\ late' = late
        /\ chain' = Effect(x) /\ Valid(x) /\ chain \in Registration
    BY <1>1, <1>3, <1>5, <2>2, SentFacts
  <2>8. /\ chain'.reg /\ chain.reg /\ chain'.key = chain.key /\ chain'.gen = chain.gen
        /\ chain'.stake = chain.stake /\ chain'.decl = chain.decl
        /\ chain'.earnings = proc.cfg.earnings /\ chain'.endpoint = chain.endpoint
    BY <1>3, <2>3, EffectFacts
  <2>4. CaseInv'
    BY <1>1, <2>2 DEF IInv, CaseInv, Updating, Keying, Keeps
  <2>5. KeyInv'
    BY <1>1, <1>5, <2>2, <2>3, <2>8
       DEF IInv, CaseInv, KeyInv, Keeps, history, Later, Pcs, Updating, Keying, Up
  <2>6. CleanInv' /\ ConfInv'
    BY <1>1, <1>5, <2>2, <2>3, <2>8
       DEF IInv, CaseInv, CleanInv, ConfInv, Keeps, history, Later, Pcs, Updating, Keying, Up
  <2>7. PaidOnce'
    <3>1. Inflight' = 0 /\ Inflight = 0 /\ spare' = spare
      BY <1>1, <1>5, <2>2 DEF Inflight, history
    <3> QED  BY <2>8, <3>1 DEF IInv, PaidOnce
  <2> QED  BY <2>3, <2>4, <2>5, <2>6, <2>7 DEF IInv
<1>6. CASE Fails(x) /\ Stop
  BY <1>1, <1>3, <1>6, RefusedStops
<1> QED  BY <1>4, <1>5, <1>6 DEF UpdateBeneficiary

LEMMA UpdateSminerEndpointInv == ASSUME IInv, UpdateSminerEndpoint PROVE IInv'
<1> DEFINE x == Call("Endpoint", 0)
<1>1. proc.pc = "endpoint" /\ UNCHANGED <<ws, nkey, commands>>
  BY DEF UpdateSminerEndpoint
<1>2. proc \in Checked /\ {"podr2", "init"} \subseteq Later
  BY <1>1, CheckedFacts DEF IInv, Later, Pcs
<1>3. /\ x \in Extrinsic /\ x.call = "Endpoint" /\ x.endpoint = proc.cfg.endpoint
  BY <1>2, CallFacts
<1>4. CASE /\ proc.cfg.endpoint = proc.info.endpoint
           /\ Answered /\ Updated /\ UNCHANGED history
  <2>2. /\ Quiet /\ proc'.pc = (IF proc.case = "Registered" THEN "podr2" ELSE "init") /\ lost' = lost
        /\ proc'.key = proc.key /\ proc'.gen = proc.gen
    BY <1>1, <1>2, <1>4, GotoFacts DEF Quiet, Answered, history, IInv, TypeOK, Updated
  <2>3. /\ TypeOK' /\ PaidOnce' /\ LateKeys'
        /\ chain'.reg => ws' \subseteq {chain'.gen} \cup kept'
    BY <1>1, <1>4, <2>2, QuietFacts DEF IInv, TypeOK
  <2>4. CaseInv'
    BY <1>1, <2>2 DEF IInv, CaseInv, Updating, Keying, Quiet, Keeps
  <2>5. KeyInv'
    BY <1>1, <1>4, <2>2, <2>3
       DEF IInv, CaseInv, KeyInv, Quiet, Keeps, Later, Pcs, Updating, Keying, Up
  <2>6. CleanInv' /\ ConfInv'
    BY <1>1, <1>4, <2>2, <2>3
       DEF IInv, CaseInv, CleanInv, ConfInv, Quiet, Keeps, Later, Pcs, Updating, Keying, Up
  <2> QED  BY <2>3, <2>4, <2>5, <2>6 DEF IInv
<1>5. CASE Sent(x) /\ Updated /\ UNCHANGED history
  <2>2. /\ Keeps /\ proc'.pc = (IF proc.case = "Registered" THEN "podr2" ELSE "init")
        /\ proc'.key = proc.key /\ proc'.gen = proc.gen
    BY <1>2, <1>5, GotoFacts DEF Updated
  <2> HIDE DEF x
  <2>3. /\ TypeOK' /\ LateKeys' /\ late' = late
        /\ chain' = Effect(x) /\ Valid(x) /\ chain \in Registration
    BY <1>1, <1>3, <1>5, <2>2, SentFacts
  <2>8. /\ chain'.reg /\ chain.reg /\ chain'.key = chain.key /\ chain'.gen = chain.gen
        /\ chain'.stake = chain.stake /\ chain'.decl = chain.decl
        /\ chain'.endpoint = proc.cfg.endpoint /\ chain'.earnings = chain.earnings
    BY <1>3, <2>3, EffectFacts
  <2>4. CaseInv'
    BY <1>1, <2>2 DEF IInv, CaseInv, Updating, Keying, Keeps
  <2>5. KeyInv'
    BY <1>1, <1>5, <2>2, <2>3, <2>8
       DEF IInv, CaseInv, KeyInv, Keeps, history, Later, Pcs, Updating, Keying, Up
  <2>6. CleanInv' /\ ConfInv'
    BY <1>1, <1>5, <2>2, <2>3, <2>8
       DEF IInv, CaseInv, CleanInv, ConfInv, Keeps, history, Later, Pcs, Updating, Keying, Up
  <2>7. PaidOnce'
    <3>1. Inflight' = 0 /\ Inflight = 0 /\ spare' = spare
      BY <1>1, <1>5, <2>2 DEF Inflight, history
    <3> QED  BY <2>8, <3>1 DEF IInv, PaidOnce
  <2> QED  BY <2>3, <2>4, <2>5, <2>6, <2>7 DEF IInv
<1>6. CASE Fails(x) /\ Stop
  BY <1>1, <1>3, <1>6, RefusedStops
<1> QED  BY <1>4, <1>5, <1>6 DEF UpdateSminerEndpoint

LEMMA queryPodr2KeyFromTeeInv == ASSUME IInv, queryPodr2KeyFromTee PROVE IInv'
<1>1. proc.pc = "podr2" /\ UNCHANGED <<ws, nkey, commands>>
  BY DEF queryPodr2KeyFromTee
<1>2. ASSUME NEW t \in Tee, Answered, UNCHANGED history,
             proc' = [proc EXCEPT !.pc = "init", !.key = proc.info.key, !.gen = proc.info.gen,
                                  !.tees = @ \cup {t}]
      PROVE  IInv'
  <2>1. proc \in Checked /\ "init" \in Later /\ proc.info.key \in Nat /\ proc.info.gen \in Nat
    BY <1>1, CheckedFacts, CheckedFields, RegistrationFields DEF IInv, Later, Pcs
  <2>2. /\ Quiet /\ proc'.pc = "init" /\ lost' = lost
        /\ proc'.key = proc.info.key /\ proc'.gen = proc.info.gen
    <3>1. /\ Keeps /\ proc'.pc = "init"
          /\ proc'.key = proc.info.key /\ proc'.gen = proc.info.gen
      BY <1>2, <2>1 DEF Keeps, Checked
    <3> QED  BY <1>1, <1>2, <3>1 DEF Quiet, Answered, history, IInv, TypeOK
  <2>3. /\ TypeOK' /\ PaidOnce' /\ LateKeys'
        /\ chain'.reg => ws' \subseteq {chain'.gen} \cup kept'
    BY <1>1, <1>2, <2>2, QuietFacts DEF IInv, TypeOK
  <2>4. CaseInv'
    BY <1>1, <2>2 DEF IInv, CaseInv, Updating, Keying, Quiet, Keeps
  <2>5. KeyInv'
    BY <1>1, <2>2, <2>3
       DEF IInv, CaseInv, KeyInv, Quiet, Keeps, Later, Pcs, Updating, Keying, Up
  <2>6. CleanInv' /\ ConfInv'
    BY <1>1, <2>2, <2>3
       DEF IInv, CaseInv, CleanInv, ConfInv, Quiet, Keeps, Later, Pcs, Updating, Keying, Up
  <2> QED  BY <2>3, <2>4, <2>5, <2>6 DEF IInv
<1>3. CASE CallFails /\ Stop
  BY <1>1, <1>3, FaultStops
<1> QED  BY <1>2, <1>3, Zenon DEF queryPodr2KeyFromTee

LEMMA InitNodeInv == ASSUME IInv, InitNode PROVE IInv'
<1>1. proc.pc = "init" /\ UNCHANGED <<ws, nkey, commands>>
  BY DEF InitNode
<1>2. ASSUME Answered, UNCHANGED history,
             proc' = [proc EXCEPT !.pc = "ready",
                                  !.st = IF proc.case = "Unregistered" THEN @ ELSE proc.info.state]
      PROVE  IInv'
  <2>1. proc \in Checked /\ "ready" \in Later /\ proc.info.state \in {"positive", "exit"}
    BY <1>1, CheckedFacts, CheckedFields, RegistrationFields DEF IInv, Later, Pcs
  <2>2. /\ Quiet /\ proc'.pc = "ready" /\ lost' = lost
        /\ proc'.key = proc.key /\ proc'.gen = proc.gen
    <3> DEFINE st == IF proc.case = "Unregistered" THEN proc.st ELSE proc.info.state
    <3>1. st \in {"none", "positive", "exit"}
      BY <2>1 DEF Checked
    <3>2. proc' = [proc EXCEPT !.pc = "ready", !.st = st]
      BY <1>2
    <3> HIDE DEF st
    <3>3. Keeps /\ proc'.pc = "ready" /\ proc'.key = proc.key /\ proc'.gen = proc.gen
      BY <2>1, <3>1, <3>2 DEF Keeps, Checked
    <3> QED  BY <1>1, <1>2, <3>3 DEF Quiet, Answered, history, IInv, TypeOK
  <2>3. /\ TypeOK' /\ PaidOnce' /\ LateKeys'
        /\ chain'.reg => ws' \subseteq {chain'.gen} \cup kept'
    BY <1>1, <1>2, <2>2, QuietFacts DEF IInv, TypeOK
  <2>4. CaseInv'
    BY <1>1, <2>2 DEF IInv, CaseInv, Updating, Keying, Quiet, Keeps
  <2>5. KeyInv'
    BY <1>1, <2>2, <2>3
       DEF IInv, CaseInv, KeyInv, Quiet, Keeps, Later, Pcs, Updating, Keying, Up
  <2>6. CleanInv' /\ ConfInv'
    BY <1>1, <2>2, <2>3
       DEF IInv, CaseInv, CleanInv, ConfInv, Quiet, Keeps, Later, Pcs, Updating, Keying, Up
  <2> QED  BY <2>3, <2>4, <2>5, <2>6 DEF IInv
<1>3. CASE CallFails /\ Stop
  BY <1>1, <1>3, FaultStops
<1> QED  BY <1>2, <1>3 DEF InitNode

(***************************************************************************)
(* The running process.                                                    *)
(***************************************************************************)
LEMMA syncMinerStatusInv == ASSUME IInv, syncMinerStatus PROVE IInv'
<1>1. /\ proc.pc = "ready"
      /\ UNCHANGED <<chain, late, ws, nkey, faults, commands, history>>
  BY DEF syncMinerStatus
<1>2. proc \in Checked /\ chain.state \in {"positive", "exit"}
  BY <1>1, CheckedFacts, RegistrationFields DEF IInv, TypeOK, Later, Pcs
<1>3. /\ Quiet /\ proc'.pc = "ready" /\ lost' = lost
      /\ proc'.key = proc.key /\ proc'.gen = proc.gen
  <2> DEFINE st == IF chain.reg THEN chain.state ELSE "exit"
  <2>1. st \in {"none", "positive", "exit"} /\ proc' = [proc EXCEPT !.st = st]
    BY <1>2 DEF syncMinerStatus
  <2> HIDE DEF st
  <2>2. Keeps /\ proc'.pc = "ready" /\ proc'.key = proc.key /\ proc'.gen = proc.gen
    BY <1>1, <1>2, <2>1 DEF Keeps, Checked
  <2> QED  BY <1>1, <2>2 DEF Quiet, history, IInv, TypeOK
<1>4. /\ TypeOK' /\ PaidOnce' /\ LateKeys'
      /\ chain'.reg => ws' \subseteq {chain'.gen} \cup kept'
  BY <1>1, <1>3, QuietFacts DEF IInv, TypeOK
<1>5. CaseInv'
  BY <1>1, <1>3 DEF IInv, CaseInv, Updating, Keying, Quiet, Keeps
<1>6. KeyInv'
  BY <1>1, <1>3, <1>4
     DEF IInv, CaseInv, KeyInv, Quiet, Keeps, Later, Pcs, Updating, Keying, Up
<1>7. CleanInv' /\ ConfInv'
  BY <1>1, <1>3, <1>4
     DEF IInv, CaseInv, CleanInv, ConfInv, Quiet, Keeps, Later, Pcs, Updating, Keying, Up
<1> QED  BY <1>4, <1>5, <1>6, <1>7 DEF IInv

\* The files stored are those of the registration the process works for.
LEMMA StoreFilesInv == ASSUME IInv, StoreFiles PROVE IInv'
<1>1. /\ proc.pc = "ready" /\ ws' = ws \cup {proc.gen}
      /\ UNCHANGED <<chain, late, proc, nkey, faults, commands, lost, kept, spare, changed>>
  BY DEF StoreFiles, history
<1>2. proc \in Checked /\ proc.gen \in Nat /\ proc.case \in Cases
  BY <1>1, CheckedFacts, CheckedFields DEF IInv, Later, Pcs
<1>3. TypeOK'
  BY <1>1, <1>2 DEF IInv, TypeOK
<1>4. CaseInv' /\ ConfInv'
  BY <1>1 DEF IInv, CaseInv, ConfInv
<1>5. KeyInv' /\ PaidOnce'
  <2>1. LateKeys'
    BY <1>1 DEF IInv, KeyInv, LateKeys
  <2>2. PaidOnce'
    BY <1>1 DEF IInv, PaidOnce, Inflight, Growth, NewTib, OldTib
  <2> QED  BY <1>1, <2>1, <2>2 DEF IInv, KeyInv
<1>6. CleanInv'
  <2>1. chain.reg => proc.gen = chain.gen
    BY <1>1, <1>2 DEF IInv, CleanInv, Updating, Up, Later, Pcs, Cases
  <2> QED  BY <1>1, <2>1 DEF IInv, CleanInv
<1> QED  BY <1>3, <1>4, <1>5, <1>6 DEF IInv

(***************************************************************************)
(* The chain changes under the process: a late extrinsic or a command.     *)
(***************************************************************************)
\* What is on its way is a key that was given up or is being registered, a
\* registration that no process past its own has to fear, or a change.
LEMMA LateExtrinsicInv == ASSUME IInv, LateExtrinsic PROVE IInv'
<1>1. PICK x \in late :
        /\ late' = late \ {x}
        /\ IF ~Valid(x) THEN UNCHANGED <<chain, history>>
           ELSE /\ chain' = Effect(x)
                /\ changed' = changed \cup {"late"}
                /\ spare' = IF x.call = "Collateral" THEN spare + x.n ELSE spare
                /\ kept' = IF x.call = "Regnstk" THEN kept \cup ws ELSE kept
                /\ UNCHANGED lost
  BY Zenon DEF LateExtrinsic
<1>2. UNCHANGED <<proc, ws, nkey, faults, commands>>
  BY DEF LateExtrinsic
<1>3. /\ x \in Extrinsic /\ x.n \in Nat /\ chain \in Registration /\ spare \in Nat
      /\ Unit \in Nat \ {0} /\ Inflight \in Nat /\ Inflight' = Inflight
  BY <1>2, ConstantsAssumption, InflightFacts
     DEF IInv, TypeOK, Extrinsic, Inflight, Growth, NewTib, OldTib
<1>4. CASE ~Valid(x)
  <2>1. /\ late' \subseteq late
        /\ UNCHANGED <<chain, proc, ws, nkey, faults, commands, lost, kept, spare, changed>>
    BY <1>1, <1>2, <1>4 DEF history
  <2>2. TypeOK' /\ CaseInv' /\ ConfInv'
    BY <2>1 DEF IInv, TypeOK, CaseInv, ConfInv
  <2>3. LateKeys'
    BY <2>1 DEF IInv, KeyInv, LateKeys
  <2>4. KeyInv'
    BY <2>1, <2>3 DEF IInv, KeyInv
  <2>5. CleanInv' /\ PaidOnce'
    BY <1>3, <2>1 DEF IInv, CleanInv, PaidOnce
  <2> QED  BY <2>2, <2>4, <2>5 DEF IInv
<1>5. CASE Valid(x)
  <2>1. /\ late' = late \ {x} /\ chain' = Effect(x) /\ changed' = changed \cup {"late"}
        /\ spare' = (IF x.call = "Collateral" THEN spare + x.n ELSE spare)
        /\ kept' = (IF x.call = "Regnstk" THEN kept \cup ws ELSE kept)
        /\ lost' = lost
    BY <1>1, <1>5
  <2>2. /\ chain' \in Registration /\ chain'.reg
        /\ x.call = "Regnstk" =>
             ~chain.reg /\ chain'.key = chain.key /\ chain'.stake = x.n /\ chain'.decl = x.n * Unit
        /\ x.call # "Regnstk" => chain.reg /\ chain'.gen = chain.gen
        /\ x.call = "PoisKey" => chain.key = NoKey /\ chain'.key = x.n
        /\ x.call # "PoisKey" => chain'.key = chain.key
    BY <1>3, <1>5, <2>1, EffectFacts
  <2>3. TypeOK'
    BY <1>2, <1>3, <2>1, <2>2 DEF IInv, TypeOK
  <2>4. CaseInv' /\ ConfInv'
    BY <1>2, <2>1 DEF IInv, CaseInv, ConfInv
  <2>5. x.call = "PoisKey" =>
          x.n \in lost \/ (proc.pc \in {"send", "verify"} /\ x.n = proc.key)
    BY <2>2 DEF IInv, KeyInv, LateKeys
  <2>6. LateKeys'
    <3> SUFFICES ASSUME NEW y \in late, y.call = "PoisKey"
                 PROVE  \/ y.n \in lost \/ chain'.key # NoKey
                        \/ proc.pc \in {"send", "verify"} /\ y.n = proc.key
      BY <1>2, <2>1 DEF LateKeys
    <3>1. y.n \in lost \/ (proc.pc \in {"send", "verify"} /\ y.n = proc.key) \/ chain.key # NoKey
      BY DEF IInv, KeyInv, LateKeys
    <3> QED  BY <2>2, <3>1
  <2>7. KeyInv'
    BY <1>2, <2>1, <2>2, <2>5, <2>6
       DEF IInv, CaseInv, KeyInv, Later, Pcs, Updating, Keying, Up
  <2>8. CleanInv'
    <3>1. x.call = "Regnstk" => proc.pc \notin Later \ {"register"}
      BY <2>2 DEF IInv, CleanInv
    <3> QED  BY <1>2, <2>1, <2>2, <3>1 DEF IInv, CaseInv, CleanInv, Later, Pcs, Updating, Up
  <2>9. PaidOnce'
    <3> DEFINE i == Inflight  n == x.n
    <3>1. i \in Nat /\ n \in Nat /\ n * Unit \in Nat /\ Inflight' = i
      BY <1>3
    <3>2. chain.stake \in Nat /\ chain.decl \in Nat
      BY <1>3, RegistrationFields
    <3>3. chain.stake * Unit < chain.decl + (spare + i + 1) * Unit
      BY DEF IInv, PaidOnce
    <3> HIDE DEF i
    <3>4. CASE x.call = "Regnstk"
      <4>1. (spare + i + 1) * Unit > 0 /\ (spare + i + 1) * Unit \in Nat
        BY <1>3, <3>1
      <4> QED  BY <2>1, <2>2, <3>1, <3>4, <4>1 DEF PaidOnce
    <3>5. CASE x.call = "Collateral"
      <4>1. chain'.stake = chain.stake + n /\ chain'.decl = chain.decl /\ spare' = spare + n
        BY <1>3, <1>5, <2>1, <3>5, EffectFacts
      <4> HIDE DEF n
      <4>2. (chain.stake + n) * Unit < chain.decl + (spare + n + i + 1) * Unit
        BY <1>3, <3>1, <3>2, <3>3
      <4> QED  BY <3>1, <4>1, <4>2 DEF PaidOnce
    <3>6. CASE x.call \notin {"Regnstk", "Collateral"}
      <4>1. /\ chain'.stake = chain.stake /\ spare' = spare
            /\ chain'.decl = chain.decl \/ chain'.decl = chain.decl + n * Unit
        <5>1. x.call \in {"PoisKey", "Space", "Beneficiary", "Endpoint"}
          BY <1>3, <3>6 DEF Extrinsic
        <5> QED  BY <1>3, <1>5, <2>1, <5>1, EffectFacts
      <4>2. (spare + i + 1) * Unit \in Nat /\ chain.stake * Unit \in Nat
        BY <1>3, <3>1, <3>2
      <4> QED  BY <3>1, <3>2, <3>3, <4>1, <4>2 DEF PaidOnce
    <3> QED  BY <3>4, <3>5, <3>6
  <2> QED  BY <2>3, <2>4, <2>7, <2>8, <2>9 DEF IInv
<1> QED  BY <1>4, <1>5

\* A command that leaves the miner registered, with its key.
LEMMA CommandInv ==
  ASSUME IInv, NEW c \in Registration, Command(c, "command"), chain.reg, c.reg,
         c.key = chain.key, c.gen = chain.gen, spare' \in Nat,
         c.stake * Unit < c.decl + (spare' + Inflight + 1) * Unit
  PROVE  IInv'
<1>1. /\ chain' = c /\ changed' = changed \cup {"command"} /\ commands' \in 0..MaxCommands
      /\ UNCHANGED <<late, proc, ws, nkey, faults, lost, kept>>
  BY ConstantsAssumption DEF Command, IInv, TypeOK
<1>2. TypeOK'
  BY <1>1 DEF IInv, TypeOK
<1>3. CaseInv' /\ ConfInv'
  BY <1>1 DEF IInv, CaseInv, ConfInv
<1>4. LateKeys'
  BY <1>1 DEF IInv, KeyInv, LateKeys
<1>5. KeyInv' /\ CleanInv'
  BY <1>1, <1>4 DEF IInv, KeyInv, CleanInv
<1>6. PaidOnce'
  <2>1. Inflight' = Inflight
    BY <1>1 DEF Inflight, Growth, NewTib, OldTib
  <2> QED  BY <1>1, <2>1 DEF PaidOnce
<1> QED  BY <1>2, <1>3, <1>5, <1>6 DEF IInv

LEMMA ChainFacts ==
  ASSUME IInv
  PROVE  /\ chain \in Registration /\ chain.stake \in Nat /\ chain.decl \in Nat
         /\ chain.bal \in Balances /\ chain.by \in Payer
         /\ spare \in Nat /\ Inflight \in Nat /\ Unit \in Nat \ {0}
         /\ chain.stake * Unit < chain.decl + (spare + Inflight + 1) * Unit
<1>1. chain \in Registration /\ spare \in Nat /\ Inflight \in Nat
  BY InflightFacts DEF IInv, TypeOK
<1> QED  BY <1>1, RegistrationFields, ConstantsAssumption DEF IInv, PaidOnce

LEMMA incstakingCmdInv == ASSUME IInv, incstakingCmd PROVE IInv'
<1> DEFINE b == [chain.bal EXCEPT !["sign"] = @ - 1]
           n == chain.stake + 1
           c == [chain EXCEPT !.stake = n, !.bal = b]
<1>1. chain \in Registration /\ n \in Nat
  BY ChainFacts
<1>2. b \in Balances
  <2>1. chain.bal \in Balances /\ "sign" \in Payer /\ chain.bal["sign"] >= 1
    BY ChainFacts DEF incstakingCmd, Payer
  <2> QED  BY <2>1 DEF Balances
<1>3. chain.reg /\ spare' = spare + 1
  BY DEF incstakingCmd
<1>4. [chain EXCEPT !.stake = @ + 1, !.bal["sign"] = @ - 1] = c
  BY <1>1 DEF Registration
<1>5. Command(c, "command")
  BY <1>4 DEF incstakingCmd
<1> HIDE DEF b, n
<1>6. c \in Registration
  BY <1>1, <1>2 DEF Registration
<1>7. /\ c.reg = chain.reg /\ c.key = chain.key /\ c.gen = chain.gen
      /\ c.stake = n /\ c.decl = chain.decl
  BY <1>1 DEF Registration
<1> HIDE DEF c
<1>8. c.stake * Unit < c.decl + (spare' + Inflight + 1) * Unit
  BY <1>3, <1>7, ChainFacts DEF n
<1>9. spare' \in Nat
  BY <1>3, ChainFacts
<1> QED  BY <1>3, <1>5, <1>6, <1>7, <1>8, <1>9, CommandInv

LEMMA incspaceCmdInv == ASSUME IInv, incspaceCmd PROVE IInv'
<1> DEFINE c == [chain EXCEPT !.decl = @ + Unit]
<1>1. chain \in Registration /\ chain.decl + Unit \in Nat
  BY ChainFacts
<1>2. chain.reg /\ spare' = spare /\ Command(c, "command")
  BY DEF incspaceCmd
<1>3. c \in Registration
  BY <1>1 DEF Registration
<1>4. /\ c.reg = chain.reg /\ c.key = chain.key /\ c.gen = chain.gen
      /\ c.stake = chain.stake /\ c.decl = chain.decl + Unit
  BY <1>1 DEF Registration
<1> HIDE DEF c
<1>5. c.stake * Unit < c.decl + (spare' + Inflight + 1) * Unit /\ spare' \in Nat
  BY <1>2, <1>4, ChainFacts
<1> QED  BY <1>2, <1>3, <1>4, <1>5, CommandInv

\* A command that changes neither stake nor space.
LEMMA PlainCommandInv ==
  ASSUME IInv, NEW c \in Registration, Command(c, "command"), chain.reg, c.reg,
         c.key = chain.key, c.gen = chain.gen, spare' = spare,
         c.stake = chain.stake, c.decl = chain.decl
  PROVE  IInv'
<1>1. c.stake * Unit < c.decl + (spare' + Inflight + 1) * Unit /\ spare' \in Nat
  BY ChainFacts
<1> QED  BY <1>1, CommandInv

LEMMA updearningsCmdInv == ASSUME IInv, updearningsCmd PROVE IInv'
<1>1. PICK a \in Account : Command([chain EXCEPT !.earnings = a], "command")
  BY Zenon DEF updearningsCmd
<1> DEFINE c == [chain EXCEPT !.earnings = a]
<1>2. chain.reg /\ spare' = spare /\ Command(c, "command") /\ chain \in Registration
  BY <1>1, ChainFacts DEF updearningsCmd
<1>3. /\ c \in Registration /\ c.reg = chain.reg /\ c.key = chain.key /\ c.gen = chain.gen
      /\ c.stake = chain.stake /\ c.decl = chain.decl
  BY <1>2 DEF Registration
<1> HIDE DEF c
<1> QED  BY <1>2, <1>3, PlainCommandInv

LEMMA updendpointCmdInv == ASSUME IInv, updendpointCmd PROVE IInv'
<1>1. PICK e \in Endpoint : Command([chain EXCEPT !.endpoint = e], "command")
  BY Zenon DEF updendpointCmd
<1> DEFINE c == [chain EXCEPT !.endpoint = e]
<1>2. chain.reg /\ spare' = spare /\ Command(c, "command") /\ chain \in Registration
  BY <1>1, ChainFacts DEF updendpointCmd
<1>3. /\ c \in Registration /\ c.reg = chain.reg /\ c.key = chain.key /\ c.gen = chain.gen
      /\ c.stake = chain.stake /\ c.decl = chain.decl
  BY <1>2 DEF Registration
<1> HIDE DEF c
<1> QED  BY <1>2, <1>3, PlainCommandInv

LEMMA exitCmdInv == ASSUME IInv, exitCmd PROVE IInv'
<1> DEFINE c == [chain EXCEPT !.state = "exit"]
<1>1. chain.reg /\ spare' = spare /\ Command(c, "command") /\ chain \in Registration
  BY ChainFacts DEF exitCmd
<1>2. /\ c \in Registration /\ c.reg = chain.reg /\ c.key = chain.key /\ c.gen = chain.gen
      /\ c.stake = chain.stake /\ c.decl = chain.decl
  BY <1>1 DEF Registration
<1> HIDE DEF c
<1> QED  BY <1>1, <1>2, PlainCommandInv

LEMMA claimCmdInv == ASSUME IInv, claimCmd PROVE IInv'
<1> DEFINE b == [chain.bal EXCEPT !["sign"] = @ + 1]
           c == [chain EXCEPT !.bal = b]
<1>1. chain \in Registration /\ chain.reg /\ spare' = spare
  BY ChainFacts DEF claimCmd
<1>2. b \in Balances
  <2>1. chain.bal \in Balances /\ "sign" \in Payer
    BY ChainFacts DEF Payer
  <2> QED  BY <2>1 DEF Balances
<1>3. [chain EXCEPT !.bal["sign"] = @ + 1] = c
  BY <1>1 DEF Registration
<1>4. Command(c, "command")
  BY <1>3 DEF claimCmd
<1> HIDE DEF b
<1>5. /\ c \in Registration /\ c.reg = chain.reg /\ c.key = chain.key /\ c.gen = chain.gen
      /\ c.stake = chain.stake /\ c.decl = chain.decl
  BY <1>1, <1>2 DEF Registration
<1> HIDE DEF c
<1> QED  BY <1>1, <1>4, <1>5, PlainCommandInv

\* A withdrawal leaves no key, no space, no collateral and nothing on its way.
LEMMA withdrawCmdInv == ASSUME IInv, withdrawCmd PROVE IInv'
<1> DEFINE b == [chain.bal EXCEPT ![chain.by] = @ + chain.stake]
           c == [chain EXCEPT !.reg = FALSE, !.key = NoKey, !.decl = 0, !.stake = 0, !.bal = b]
<1>1. /\ chain \in Registration /\ Inflight \in Nat /\ Unit \in Nat \ {0} /\ NoKey \in Nat
      /\ late = {} /\ spare' = 0
  BY ChainFacts DEF withdrawCmd, NoKey
<1>2. b \in Balances
  <2>1. chain.bal \in Balances /\ chain.by \in Payer /\ chain.stake \in Nat
    BY ChainFacts
  <2> QED  BY <2>1 DEF Balances
<1>3. [chain EXCEPT !.reg = FALSE, !.key = NoKey, !.decl = 0, !.stake = 0,
                    !.bal[chain.by] = @ + chain.stake] = c
  BY <1>1 DEF Registration
<1>4. Command(c, "withdraw")
  BY <1>3 DEF withdrawCmd
<1> HIDE DEF b
<1>5. /\ c \in Registration /\ c.reg = FALSE /\ c.key = NoKey /\ c.decl = 0 /\ c.stake = 0
  BY <1>1, <1>2 DEF Registration
<1> HIDE DEF c
<1>6. /\ chain' = c /\ changed' = changed \cup {"withdraw"} /\ commands' \in 0..MaxCommands
      /\ UNCHANGED <<late, proc, ws, nkey, faults, lost, kept>>
  BY <1>4, ConstantsAssumption DEF Command, IInv, TypeOK
<1>7. TypeOK'
  BY <1>1, <1>5, <1>6 DEF IInv, TypeOK
<1>8. CaseInv' /\ ConfInv'
  BY <1>6 DEF IInv, CaseInv, ConfInv
<1>9. LateKeys'
  BY <1>1, <1>6 DEF LateKeys
<1>10. KeyInv' /\ CleanInv'
  BY <1>1, <1>5, <1>6, <1>9 DEF IInv, KeyInv, CleanInv
<1>11. PaidOnce'
  <2>1. Inflight' = Inflight
    BY <1>6 DEF Inflight, Growth, NewTib, OldTib
  <2>2. 0 < (0 + Inflight + 1) * Unit
    BY <1>1
  <2> QED  BY <1>1, <1>5, <1>6, <2>1, <2>2 DEF PaidOnce
<1> QED  BY <1>7, <1>8, <1>10, <1>11 DEF IInv

(***************************************************************************)
(* The theorems.                                                           *)
(***************************************************************************)
LEMMA StutterInv == ASSUME IInv, UNCHANGED vars PROVE IInv'
<1>1. /\ chain' = chain /\ late' = late /\ proc' = proc /\ ws' = ws /\ nkey' = nkey
      /\ faults' = faults /\ commands' = commands /\ lost' = lost /\ kept' = kept
      /\ spare' = spare /\ changed' = changed
  BY DEF vars
<1>2. TypeOK' /\ CaseInv' /\ ConfInv'
  BY <1>1 DEF IInv, TypeOK, CaseInv, ConfInv
<1>3. LateKeys'
  BY <1>1 DEF IInv, KeyInv, LateKeys
<1>4. KeyInv' /\ CleanInv'
  BY <1>1, <1>3 DEF IInv, KeyInv, CleanInv
<1>5. PaidOnce'
  BY <1>1 DEF IInv, PaidOnce, Inflight, Growth, NewTib, OldTib
<1> QED  BY <1>2, <1>4, <1>5 DEF IInv

LEMMA NextInv == ASSUME IInv, [Next]_vars PROVE IInv'
<1>1. CASE \/ Configure \/ InitChainClient \/ checkConfiguredTees \/ checkRegistrationInfo
           \/ registerMiner \/ RemoveAndBuild \/ Build
  BY <1>1, ConfigureInv, InitChainClientInv, checkConfiguredTeesInv,
     checkRegistrationInfoInv, registerMinerInv, RemoveAndBuildInv, BuildInv
<1>2. CASE ListTees \/ AskTee \/ RegisterPoisKey \/ VerifyPoisKey
  BY <1>2, ListTeesInv, AskTeeInv, RegisterPoisKeyInv, VerifyPoisKeyInv
<1>3. CASE \/ IncreaseCollateral \/ IncreaseDeclarationSpace \/ UpdateBeneficiary
           \/ UpdateSminerEndpoint \/ queryPodr2KeyFromTee
  BY <1>3, IncreaseCollateralInv, IncreaseDeclarationSpaceInv, UpdateBeneficiaryInv,
     UpdateSminerEndpointInv, queryPodr2KeyFromTeeInv
<1>4. CASE InitNode \/ syncMinerStatus \/ StoreFiles \/ Crash \/ LateExtrinsic
  BY <1>4, InitNodeInv, syncMinerStatusInv, StoreFilesInv, CrashInv, LateExtrinsicInv
<1>5. CASE \/ incstakingCmd \/ incspaceCmd \/ updearningsCmd \/ updendpointCmd
           \/ exitCmd \/ withdrawCmd \/ claimCmd
  BY <1>5, incstakingCmdInv, incspaceCmdInv, updearningsCmdInv, updendpointCmdInv,
     exitCmdInv, withdrawCmdInv, claimCmdInv
<1>6. CASE UNCHANGED vars
  BY <1>6, StutterInv
<1> QED  BY <1>1, <1>2, <1>3, <1>4, <1>5, <1>6 DEF Next

\* What the process read and configured is always complete, and the
\* accounts of the chain never fall below zero.
THEOREM TypeCorrect == Spec => []TypeOK
<1>1. Init => IInv
  BY InitInv
<1>2. IInv /\ [Next]_vars => IInv'
  BY NextInv
<1>3. IInv => TypeOK
  BY DEF IInv
<1> QED  BY <1>1, <1>2, <1>3, PTL DEF Spec

LEMMA KeyInvSuffices == IInv => KeyAgrees
<1> SUFFICES ASSUME IInv, proc.pc = "ready", "withdraw" \notin changed
             PROVE  chain.reg /\ (proc.key = chain.key \/ chain.key \in lost)
  BY DEF KeyAgrees, Ready
<1> QED  BY DEF IInv, KeyInv, Later, Pcs, Updating, Up

\* A running miner works with the key the chain holds for it, whatever
\* extrinsics landed late and however many starts there were, except when
\* the chain holds a key a start had given up (node/init.go:234-301).
THEOREM KeysAgree == Spec => []KeyAgrees
<1>1. Init => IInv
  BY InitInv
<1>2. IInv /\ [Next]_vars => IInv'
  BY NextInv
<1> QED  BY <1>1, <1>2, KeyInvSuffices, PTL DEF Spec

LEMMA CleanInvSuffices == IInv => CleanStart
<1> SUFFICES ASSUME IInv, proc.pc = "ready", "withdraw" \notin changed
             PROVE  ws \subseteq {chain.gen} \cup kept
  BY DEF CleanStart, Ready
<1>1. chain.reg
  BY DEF IInv, KeyInv, Later, Pcs
<1> QED  BY <1>1 DEF IInv, CleanInv

\* The workspace of a running miner holds files of its registration only,
\* and those that a start could not remove (node/init.go:224, 263).
THEOREM StartsAreClean == Spec => []CleanStart
<1>1. Init => IInv
  BY InitInv
<1>2. IInv /\ [Next]_vars => IInv'
  BY NextInv
<1> QED  BY <1>1, <1>2, CleanInvSuffices, PTL DEF Spec

LEMMA ConfInvSuffices == IInv => AsConfigured
<1> SUFFICES ASSUME IInv, proc.pc = "ready", changed = {}
             PROVE  /\ chain.earnings = proc.cfg.earnings
                    /\ chain.endpoint = proc.cfg.endpoint
                    /\ proc.case = "Unregistered" => chain.decl = DeclaredBy(proc.cfg.space, 0)
                    /\ proc.case # "Unregistered" /\ proc.info.decl % Unit = 0 =>
                         chain.decl = DeclaredBy(proc.cfg.space, proc.info.decl)
  BY DEF AsConfigured
<1> QED  BY DEF IInv, ConfInv, Later, Pcs, Up

\* A finished start leaves the chain as it was configured, unless a command
\* or a late extrinsic changed the registration (node/init.go:441-508).
THEOREM RunsAsConfigured == Spec => []AsConfigured
<1>1. Init => IInv
  BY InitInv
<1>2. IInv /\ [Next]_vars => IInv'
  BY NextInv
<1> QED  BY <1>1, <1>2, ConfInvSuffices, PTL DEF Spec

\* No sequence of interrupted starts and commands pays more collateral for
\* the declared space than what the history accounts for.
THEOREM SpaceIsPaidOnce == Spec => []PaidOnce
<1>1. Init => IInv
  BY InitInv
<1>2. IInv /\ [Next]_vars => IInv'
  BY NextInv
<1>3. IInv => PaidOnce
  BY DEF IInv
<1> QED  BY <1>1, <1>2, <1>3, PTL DEF Spec
=============================================================================
