-------------------------- MODULE AtSession_proofs --------------------------
(***************************************************************************)
(* The AT bring-up for any number of tries, rounds, events unasked and     *)
(* faults, with and without a PIN.                                         *)
(***************************************************************************)
EXTENDS MCAtSession, Integers, SequenceTheorems, TLAPS

-----------------------------------------------------------------------------
(* The script.                                                             *)

\* The steps before wait_for_response().
P == IF SimPin THEN 10 ELSE 9

FirstSteps == << Step("AT", "try"), Step("AT", "must"), Step("ATE0", "must"),
            Step("AT+CMEE=2", "must"),
            Step("AT+CFUN=0", "opt"), Step("AT+CFUN=1", "opt"),
            Step("AT", "try"), Step("ATE0", "must"), Step("AT+CMEE=2", "opt") >>
PinStep == IF SimPin THEN << Step("AT+CPIN=", "must") >> ELSE << >>
LastSteps == << Step("AT+CPIN?", "poll"), Step("AT+CPIN?", "needle"),
           Step("AT+CREG=2", "opt"), Step("drain", "drain"),
           Step("AT+CREG?", "reg"), Step("AT+CGREG?", "reg"),
           Step("AT+CSQ", "csq"), Step("AT+COPS?", "cops"),
           Step("AT+CGDCONT=1", "opt"), Step("AT+CGATT=1", "opt"),
           Step("AT+CMUX=0", "must") >>

Steps ==
  { Step("AT", "try"), Step("AT", "must"), Step("ATE0", "must"),
    Step("AT+CMEE=2", "must"), Step("AT+CFUN=0", "opt"), Step("AT+CFUN=1", "opt"),
    Step("AT+CMEE=2", "opt"), Step("AT+CPIN=", "must"),
    Step("AT+CPIN?", "poll"), Step("AT+CPIN?", "needle"),
    Step("AT+CREG=2", "opt"), Step("drain", "drain"),
    Step("AT+CREG?", "reg"), Step("AT+CGREG?", "reg"),
    Step("AT+CSQ", "csq"), Step("AT+COPS?", "cops"),
    Step("AT+CGDCONT=1", "opt"), Step("AT+CGATT=1", "opt"), Step("AT+CMUX=0", "must") }

\* Concatenation, folded.
Three(a, b, c) == (a \o b) \o c

Parts(t, a, b, c) ==
  /\ Len(t) = Len(a) + Len(b) + Len(c)
  /\ \A i \in 1 .. Len(a) : t[i] = a[i]
  /\ \A i \in 1 .. Len(b) : t[Len(a) + i] = b[i]
  /\ \A i \in 1 .. Len(c) : t[Len(a) + Len(b) + i] = c[i]

LEMMA ThreeParts ==
  ASSUME NEW T
  PROVE
  \A a, b, c \in Seq(T) :
    Three(a, b, c) \in Seq(T) /\ Parts(Three(a, b, c), a, b, c)
<1> TAKE a, b, c \in Seq(T)
<1> QED
  BY DEF Three, Parts

LEMMA FirstIs ==
  /\ FirstSteps \in Seq(Steps) /\ Len(FirstSteps) = 9
  /\ \A i \in 1 .. 9 :
       /\ FirstSteps[i].kind \in {"try", "must", "opt"}
       /\ i = 6 => FirstSteps[i].kind = "opt"
       /\ (FirstSteps[i].cmd = "AT+CFUN=1" <=> i = 6)
       /\ FirstSteps[i].cmd \notin {"AT+CPIN?", "AT+CREG?", "AT+CGREG?", "AT+CMUX=0"}
<1>1. FirstSteps \in Seq(Steps) /\ Len(FirstSteps) = 9
  BY DEF FirstSteps, Steps
<1>2. /\ FirstSteps[1] = Step("AT", "try") /\ FirstSteps[2] = Step("AT", "must")
      /\ FirstSteps[3] = Step("ATE0", "must") /\ FirstSteps[4] = Step("AT+CMEE=2", "must")
      /\ FirstSteps[5] = Step("AT+CFUN=0", "opt") /\ FirstSteps[6] = Step("AT+CFUN=1", "opt")
      /\ FirstSteps[7] = Step("AT", "try") /\ FirstSteps[8] = Step("ATE0", "must")
      /\ FirstSteps[9] = Step("AT+CMEE=2", "opt")
  BY DEF FirstSteps
<1>3. QED
  BY <1>1, <1>2 DEF Step

LEMMA LastIs ==
  /\ LastSteps \in Seq(Steps) /\ Len(LastSteps) = 11
  /\ LastSteps[1] = Step("AT+CPIN?", "poll") /\ LastSteps[2] = Step("AT+CPIN?", "needle")
  /\ LastSteps[3] = Step("AT+CREG=2", "opt") /\ LastSteps[4] = Step("drain", "drain")
  /\ LastSteps[5] = Step("AT+CREG?", "reg") /\ LastSteps[6] = Step("AT+CGREG?", "reg")
  /\ LastSteps[7] = Step("AT+CSQ", "csq") /\ LastSteps[8] = Step("AT+COPS?", "cops")
  /\ LastSteps[9] = Step("AT+CGDCONT=1", "opt") /\ LastSteps[10] = Step("AT+CGATT=1", "opt")
  /\ LastSteps[11] = Step("AT+CMUX=0", "must")
<1>1. LastSteps \in Seq(Steps) /\ Len(LastSteps) = 11
  BY DEF LastSteps, Steps
<1>2. QED
  BY <1>1 DEF LastSteps

LEMMA ScriptParts ==
  /\ P \in 9 .. 10 /\ Script \in Seq(Steps) /\ Len(Script) = P + 11
  /\ \A i \in 1 .. 9 : Script[i] = FirstSteps[i]
  /\ P = 10 => Script[10] = Step("AT+CPIN=", "must")
  /\ \A i \in 1 .. 11 : Script[P + i] = LastSteps[i]
<1>1. Script = Three(FirstSteps, PinStep, LastSteps)
  BY DEF Script, FirstSteps, PinStep, LastSteps, Three
<1>2. P \in 9 .. 10 /\ PinStep \in Seq(Steps) /\ Len(PinStep) = P - 9
      /\ (P = 10 => PinStep[1] = Step("AT+CPIN=", "must"))
  <2>1. CASE SimPin
    BY <2>1 DEF P, PinStep, Steps
  <2>2. CASE ~SimPin
    BY <2>2 DEF P, PinStep
  <2>3. QED
    BY <2>1, <2>2
<1>3. /\ FirstSteps \in Seq(Steps) /\ Len(FirstSteps) = 9
      /\ LastSteps \in Seq(Steps) /\ Len(LastSteps) = 11
  BY FirstIs, LastIs
<1> HIDE DEF FirstSteps, PinStep, LastSteps, Script
<1>4. /\ Script \in Seq(Steps)
      /\ Len(Script) = Len(FirstSteps) + Len(PinStep) + Len(LastSteps)
      /\ \A i \in 1 .. Len(FirstSteps) : Script[i] = FirstSteps[i]
      /\ \A i \in 1 .. Len(PinStep) : Script[Len(FirstSteps) + i] = PinStep[i]
      /\ \A i \in 1 .. Len(LastSteps) :
            Script[Len(FirstSteps) + Len(PinStep) + i] = LastSteps[i]
  <2>1. Script \in Seq(Steps) /\ Parts(Script, FirstSteps, PinStep, LastSteps)
    BY <1>1, <1>2, <1>3, ThreeParts
  <2>2. QED
    BY <2>1 DEF Parts
<1>5. Len(FirstSteps) + Len(PinStep) = P /\ Len(Script) = P + 11
  BY <1>2, <1>3, <1>4
<1>6. P = 10 => Script[10] = Step("AT+CPIN=", "must")
  <2>1. SUFFICES ASSUME P = 10 PROVE Script[10] = Step("AT+CPIN=", "must")
    OBVIOUS
  <2>2. Len(PinStep) = 1 /\ 1 \in 1 .. 1 /\ 9 + 1 = 10
    BY <1>2, <2>1
  <2>3. Script[9 + 1] = PinStep[1]
    BY <1>3, <1>4, <2>2
  <2>4. QED
    BY <1>2, <2>1, <2>2, <2>3
<1>7. \A i \in 1 .. 11 : Script[P + i] = LastSteps[i]
  BY <1>3, <1>4, <1>5
<1>8. QED
  BY <1>2, <1>3, <1>4, <1>5, <1>6, <1>7

LEMMA StepCases ==
  /\ \A i \in 1 .. P + 11 :
       i \in 1 .. P \/ i \in {P + 1, P + 2, P + 3, P + 4, P + 5, P + 6, P + 7, P + 8, P + 9,
                             P + 10, P + 11}
  /\ \A i \in 1 .. 11 : P + i \in 1 .. P + 11 /\ P + i \notin 1 .. P
  /\ P \in Nat
<1>1. P \in 9 .. 10
  BY DEF P
<1>2. QED
  BY <1>1

\* Where a kind or a command of interest stands.
LEMMA ScriptIs ==
  /\ P \in 9 .. 10 /\ Len(Script) = P + 11 /\ DOMAIN Script = 1 .. P + 11
  /\ \A i \in 1 .. P : Script[i].kind \in {"try", "must", "opt"}
  /\ Script[6].kind = "opt"
  /\ Script[P + 1].kind = "poll" /\ Script[P + 2].kind = "needle"
  /\ Script[P + 3].kind = "opt" /\ Script[P + 4].kind = "drain"
  /\ Script[P + 5].kind = "reg" /\ Script[P + 6].kind = "reg"
  /\ Script[P + 7].kind = "csq" /\ Script[P + 8].kind = "cops"
  /\ Script[P + 9].kind = "opt" /\ Script[P + 10].kind = "opt"
  /\ Script[P + 11].kind = "must"
  /\ \A i \in 1 .. P + 11 :
       /\ (Script[i].cmd = "AT+CFUN=1" <=> i = 6)
       /\ (Script[i].cmd = "AT+CPIN?" <=> i \in {P + 1, P + 2})
       /\ (Script[i].cmd = "AT+CREG?" <=> i = P + 5)
       /\ (Script[i].cmd = "AT+CGREG?" <=> i = P + 6)
       /\ (Script[i].cmd = "AT+CMUX=0" <=> i = P + 11)
<1>1. /\ P \in 9 .. 10 /\ Len(Script) = P + 11 /\ DOMAIN Script = 1 .. P + 11
      /\ \A i \in 1 .. P + 11 : Script[i] \in Steps
  BY ScriptParts
<1>2. \A i \in 1 .. P :
        /\ Script[i].kind \in {"try", "must", "opt"}
        /\ i = 6 => Script[i].kind = "opt"
        /\ (Script[i].cmd = "AT+CFUN=1" <=> i = 6)
        /\ Script[i].cmd \notin {"AT+CPIN?", "AT+CREG?", "AT+CGREG?", "AT+CMUX=0"}
  <2> TAKE i \in 1 .. P
  <2>1. CASE i \in 1 .. 9
    <3>1. Script[i] = FirstSteps[i]
      BY <2>1, ScriptParts
    <3>2. /\ FirstSteps[i].kind \in {"try", "must", "opt"}
          /\ i = 6 => FirstSteps[i].kind = "opt"
          /\ (FirstSteps[i].cmd = "AT+CFUN=1" <=> i = 6)
          /\ FirstSteps[i].cmd \notin {"AT+CPIN?", "AT+CREG?", "AT+CGREG?", "AT+CMUX=0"}
      BY <2>1, FirstIs
    <3>3. QED
      BY <3>1, <3>2
  <2>2. CASE i = 10
    <3>1. P = 10
      BY <2>2, ScriptParts
    <3>2. Script[i] = Step("AT+CPIN=", "must")
      BY <2>2, <3>1, ScriptParts
    <3>3. QED
      BY <2>2, <3>2 DEF Step
  <2>3. QED
    BY <1>1, <2>1, <2>2
<1>3. /\ Script[P + 1] = Step("AT+CPIN?", "poll") /\ Script[P + 2] = Step("AT+CPIN?", "needle")
      /\ Script[P + 3] = Step("AT+CREG=2", "opt") /\ Script[P + 4] = Step("drain", "drain")
      /\ Script[P + 5] = Step("AT+CREG?", "reg") /\ Script[P + 6] = Step("AT+CGREG?", "reg")
      /\ Script[P + 7] = Step("AT+CSQ", "csq") /\ Script[P + 8] = Step("AT+COPS?", "cops")
      /\ Script[P + 9] = Step("AT+CGDCONT=1", "opt") /\ Script[P + 10] = Step("AT+CGATT=1", "opt")
      /\ Script[P + 11] = Step("AT+CMUX=0", "must")
  BY ScriptParts, LastIs
<1>4. \A i \in 1 .. P + 11 :
       i \in 1 .. P \/ i \in {P + 1, P + 2, P + 3, P + 4, P + 5, P + 6, P + 7, P + 8, P + 9,
                             P + 10, P + 11}
  BY StepCases
<1>5. \A i \in 1 .. P + 11 :
       /\ (Script[i].cmd = "AT+CFUN=1" <=> i = 6)
       /\ (Script[i].cmd = "AT+CPIN?" <=> i \in {P + 1, P + 2})
       /\ (Script[i].cmd = "AT+CREG?" <=> i = P + 5)
       /\ (Script[i].cmd = "AT+CGREG?" <=> i = P + 6)
       /\ (Script[i].cmd = "AT+CMUX=0" <=> i = P + 11)
  <2> TAKE i \in 1 .. P + 11
  <2>2. CASE i \in 1 .. P
    BY <1>1, <1>2, <2>2
  <2>3. CASE i \notin 1 .. P
    <3>1. /\ Script[P + 1].cmd = "AT+CPIN?" /\ Script[P + 2].cmd = "AT+CPIN?"
          /\ Script[P + 3].cmd = "AT+CREG=2" /\ Script[P + 4].cmd = "drain"
          /\ Script[P + 5].cmd = "AT+CREG?" /\ Script[P + 6].cmd = "AT+CGREG?"
          /\ Script[P + 7].cmd = "AT+CSQ" /\ Script[P + 8].cmd = "AT+COPS?"
          /\ Script[P + 9].cmd = "AT+CGDCONT=1" /\ Script[P + 10].cmd = "AT+CGATT=1"
          /\ Script[P + 11].cmd = "AT+CMUX=0"
      BY <1>3 DEF Step
    <3>2. i \in {P + 1, P + 2, P + 3, P + 4, P + 5, P + 6, P + 7, P + 8, P + 9, P + 10, P + 11}
      BY <1>4, <2>3
    <3>3. P \in 9 .. 10
      BY <1>1
    <3>4. QED
      BY <3>1, <3>2, <3>3
  <2>4. QED
    BY <2>2, <2>3
<1>6. QED
  <2>1. /\ Script[P + 1].kind = "poll" /\ Script[P + 2].kind = "needle"
        /\ Script[P + 3].kind = "opt" /\ Script[P + 4].kind = "drain"
        /\ Script[P + 5].kind = "reg" /\ Script[P + 6].kind = "reg"
        /\ Script[P + 7].kind = "csq" /\ Script[P + 8].kind = "cops"
        /\ Script[P + 9].kind = "opt" /\ Script[P + 10].kind = "opt"
        /\ Script[P + 11].kind = "must"
    BY <1>3 DEF Step
  <2>2. Script[6].kind = "opt"
    BY <1>1, <1>2
  <2>3. QED
    BY <1>1, <1>2, <1>5, <2>1, <2>2

LEMMA KindCases ==
  \A i \in 1 .. P + 11 :
    /\ Script[i].kind = "poll" <=> i = P + 1
    /\ Script[i].kind = "needle" <=> i = P + 2
    /\ Script[i].kind = "drain" <=> i = P + 4
    /\ Script[i].kind = "reg" <=> i \in {P + 5, P + 6}
    /\ Script[i].kind = "csq" <=> i = P + 7
<1> TAKE i \in 1 .. P + 11
<1>1. CASE i \in 1 .. P
  <2>1. Script[i].kind \in {"try", "must", "opt"}
    BY <1>1, ScriptIs
  <2>2. i \notin {P + 1, P + 2, P + 4, P + 5, P + 6, P + 7}
    BY <1>1, StepCases
  <2>3. QED
    BY <2>1, <2>2
<1>2. CASE i \notin 1 .. P
  <2>1. i \in {P + 1, P + 2, P + 3, P + 4, P + 5, P + 6, P + 7, P + 8, P + 9, P + 10, P + 11}
    BY <1>2, StepCases
  <2>2. P \in Nat
    BY StepCases
  <2>3. /\ Script[P + 1].kind = "poll" /\ Script[P + 2].kind = "needle"
        /\ Script[P + 3].kind = "opt" /\ Script[P + 4].kind = "drain"
        /\ Script[P + 5].kind = "reg" /\ Script[P + 6].kind = "reg"
        /\ Script[P + 7].kind = "csq" /\ Script[P + 8].kind = "cops"
        /\ Script[P + 9].kind = "opt" /\ Script[P + 10].kind = "opt"
        /\ Script[P + 11].kind = "must"
    BY ScriptIs
  <2>4. QED
    BY <2>1, <2>2, <2>3
<1>3. QED
  BY <1>1, <1>2

LEMMA TheStep ==
  ASSUME NEW k, NEW n \in 1 .. P + 11,
         \A i \in 1 .. P + 11 : Script[i].kind = k <=> i = n
  PROVE  StepOf(k) = n
<1>1. {i \in DOMAIN Script : Script[i].kind = k} = {n}
  BY ScriptIs
<1>2. n \in Int
  BY ScriptIs
<1>3. QED
  BY <1>1, <1>2 DEF StepOf, Min

LEMMA StepsOf == StepOf("drain") = P + 4 /\ StepOf("csq") = P + 7
<1>1. P + 4 \in 1 .. P + 11 /\ P + 7 \in 1 .. P + 11
  BY StepCases
<1>2. StepOf("drain") = P + 4
  BY <1>1, KindCases, TheStep
<1>3. StepOf("csq") = P + 7
  BY <1>1, KindCases, TheStep
<1>4. QED
  BY <1>2, <1>3

-----------------------------------------------------------------------------
(* How a command ends.                                                     *)

Fits(t, s) == t \in 0 .. (IF Script[s].kind = "try" THEN AtTries - 1 ELSE Rounds)

\* What Finish(o) does in step s with its t-th try, r as `registered`, and g
\* if the command has been answered with "registered".
Follows(o, g) ==
  /\ \/ /\ step' = step + 1
        /\ phase' = IF step = P + 11 THEN "ok" ELSE "send"
        /\ step \in {P + 2, P + 11} => o = "ok"
        /\ step = P + 7 => registered
     \/ step' = step /\ phase' = "send" /\ step \notin {6, P + 2, P + 7, P + 11}
     \/ step' = P + 1 /\ phase' = "send" /\ step = P + 2
     \/ step' = P + 5 /\ phase' = "send" /\ step = P + 7 /\ ~registered
     \/ /\ step' = step /\ phase' = "failed"
        /\ step = P + 7 => ~registered
  /\ step = P + 2 /\ o = "ok" => step' = step + 1
  /\ registered' \in BOOLEAN
  /\ IF step \in {P + 5, P + 6} THEN registered' <=> registered \/ (o = "ok" /\ g)
     ELSE IF step = P + 7 THEN ~registered' ELSE registered' <=> registered

LEMMA FinishIs ==
  ASSUME step \in 1 .. P + 11, registered \in BOOLEAN, NEW o \in {"ok", "none", "err"},
         Finish(o)
  PROVE  Follows(o, is_registered(stat'))
<1> DEFINE g == is_registered(stat')
<1>0. g \in BOOLEAN
  BY DEF is_registered
<1>1. registered' = CASE kind = "reg" -> registered \/ (o = "ok" /\ g)
                      [] kind = "csq" -> FALSE
                      [] OTHER -> registered
  BY DEF Finish
<1> HIDE DEF g
<1>2. /\ kind = "reg" <=> step \in {P + 5, P + 6}
      /\ kind = "csq" <=> step = P + 7
      /\ kind = "needle" <=> step = P + 2
      /\ kind = "poll" <=> step = P + 1
      /\ kind = "drain" <=> step = P + 4
  BY KindCases DEF kind
<1>3. (step = P + 11 => kind = "must") /\ (step = 6 => kind = "opt")
  BY ScriptIs DEF kind
<1>4. Len(Script) = P + 11 /\ P \in Nat
  BY ScriptIs
<1>5. /\ registered' \in BOOLEAN
      /\ IF step \in {P + 5, P + 6} THEN registered' <=> registered \/ (o = "ok" /\ g)
         ELSE IF step = P + 7 THEN ~registered' ELSE registered' <=> registered
  <2>1. CASE kind = "reg"
    BY <1>0, <1>1, <1>2, <2>1
  <2>2. CASE kind = "csq"
    BY <1>0, <1>1, <1>2, <1>4, <2>2
  <2>3. CASE kind \notin {"reg", "csq"}
    BY <1>0, <1>1, <1>2, <2>3
  <2>4. QED
    BY <2>1, <2>2, <2>3
<1>6. \/ /\ step' = step + 1
         /\ phase' = IF step = P + 11 THEN "ok" ELSE "send"
         /\ step \in {P + 2, P + 11} => o = "ok"
         /\ step = P + 7 => registered
      \/ step' = step /\ phase' = "send" /\ step \notin {6, P + 2, P + 7, P + 11}
      \/ step' = P + 1 /\ phase' = "send" /\ step = P + 2
      \/ step' = P + 5 /\ phase' = "send" /\ step = P + 7 /\ ~registered
      \/ /\ step' = step /\ phase' = "failed"
         /\ step = P + 7 => ~registered
  <2> USE DEF Onward, Fail
  <2>1. CASE kind = "try"
    BY <1>2, <1>3, <1>4, <2>1 DEF Finish, Again
  <2>2. CASE kind = "must"
    BY <1>2, <1>3, <1>4, <2>2 DEF Finish
  <2>3. CASE kind \in {"opt", "drain", "reg", "cops"}
    BY <1>2, <1>3, <1>4, <2>3 DEF Finish
  <2>4. CASE kind = "poll"
    BY <1>2, <1>3, <1>4, <2>4 DEF Finish, Again
  <2>5. CASE kind = "needle"
    BY <1>2, <1>3, <1>4, <2>5 DEF Finish, Again
  <2>6. CASE kind = "csq"
    BY <1>2, <1>3, <1>4, <2>6 DEF Finish, Again
  <2>7. QED
    BY <2>1, <2>2, <2>3, <2>4, <2>5, <2>6 DEF Finish
<1>7. step = P + 2 /\ o = "ok" => step' = step + 1
  BY <1>2, <1>4 DEF Finish, Onward
<1>8. QED
  BY <1>5, <1>6, <1>7 DEF Follows, g

LEMMA TriesFit ==
  ASSUME step \in 1 .. P + 11, NEW o, Finish(o), Fits(tries, step)
  PROVE  phase' = "ok" \/ Fits(tries', step')
<1> USE AtAssumption
<1>1. 0 \in 0 .. AtTries - 1 /\ 0 \in 0 .. Rounds
  OBVIOUS
<1>2. CASE Onward
  <2>1. CASE kind \in {"poll", "reg"}
    <3>1. step \in {P + 1, P + 5, P + 6} /\ Script[step].kind # "try"
      BY <2>1, KindCases, ScriptIs DEF kind
    <3>2. step' = step + 1 /\ tries' = tries /\ Script[step + 1].kind # "try"
      <4>1. step' = step + 1 /\ tries' = tries
        BY <1>2, <2>1 DEF Onward
      <4>2. step + 1 \in 1 .. P + 11 /\ step + 1 \in {P + 2, P + 6, P + 7}
        BY <3>1, StepCases
      <4>3. Script[step + 1].kind # "try"
        BY <4>2, ScriptIs
      <4>4. QED
        BY <4>1, <4>3
    <3>3. QED
      BY <3>1, <3>2 DEF Fits
  <2>2. CASE kind \notin {"poll", "reg"}
    BY <1>1, <1>2, <2>2 DEF Onward, Fits
  <2>3. QED
    BY <2>1, <2>2
<1>3. CASE Fail
  BY <1>3 DEF Fail
<1>4. CASE kind = "try" /\ Again(step, AtTries - 1)
  BY <1>4 DEF Again, Fits, kind
<1>5. CASE kind = "poll" /\ Again(step, Rounds)
  BY <1>5 DEF Again, Fits, kind
<1>6. CASE kind = "needle" /\ Again(step - 1, Rounds)
  <2>1. step = P + 2
    BY <1>6, KindCases DEF kind
  <2>2. Script[P + 1].kind = "poll" /\ step - 1 = P + 1
    BY <2>1, ScriptIs
  <2>3. QED
    BY <1>6, <2>2 DEF Again, Fits, kind
<1>7. CASE kind = "csq" /\ Again(step - 2, Rounds)
  <2>1. step = P + 7
    BY <1>7, KindCases DEF kind
  <2>2. Script[P + 5].kind = "reg" /\ step - 2 = P + 5
    BY <2>1, ScriptIs
  <2>3. QED
    BY <1>7, <2>2 DEF Again, Fits, kind
<1>8. QED
  BY <1>2, <1>3, <1>4, <1>5, <1>6, <1>7 DEF Finish

-----------------------------------------------------------------------------
(* What is on its way to the reader.                                       *)

Networks == Modem!Networks

\* The pieces that the modem sends.
Items == {p \in Pieces : p.text \in Networks => stat_field(p.fields) \in 0 .. 255}
Commands == [cmd : {Script[i].cmd : i \in DOMAIN Script}, of : Nat]

\* Concatenation, folded: the provers take it for what the lemmas say of it.
Cat(a, b) == a \o b

\* What was received and not yet read.
Stock == Cat(held, rx)

\* Every line has its end.
Lined(s) == \A i \in 1 .. Len(s) : s[i] # LF => i < Len(s) /\ s[i + 1] = LF

IsCut(s, t, k) ==
  k \in 0 .. Len(s) /\ Len(t) = Len(s) - k /\ \A i \in 1 .. Len(t) : t[i] = s[k + i]
IsAdded(s, t, n) ==
  n \in Nat /\ Len(t) = Len(s) + n /\ \A i \in 1 .. Len(s) : t[i] = s[i]

\* The end of the first line.
EndsAt(s, k) == k \in 1 .. Len(s) /\ s[k] = LF /\ \A j \in 1 .. k - 1 : s[j] # LF

SessionShape ==
  /\ held \in Seq(Items) /\ rx \in Seq(Items) /\ Lined(Stock)
  /\ out \in Seq(Commands)
  /\ nsent \in Nat /\ \A j \in 1 .. Len(out) : out[j].of \in 1 .. nsent
  /\ phase \in {"send", "reply", "ok", "failed"}
  /\ step \in 1 .. P + 12 /\ (step = P + 12 <=> phase = "ok")
  /\ phase # "ok" => Fits(tries, step)
  /\ stat \in 0 .. 255 /\ registered \in BOOLEAN
  /\ networks \subseteq Networks /\ told \subseteq Networks
  /\ muxed \in BOOLEAN /\ rebooted \in BOOLEAN /\ urcs \in 0 .. MaxUrcs

LEMMA LfIs ==
  /\ LF \in Items /\ LF.text = "LF" /\ LF.of = 0 /\ LF.fields = <<>>
  /\ Modem!LF = LF /\ Networks = {"+CREG:", "+CGREG:"}
<1>1. /\ LF.text = "LF" /\ LF.of = 0 /\ LF.fields = <<>> /\ Modem!LF = LF
      /\ Networks = {"+CREG:", "+CGREG:"}
  BY DEF LF, Line, Modem!LF, Modem!Line, Networks, Modem!Networks
<1>2. LF \in Pieces
  <2>1. <<>> \in Seq(Nat)
    OBVIOUS
  <2>2. LF = [text |-> "LF", of |-> 0, fields |-> <<>>]
    BY DEF LF, Line
  <2>3. QED
    BY <2>1, <2>2 DEF Pieces, Texts
<1>3. QED
  BY <1>1, <1>2 DEF Items

LEMMA StockIs ==
  ASSUME NEW h \in Seq(Items), NEW r \in Seq(Items)
  PROVE  /\ Cat(h, r) \in Seq(Items) /\ Len(Cat(h, r)) = Len(h) + Len(r)
         /\ \A i \in 1 .. Len(h) : Cat(h, r)[i] = h[i]
         /\ \A i \in 1 .. Len(r) : Cat(h, r)[Len(h) + i] = r[i]
  BY DEF Cat

Joins(a, b, t) ==
  /\ Len(t) = Len(a) + Len(b)
  /\ \A i \in 1 .. Len(a) : t[i] = a[i]
  /\ \A i \in 1 .. Len(b) : t[Len(a) + i] = b[i]

LEMMA CatJoins ==
  \A a, b \in Seq(Items) : Cat(a, b) \in Seq(Items) /\ Joins(a, b, Cat(a, b))
<1> TAKE a, b \in Seq(Items)
<1> QED
  BY StockIs DEF Joins

LEMMA CatAssociates ==
  \A a, b, c \in Seq(Items) : Cat(Cat(a, b), c) = Cat(a, Cat(b, c))
  BY DEF Cat

LEMMA StockType ==
  ASSUME SessionShape
  PROVE  Stock \in Seq(Items)
  BY StockIs DEF SessionShape, Stock

\* Reading moves pieces from the UART to the reader.
LEMMA ReadKeepsStock ==
  ASSUME SessionShape, ReadSome
  PROVE  held' \in Seq(Items) /\ rx' \in Seq(Items) /\ Stock' = Stock
<1>1. PICK k \in 1 .. Len(rx) :
         held' = held \o SubSeq(rx, 1, k) /\ rx' = SubSeq(rx, k + 1, Len(rx))
  BY DEF ReadSome
<1> DEFINE a == SubSeq(rx, 1, k)
           b == SubSeq(rx, k + 1, Len(rx))
<1>2. held \in Seq(Items) /\ rx \in Seq(Items)
  BY DEF SessionShape
<1>3. a \in Seq(Items) /\ b \in Seq(Items) /\ Cat(a, b) = rx
  <2>1. 1 \in 1 .. Len(rx) + 1 /\ k \in 1 - 1 .. Len(rx) /\ Len(rx) \in k .. Len(rx)
    BY <1>2
  <2>2. a \o b = SubSeq(rx, 1, Len(rx))
    BY <1>2, <2>1, ConcatAdjacentSubSeq
  <2>3. QED
    BY <1>2, <2>2, SubSeqFull DEF Cat
<1>4. held' = Cat(held, a) /\ rx' = b
  BY <1>1 DEF Cat
<1> HIDE DEF a, b
<1>5. Cat(Cat(held, a), b) = Cat(held, Cat(a, b)) /\ Cat(held, a) \in Seq(Items)
  BY <1>2, <1>3, CatAssociates, StockIs
<1>6. QED
  BY <1>2, <1>3, <1>4, <1>5 DEF Stock

LEMMA LineIs ==
  ASSUME SessionShape, HasLine
  PROVE  \E k : /\ EndsAt(Stock, k)
                /\ after \in Seq(Items) /\ IsCut(Stock, Cat(after, rx), k)
                /\ \/ k = 1 /\ line.text \notin Texts
                   \/ k = 2 /\ line = Stock[1] /\ Stock[1] # LF
<1>1. held \in Seq(Items) /\ rx \in Seq(Items) /\ Lined(Stock)
  BY DEF SessionShape
<1> DEFINE I == {i \in 1 .. Len(held) : held[i] = LF}
           k == IF held[1] = LF THEN 1 ELSE 2
<1>2. PICK n \in I : TRUE
  BY DEF HasLine, ToSet
<1>3. /\ Len(Stock) = Len(held) + Len(rx)
      /\ \A i \in 1 .. Len(held) : Stock[i] = held[i]
      /\ \A i \in 1 .. Len(rx) : Stock[Len(held) + i] = rx[i]
  BY <1>1, StockIs DEF Stock
<1>4. k \in I /\ \A i \in I : k <= i
  <2>1. CASE held[1] = LF
    BY <1>1, <1>2, <2>1
  <2>2. CASE held[1] # LF
    <3>1. n \in 1 .. Len(held) /\ n # 1
      BY <1>2, <2>2
    <3>2. Stock[1] # LF /\ 1 \in 1 .. Len(Stock) /\ 2 \in 1 .. Len(held)
      BY <1>1, <1>3, <2>2, <3>1
    <3>3. Stock[1 + 1] = LF /\ 1 + 1 = 2
      BY <1>1, <3>2 DEF Lined
    <3>4. held[2] = LF
      BY <1>3, <3>2, <3>3
    <3>5. QED
      BY <1>1, <2>2, <3>2, <3>4
  <2>3. QED
    BY <2>1, <2>2
<1>5. Min({i \in DOMAIN held : held[i] = LF}) = k
  <2>1. {i \in DOMAIN held : held[i] = LF} = I
    BY <1>1
  <2>2. k \in I /\ \A i \in I : i \in Int
    BY <1>4
  <2> HIDE DEF I, k
  <2>3. QED
    BY <1>4, <2>1, <2>2 DEF Min
<1>6. /\ k \in 1 .. Len(held) /\ held[k] = LF /\ \A i \in 1 .. k - 1 : held[i] # LF
      /\ k = 1 \/ k = 2
  BY <1>1, <1>4
<1> HIDE DEF I, k
<1> DEFINE a == SubSeq(held, k + 1, Len(held))
<1>7. after = a
  BY <1>5, Zenon DEF after
<1>8. /\ a \in Seq(Items) /\ Len(a) = Len(held) - k
      /\ \A i \in 1 .. Len(a) : a[i] = held[k + i]
  BY <1>1, <1>6
<1> HIDE DEF a
<1> DEFINE t == Cat(a, rx)
<1>9. /\ Len(t) = Len(a) + Len(rx)
      /\ \A i \in 1 .. Len(a) : t[i] = a[i]
      /\ \A i \in 1 .. Len(rx) : t[Len(a) + i] = rx[i]
  BY <1>1, <1>8, StockIs
<1> HIDE DEF t
<1>10. IsCut(Stock, t, k)
  <2>1. k \in 0 .. Len(Stock) /\ Len(t) = Len(Stock) - k
    BY <1>1, <1>6, <1>8, <1>3, <1>9
  <2>2. ASSUME NEW i \in 1 .. Len(t) PROVE t[i] = Stock[k + i]
    <3>1. CASE i <= Len(a)
      <4>1. i \in 1 .. Len(a) /\ k + i \in 1 .. Len(held)
        BY <1>1, <1>6, <1>8, <1>9, <3>1
      <4>2. QED
        BY <1>8, <1>3, <1>9, <4>1
    <3>2. CASE i > Len(a)
      <4> DEFINE j == i - Len(a)
      <4>1. /\ j \in 1 .. Len(rx) /\ Len(a) + j = i /\ k + i = Len(held) + j
        BY <1>1, <1>6, <1>8, <1>9, <3>2
      <4> HIDE DEF j
      <4>2. QED
        BY <1>3, <1>9, <4>1
    <3>3. QED
      BY <1>8, <3>1, <3>2
  <2>3. QED
    BY <2>1, <2>2 DEF IsCut
<1>11. EndsAt(Stock, k)
  BY <1>1, <1>3, <1>6 DEF EndsAt
<1>12. \/ k = 1 /\ line.text \notin Texts
       \/ k = 2 /\ line = Stock[1] /\ Stock[1] # LF
  <2>1. Head(held) = held[1] /\ 1 \in 1 .. Len(held) /\ Stock[1] = held[1]
    BY <1>1, <1>3, <1>6
  <2>2. CASE k = 1
    <3>1. line = Line("", 0, <<>>)
      BY <1>6, <2>1, <2>2 DEF line
    <3>2. line.text \notin Texts
      BY <3>1, Zenon DEF Line, Texts
    <3>3. QED
      BY <2>2, <3>2
  <2>3. CASE k = 2
    <3>1. 1 \in 1 .. k - 1
      BY <1>6, <2>3
    <3>2. QED
      BY <1>6, <2>1, <2>3, <3>1 DEF line
  <2>4. QED
    BY <1>6, <2>2, <2>3
<1>13. QED
  BY <1>7, <1>8, <1>10, <1>11, <1>12 DEF t

-----------------------------------------------------------------------------
(* What the steps do.                                                      *)

SameModem == UNCHANGED <<networks, muxed, rebooted, urcs>>
HostKeeps == out' = out /\ nsent' = nsent /\ told' = told /\ SameModem
Quiet == UNCHANGED <<phase, step, tries, registered>>
Shortens == \E k : IsCut(Stock, Stock', k)
Ends(o) ==
  /\ step \in 1 .. P + 11
  /\ Follows(o, is_registered(stat'))
  /\ phase' = "ok" \/ Fits(tries', step')

Sends ==
  /\ phase = "send" /\ step \in 1 .. P + 11 /\ step # P + 4
  /\ phase' = "reply" /\ stat' = NoStat
  /\ out' = Append(out, [cmd |-> Script[step].cmd, of |-> nsent + 1])
  /\ nsent' = nsent + 1
  /\ held' = held /\ rx' = rx
  /\ UNCHANGED <<step, tries, registered>> /\ SameModem
  /\ told' = IF step = P + 5 THEN {} ELSE told
Moves ==
  Quiet /\ stat' = stat /\ HostKeeps /\ Shortens /\ (step = P + 4 \/ Stock' = Stock)

Hears(k) ==
  /\ phase = "reply" /\ step \in 1 .. P + 11 /\ HostKeeps
  /\ EndsAt(Stock, k) /\ IsCut(Stock, Stock', k)
  /\ \/ k = 1 /\ line.text \notin Texts
     \/ k = 2 /\ line = Stock[1] /\ Stock[1] # LF
  /\ stat' = IF has_prefix THEN stat_field(line.fields) ELSE stat
  /\ \/ verdict = "more" /\ Quiet
     \/ verdict \in {"ok", "none", "err"} /\ Ends(verdict)
Fails == phase \in {"send", "reply"} /\ stat' = stat /\ HostKeeps /\ Shortens /\ Ends("err")
Drained ==
  /\ phase = "send" /\ step = P + 4 /\ stat' = stat /\ HostKeeps
  /\ Len(Stock') = 0 /\ Ends("ok")

\* What the modem appends ends with the line l.
Says(n, l) ==
  /\ ~muxed /\ IsAdded(Stock, Stock', n)
  /\ Stock'[Len(Stock) + n] = LF /\ Stock'[Len(Stock) + n - 1] = l
  /\ l \in Items
ModemKeeps == Quiet /\ stat' = stat /\ nsent' = nsent /\ held' = held
Finals(c, v) ==
  /\ Says(2, Line(v, c.of, <<>>)) /\ told' = told /\ urcs' = urcs
  /\ LET did(d) == c.cmd = d /\ v = "OK"
     IN  /\ out' = IF did("AT+CFUN=1") THEN <<>> ELSE Tail(out)
         /\ networks' = IF did("AT+CFUN=1") THEN {} ELSE networks
         /\ rebooted' = (rebooted \/ did("AT+CFUN=1"))
         /\ muxed' = did("AT+CMUX=0")
\* A line of information is one that query_reg() can read.
Informative(t, f) == t \in Texts /\ f \in Seq(Nat) /\ (t \in Networks => stat_field(f) \in 0 .. 255)
Tells(c, t, f) ==
  /\ t = "READY" => c = "AT+CPIN?"
  /\ t = "+CREG:" => c = "AT+CREG?"
  /\ t = "+CGREG:" => c = "AT+CGREG?"
  /\ t \notin {"OK", "ERROR", "LF"}
  /\ t \in Networks => (is_registered(stat_field(f)) <=> t \in networks)
Informs(c, text, fields) ==
  /\ Tells(c.cmd, text, fields)
  /\ Says(4, Line("OK", c.of, <<>>)) /\ c.cmd \in Modem!Queries
  /\ Stock'[Len(Stock) + 1] = Line(text, c.of, fields) /\ Stock'[Len(Stock) + 2] = LF
  /\ out' = Tail(out) /\ SameModem
  /\ told' = told \cup (networks \cap {text})
Ignores ==
  /\ Stock' = Stock /\ out' = Tail(out) /\ SameModem /\ told' = told
Answers ==
  /\ ModemKeeps /\ out # <<>> /\ rx' \in Seq(Items)
  /\ \/ \E v \in {"OK", "ERROR"} : Finals(Head(out), v)
     \/ \E t \in Texts, f \in Seq(Nat) : Informs(Head(out), t, f)
     \/ Ignores
Reports ==
  /\ ModemKeeps /\ rx' \in Seq(Items) /\ out' = out /\ told' = told
  /\ muxed' = muxed /\ rebooted' = rebooted
  /\ \/ /\ networks' = networks /\ urcs' \in 0 .. MaxUrcs
        /\ \E l \in Modem!Urcs : Says(2, l)
     \/ /\ Stock' = Stock /\ urcs' = urcs
        /\ networks \subseteq networks' /\ networks' \subseteq Networks

LEMMA VerdictIs ==
  /\ verdict \in {"ok", "none", "err", "more"}
  /\ line.text = "OK" => verdict \in {"ok", "none"}
  /\ verdict = "none" => line.text = "OK"
  /\ verdict = "err" => line.text = "ERROR"
  /\ verdict = "ok" => line.text = "OK" \/ (kind = "needle" /\ line.text = "READY")
  /\ kind = "needle" /\ verdict = "ok" => line.text = "READY"
  /\ line.text = "ERROR" /\ verdict = "more" => kind \in {"needle", "csq", "cops"}
  /\ kind = "reg" /\ line.text = "OK" => (verdict = "ok" <=> stat # NoStat)
  BY DEF verdict

LEMMA CutSame ==
  ASSUME SessionShape
  PROVE  IsCut(Stock, Stock, 0)
  BY StockType DEF IsCut

LEMMA PrefixIs ==
  ASSUME step \in 1 .. P + 11, has_prefix
  PROVE  kind = "reg" /\ line.text \in Networks
<1>1. step \in {P + 5, P + 6}
  BY ScriptIs DEF has_prefix, cmd
<1>2. QED
  BY <1>1, ScriptIs, LfIs DEF has_prefix, kind

LEMMA InScript ==
  ASSUME SessionShape, phase \in {"send", "reply"}
  PROVE  step \in 1 .. P + 11
  BY StepCases DEF SessionShape

LEMMA EndsIs ==
  ASSUME SessionShape, phase \in {"send", "reply"}, NEW o \in {"ok", "none", "err"}, Finish(o)
  PROVE  Ends(o)
<1>1. step \in 1 .. P + 11 /\ registered \in BOOLEAN /\ Fits(tries, step)
  BY StepCases DEF SessionShape
<1>2. Follows(o, is_registered(stat'))
  BY <1>1, FinishIs
<1>3. phase' = "ok" \/ Fits(tries', step')
  BY <1>1, TriesFit
<1>4. QED
  BY <1>1, <1>2, <1>3 DEF Ends

LEMMA SendIs ==
  ASSUME SessionShape, HostSend
  PROVE  Sends
<1>1. phase = "send" /\ kind # "drain" /\ step \in 1 .. P + 11
  BY StepCases DEF HostSend, Send, SessionShape
<1>2. step # P + 4 /\ (cmd = "AT+CREG?" <=> step = P + 5)
  BY <1>1, KindCases, ScriptIs DEF kind, cmd
<1>3. QED
  BY <1>1, <1>2 DEF HostSend, Send, Sends, cmd, SameModem, modemVars

LEMMA ReadIs ==
  ASSUME SessionShape, Read, SameModem, told' = told
  PROVE  Moves /\ held' \in Seq(Items) /\ rx' \in Seq(Items) /\ Stock' = Stock
<1>1. held' \in Seq(Items) /\ rx' \in Seq(Items) /\ Stock' = Stock
  BY ReadKeepsStock DEF Read
<1>2. Shortens
  BY <1>1, CutSame DEF Shortens
<1>3. QED
  BY <1>1, <1>2 DEF Moves, Read, Quiet, HostKeeps

LEMMA ReadLineIs ==
  ASSUME SessionShape, ReadLine, SameModem, told' = told
  PROVE  /\ held' \in Seq(Items) /\ rx' \in Seq(Items) /\ HasLine
         /\ \E k : Hears(k)
<1>1. phase = "reply" /\ HasLine /\ held' = after /\ rx' = rx /\ out' = out /\ nsent' = nsent
  BY DEF ReadLine
<1>2. PICK k : /\ EndsAt(Stock, k)
               /\ after \in Seq(Items) /\ IsCut(Stock, Cat(after, rx), k)
               /\ \/ k = 1 /\ line.text \notin Texts
                  \/ k = 2 /\ line = Stock[1] /\ Stock[1] # LF
  BY <1>1, LineIs
<1>3. Stock' = Cat(after, rx) /\ held' \in Seq(Items) /\ rx' \in Seq(Items)
  BY <1>1, <1>2 DEF Stock, SessionShape
<1>4. step \in 1 .. P + 11
  BY <1>1, StepCases DEF SessionShape
<1>5. stat' = IF has_prefix THEN stat_field(line.fields) ELSE stat
  BY <1>4, PrefixIs DEF ReadLine
<1>6. \/ verdict = "more" /\ Quiet
      \/ verdict \in {"ok", "none", "err"} /\ Ends(verdict)
  <2>1. CASE verdict = "more"
    BY <2>1 DEF ReadLine, Quiet
  <2>2. CASE verdict # "more"
    <3>1. verdict \in {"ok", "none", "err"} /\ Finish(verdict)
      BY <2>2, VerdictIs DEF ReadLine
    <3>2. QED
      BY <1>1, <3>1, EndsIs
  <2>3. QED
    BY <2>1, <2>2
<1>7. HostKeeps
  BY <1>1 DEF HostKeeps
<1>8. Hears(k)
  BY <1>1, <1>2, <1>3, <1>4, <1>5, <1>6, <1>7 DEF Hears
<1>9. QED
  BY <1>1, <1>3, <1>8

\* The reader gives up with an empty line buffer.
LEMMA LeavesRx ==
  ASSUME SessionShape, held' = <<>>, rx' = rx
  PROVE  Shortens /\ held' \in Seq(Items) /\ rx' \in Seq(Items)
<1>1. held \in Seq(Items) /\ rx \in Seq(Items) /\ <<>> \in Seq(Items)
  BY DEF SessionShape
<1>2. /\ Len(Stock) = Len(held) + Len(rx)
      /\ \A i \in 1 .. Len(rx) : Stock[Len(held) + i] = rx[i]
  BY <1>1, StockIs DEF Stock
<1>3. Stock' = rx
  BY <1>1 DEF Stock, Cat
<1>4. IsCut(Stock, rx, Len(held))
  BY <1>1, <1>2 DEF IsCut
<1>5. QED
  BY <1>1, <1>3, <1>4 DEF Shortens

LEMMA TimeoutIs ==
  ASSUME SessionShape, Timeout, SameModem, told' = told
  PROVE  /\ Fails /\ phase = "reply" /\ held' \in Seq(Items) /\ rx' \in Seq(Items)
         /\ \A i \in 1 .. Len(Stock) : Stock[i] # LF
         /\ Len(Stock') = 0
<1>1. /\ phase = "reply" /\ ~HasLine /\ rx = <<>> /\ held' = <<>> /\ rx' = rx
      /\ stat' = stat /\ out' = out /\ nsent' = nsent /\ Finish("err")
  BY DEF Timeout, Cancel
<1>2. Shortens /\ held' \in Seq(Items) /\ rx' \in Seq(Items)
  BY <1>1, LeavesRx
<1>3. Ends("err")
  BY <1>1, EndsIs
<1>4. Stock = held /\ held \in Seq(Items)
  BY <1>1 DEF Stock, Cat, SessionShape
<1>5. \A i \in 1 .. Len(Stock) : Stock[i] # LF
  BY <1>1, <1>4 DEF HasLine, ToSet
<1>6. Stock' = <<>>
  BY <1>1 DEF Stock, Cat
<1>7. QED
  BY <1>1, <1>2, <1>3, <1>5, <1>6 DEF Fails, HostKeeps

LEMMA ErrorIs ==
  ASSUME SessionShape, IoError, SameModem, told' = told
  PROVE  Fails /\ held' \in Seq(Items) /\ rx' \in Seq(Items)
<1>1. /\ phase \in {"send", "reply"} /\ rx' = rx /\ stat' = stat /\ out' = out /\ nsent' = nsent
      /\ Finish("err")
  BY DEF IoError
<1>2. held' = <<>> \/ held' = held \/ (HasLine /\ held' = after)
  BY DEF IoError
<1>3. Shortens /\ held' \in Seq(Items) /\ rx' \in Seq(Items)
  <2>1. CASE held' = <<>>
    BY <1>1, <2>1, LeavesRx
  <2>2. CASE held' = held
    <3>1. Stock' = Stock
      BY <1>1, <2>2 DEF Stock
    <3>2. QED
      BY <1>1, <2>2, <3>1, CutSame DEF Shortens, SessionShape
  <2>3. CASE HasLine /\ held' = after
    <3>1. Stock' = Cat(after, rx)
      BY <1>1, <2>3 DEF Stock
    <3>2. \E k : after \in Seq(Items) /\ IsCut(Stock, Cat(after, rx), k)
      BY <2>3, LineIs
    <3>3. QED
      BY <1>1, <2>3, <3>1, <3>2 DEF Shortens, SessionShape
  <2>4. QED
    BY <1>2, <2>1, <2>2, <2>3
<1>4. Ends("err")
  BY <1>1, EndsIs
<1>5. QED
  BY <1>1, <1>3, <1>4 DEF Fails, HostKeeps

LEMMA DrainIs ==
  ASSUME SessionShape, drain, SameModem, told' = told
  PROVE  /\ held' \in Seq(Items) /\ rx' \in Seq(Items) /\ Len(Stock') = 0
         /\ (rx # <<>> /\ Moves) \/ (rx = <<>> /\ Drained)
<1>1. /\ phase = "send" /\ kind = "drain" /\ rx' = <<>> /\ held' = <<>>
      /\ out' = out /\ nsent' = nsent /\ stat' = stat
  BY DEF drain, drain_some
<1>2. step = P + 4
  BY <1>1, InScript, KindCases DEF kind
<1>3. Stock' = <<>> /\ <<>> \in Seq(Items)
  BY <1>1 DEF Stock, Cat
<1>4. Shortens
  <2>1. IsCut(Stock, <<>>, Len(Stock))
    BY StockType DEF IsCut
  <2>2. QED
    BY <1>3, <2>1 DEF Shortens
<1>5. HostKeeps
  BY <1>1 DEF HostKeeps
<1>6. CASE rx # <<>>
  <2>1. Quiet
    BY <1>6 DEF drain, drain_some, Quiet
  <2>2. QED
    BY <1>1, <1>2, <1>3, <1>4, <1>5, <1>6, <2>1 DEF Moves
<1>7. CASE rx = <<>>
  <2>1. Finish("ok")
    BY <1>7 DEF drain, drain_some
  <2>2. Ends("ok")
    BY <1>1, <2>1, EndsIs
  <2>3. QED
    BY <1>1, <1>2, <1>3, <1>5, <1>7, <2>2 DEF Drained
<1>8. QED
  BY <1>6, <1>7

LEMMA SaysIs ==
  ASSUME SessionShape, held' = held, NEW l, l \in Items, rx' = Cat(rx, <<l, LF>>), ~muxed
  PROVE  rx' \in Seq(Items) /\ Says(2, l)
<1> DEFINE x == <<l, LF>>
<1>1. x \in Seq(Items) /\ Len(x) = 2 /\ x[1] = l /\ x[2] = LF
  BY LfIs
<1> HIDE DEF x
<1>2. held \in Seq(Items) /\ rx \in Seq(Items)
  BY DEF SessionShape
<1>3. rx' = Cat(rx, x) /\ rx' \in Seq(Items)
  BY <1>1, <1>2, StockIs DEF x
<1>4. Stock' = Cat(Stock, x) /\ Stock \in Seq(Items)
  BY <1>1, <1>2, <1>3, CatAssociates, StockIs DEF Stock
<1> DEFINE t == Stock'
           w == Stock
<1>5. /\ Len(t) = Len(w) + 2 /\ \A i \in 1 .. Len(w) : t[i] = w[i]
      /\ t[Len(w) + 1] = l /\ t[Len(w) + 2] = LF
  <2>1. Joins(w, x, t)
    BY <1>1, <1>4, CatJoins
  <2> HIDE DEF t, w
  <2>2. QED
    BY <1>1, <2>1 DEF Joins
<1>6. Len(w) \in Nat
  BY <1>4
<1> HIDE DEF t, w
<1>7. IsAdded(w, t, 2) /\ t[Len(w) + 2 - 1] = l
  BY <1>5, <1>6 DEF IsAdded
<1>8. QED
  BY <1>3, <1>5, <1>7 DEF Says, t, w

LEMMA SaysTwo ==
  ASSUME SessionShape, held' = held, NEW a, NEW b, a \in Items, b \in Items,
         rx' = Cat(rx, Cat(<<a, LF>>, <<b, LF>>)), ~muxed
  PROVE  /\ rx' \in Seq(Items) /\ Says(4, b)
         /\ Stock'[Len(Stock) + 1] = a /\ Stock'[Len(Stock) + 2] = LF
<1> DEFINE y == <<a, LF>>
           z == <<b, LF>>
           x == Cat(y, z)
<1>1. /\ y \in Seq(Items) /\ Len(y) = 2 /\ y[1] = a /\ y[2] = LF
      /\ z \in Seq(Items) /\ Len(z) = 2 /\ z[1] = b /\ z[2] = LF
  BY LfIs
<1>0. rx' = Cat(rx, Cat(y, z))
  OBVIOUS
<1> HIDE DEF y, z
<1>2. x \in Seq(Items) /\ Len(x) = 4 /\ x[1] = a /\ x[2] = LF /\ x[3] = b /\ x[4] = LF
  <2>1. /\ x \in Seq(Items) /\ Len(x) = 4 /\ \A i \in 1 .. 2 : x[i] = y[i]
        /\ \A i \in 1 .. 2 : x[2 + i] = z[i]
    <3>1. x \in Seq(Items) /\ Joins(y, z, x)
      BY <1>1, CatJoins
    <3> HIDE DEF x
    <3>2. QED
      BY <1>1, <3>1 DEF Joins
  <2> HIDE DEF x
  <2>2. x[2 + 1] = z[1] /\ x[2 + 2] = z[2] /\ 2 + 1 = 3 /\ 2 + 2 = 4
    BY <2>1
  <2>3. QED
    BY <1>1, <2>1, <2>2
<1>3. rx' = Cat(rx, x)
  BY <1>0
<1> HIDE DEF x
<1>4. held \in Seq(Items) /\ rx \in Seq(Items)
  BY DEF SessionShape
<1>5. rx' \in Seq(Items)
  BY <1>2, <1>3, <1>4, StockIs
<1>6. Stock' = Cat(Stock, x) /\ Stock \in Seq(Items)
  BY <1>2, <1>3, <1>4, CatAssociates, StockIs DEF Stock
<1> DEFINE t == Stock'
           w == Stock
<1>7. /\ Len(t) = Len(w) + 4 /\ \A i \in 1 .. Len(w) : t[i] = w[i]
      /\ \A i \in 1 .. 4 : t[Len(w) + i] = x[i]
  <2>1. Joins(w, x, t)
    BY <1>2, <1>6, CatJoins
  <2> HIDE DEF t, w
  <2>2. QED
    BY <1>2, <2>1 DEF Joins
<1>8. Len(w) \in Nat
  BY <1>6
<1> HIDE DEF t, w
<1>9. /\ t[Len(w) + 1] = x[1] /\ t[Len(w) + 2] = x[2]
      /\ t[Len(w) + 3] = x[3] /\ t[Len(w) + 4] = x[4]
  BY <1>7
<1>10. IsAdded(w, t, 4) /\ Len(w) + 4 - 1 = Len(w) + 3
  BY <1>7, <1>8 DEF IsAdded
<1>11. QED
  BY <1>2, <1>5, <1>9, <1>10 DEF Says, t, w

LEMMA HeadIs ==
  ASSUME SessionShape, out # <<>>
  PROVE  /\ Head(out) = out[1] /\ Head(out) \in Commands
         /\ Tail(out) \in Seq(Commands) /\ Len(Tail(out)) = Len(out) - 1
         /\ \A j \in 1 .. Len(Tail(out)) : Tail(out)[j] = out[j + 1]
  BY DEF SessionShape

LEMMA FinalType ==
  ASSUME NEW c \in Commands, NEW v \in {"OK", "ERROR"}
  PROVE  Line(v, c.of, <<>>) \in Items
<1> DEFINE l == Line(v, c.of, <<>>)
<1>1. c.of \in Nat /\ <<>> \in Seq(Nat)
  BY DEF Commands
<1>2. l \in Pieces /\ l.text \notin Networks
  BY <1>1, LfIs DEF Line, Pieces, Texts
<1> HIDE DEF l
<1>3. l \in Items
  BY <1>2 DEF Items
<1>4. QED
  BY <1>3 DEF l

LEMMA FinalIs ==
  ASSUME SessionShape, out # <<>>, ~muxed, held' = held,
         NEW v \in {"OK", "ERROR"}, rx' = rx \o Modem!Final(Head(out), v)
  PROVE  /\ rx' \in Seq(Items) /\ Says(2, Line(v, Head(out).of, <<>>))
         /\ told \cup (networks \cap {rx'[i].text : i \in Len(rx) + 1 .. Len(rx')}) = told
<1> DEFINE l == Line(v, Head(out).of, <<>>)
<1>1. l \in Items /\ l.text = v
  BY HeadIs, FinalType DEF Line
<1>2. Modem!Final(Head(out), v) = <<l, LF>>
  BY LfIs DEF Modem!Final, Modem!Line, Line
<1> HIDE DEF l
<1>3. rx' = Cat(rx, <<l, LF>>)
  BY <1>2 DEF Cat
<1>4. rx' \in Seq(Items) /\ Says(2, l)
  BY <1>1, <1>3, SaysIs
<1>5. rx \in Seq(Items) /\ networks \subseteq Networks
  BY DEF SessionShape
<1>6. Len(rx') = Len(rx) + 2 /\ rx'[Len(rx) + 1] = l /\ rx'[Len(rx) + 2] = LF
  BY <1>1, <1>3, <1>5, LfIs DEF Cat
<1>7. \A i \in Len(rx) + 1 .. Len(rx') : rx'[i].text \in {v, "LF"}
  BY <1>1, <1>5, <1>6, LfIs
<1>8. networks \cap {rx'[i].text : i \in Len(rx) + 1 .. Len(rx')} = {}
  BY <1>5, <1>7, LfIs
<1>9. QED
  BY <1>4, <1>8 DEF l

LEMMA InformType ==
  ASSUME NEW n \in Nat, NEW t, NEW f, Informative(t, f)
  PROVE  Line(t, n, f) \in Items
<1> DEFINE l == Line(t, n, f)
<1>1. l \in Pieces /\ l.text = t /\ l.fields = f
  BY DEF Line, Pieces, Informative
<1> HIDE DEF l
<1>2. l \in Items
  BY <1>1 DEF Items, Informative
<1>3. QED
  BY <1>2 DEF l

LEMMA InformIs ==
  ASSUME SessionShape, held' = held, NEW c, NEW t, NEW f, Informative(t, f), Tells(c, t, f),
         Modem!Inform(c, t, f), c \in Modem!Queries,
         told' = told \cup (networks \cap {rx'[i].text : i \in Len(rx) + 1 .. Len(rx')})
  PROVE  out # <<>> /\ rx' \in Seq(Items) /\ Informs(Head(out), t, f)
<1> DEFINE h == Head(out)
           a == Line(t, h.of, f)
           b == Line("OK", h.of, <<>>)
<1>1. /\ out # <<>> /\ ~muxed /\ h.cmd = c /\ out' = Tail(out) /\ SameModem
      /\ rx' = rx \o (<< Modem!Line(t, h.of, f), Modem!LF >> \o Modem!Final(h, "OK"))
  BY DEF Modem!Inform, Modem!Answer, SameModem
<1>0. t # "LF" /\ t # "OK"
  BY DEF Tells
<1>2. h \in Commands /\ h.of \in Nat
  BY <1>1, HeadIs DEF Commands
<1>3. a \in Items /\ a.text = t /\ b \in Items /\ b.text = "OK"
  <2>1. a \in Items
    BY <1>2, InformType
  <2>2. b \in Items
    BY <1>2, FinalType
  <2>3. QED
    BY <2>1, <2>2 DEF Line
<1>4. << Modem!Line(t, h.of, f), Modem!LF >> = <<a, LF>> /\ Modem!Final(h, "OK") = <<b, LF>>
  BY LfIs DEF Modem!Final, Modem!Line, Line
<1>5. rx' = Cat(rx, Cat(<<a, LF>>, <<b, LF>>))
  BY <1>1, <1>4 DEF Cat
<1>6. /\ rx' \in Seq(Items) /\ Says(4, b)
      /\ Stock'[Len(Stock) + 1] = a /\ Stock'[Len(Stock) + 2] = LF
  <2> HIDE DEF a, b
  <2>1. QED
    BY <1>1, <1>3, <1>5, SaysTwo
<1>7. told' = told \cup (networks \cap {t})
  <2>1. rx \in Seq(Items) /\ networks \subseteq Networks
    BY DEF SessionShape
  <2> HIDE DEF a, b
  <2> DEFINE q == rx'
             n == Len(rx)
  <2>2. Len(q) = n + 4 /\ q[n + 1] = a /\ q[n + 2] = LF /\ q[n + 3] = b /\ q[n + 4] = LF
    BY <1>3, <1>5, <2>1, LfIs DEF Cat
  <2>3. n \in Nat
    BY <2>1
  <2> HIDE DEF q, n
  <2>4. n + 1 \in n + 1 .. Len(q) /\ \A i \in n + 1 .. Len(q) : q[i].text \in {t, "LF", "OK"}
    BY <1>0, <1>3, <2>2, <2>3, LfIs
  <2>5. networks \cap {q[i].text : i \in n + 1 .. Len(q)} = networks \cap {t}
    BY <1>3, <2>1, <2>2, <2>4, LfIs
  <2>6. QED
    BY <2>5 DEF q, n
<1>8. QED
  BY <1>1, <1>6, <1>7 DEF Informs, Tells

LEMMA QueriesTell ==
  /\ Informative("READY", <<>>) /\ Tells("AT+CPIN?", "READY", <<>>)
  /\ Informative("+CREG:", <<2, Modem!stat_of("+CREG:")>>)
  /\ Tells("AT+CREG?", "+CREG:", <<2, Modem!stat_of("+CREG:")>>)
  /\ Informative("+CGREG:", <<0, Modem!stat_of("+CGREG:")>>)
  /\ Tells("AT+CGREG?", "+CGREG:", <<0, Modem!stat_of("+CGREG:")>>)
  /\ Informative("+CSQ:", <<18, 0>>) /\ Tells("AT+CSQ", "+CSQ:", <<18, 0>>)
  /\ Informative("+COPS:", <<0, 0>>) /\ Tells("AT+COPS?", "+COPS:", <<0, 0>>)
<1> USE LfIs DEF Informative, Tells, Texts
<1>1. \A x, y \in Nat : <<x, y>> \in Seq(Nat) /\ stat_field(<<x, y>>) = y
  BY DEF stat_field
<1>2. \A n \in Networks : /\ Modem!stat_of(n) \in Nat /\ Modem!stat_of(n) \in 0 .. 255
                          /\ is_registered(Modem!stat_of(n)) <=> n \in networks
  BY DEF Modem!stat_of, is_registered
<1>3. <<>> \in Seq(Nat)
  OBVIOUS
<1>4. Informative("READY", <<>>) /\ Tells("AT+CPIN?", "READY", <<>>)
  BY <1>3
<1>5. Informative("+CSQ:", <<18, 0>>) /\ Tells("AT+CSQ", "+CSQ:", <<18, 0>>)
  BY <1>1
<1>6. Informative("+COPS:", <<0, 0>>) /\ Tells("AT+COPS?", "+COPS:", <<0, 0>>)
  BY <1>1
<1>7. \A n \in Networks : \A x \in Nat :
        /\ Informative(n, <<x, Modem!stat_of(n)>>)
        /\ is_registered(stat_field(<<x, Modem!stat_of(n)>>)) <=> n \in networks
  <2> TAKE n \in Networks
  <2> TAKE x \in Nat
  <2> DEFINE f == <<x, Modem!stat_of(n)>>
  <2>1. f \in Seq(Nat) /\ stat_field(f) = Modem!stat_of(n)
    BY <1>1, <1>2
  <2> HIDE DEF f
  <2>2. /\ Informative(n, f)
        /\ is_registered(stat_field(f)) <=> n \in networks
    BY <1>2, <2>1
  <2>3. QED
    BY <2>2 DEF f
<1>8. QED
  <2>1. "+CREG:" \in Networks /\ "+CGREG:" \in Networks /\ 0 \in Nat /\ 2 \in Nat
    OBVIOUS
  <2> DEFINE f == <<2, Modem!stat_of("+CREG:")>>
             g == <<0, Modem!stat_of("+CGREG:")>>
  <2>2. /\ Informative("+CREG:", f)
        /\ (is_registered(stat_field(f)) <=> "+CREG:" \in networks)
    BY <1>7, <2>1
  <2>3. /\ Informative("+CGREG:", g)
        /\ (is_registered(stat_field(g)) <=> "+CGREG:" \in networks)
    BY <1>7, <2>1
  <2> HIDE DEF f, g
  <2>4. Tells("AT+CREG?", "+CREG:", f) /\ Tells("AT+CGREG?", "+CGREG:", g)
    BY <2>2, <2>3
  <2> HIDE DEF Informative, Tells, Texts
  <2>5. QED
    BY <1>4, <1>5, <1>6, <2>2, <2>3, <2>4 DEF f, g

LEMMA AnswerIs ==
  ASSUME SessionShape, ModemAnswer
  PROVE  Answers
<1> DEFINE new == {rx'[i].text : i \in Len(rx) + 1 .. Len(rx')}
<1>1. /\ Modem!Execute \/ Modem!Query \/ Modem!SimNotReady \/ Modem!Ignore
      /\ told' = told \cup (networks \cap new)
      /\ Quiet /\ stat' = stat /\ nsent' = nsent
  BY DEF ModemAnswer, Quiet
<1> HIDE DEF new
<1>2. ASSUME Modem!Execute PROVE Answers
  <2>1. PICK v \in {"OK", "ERROR"} :
          LET did(c) == Head(out).cmd = c /\ v = "OK"
          IN  /\ ~muxed /\ out # <<>> /\ held' = held /\ urcs' = urcs
              /\ rx' = rx \o Modem!Final(Head(out), v)
              /\ out' = IF did("AT+CFUN=1") THEN <<>> ELSE Tail(out)
              /\ networks' = IF did("AT+CFUN=1") THEN {} ELSE networks
              /\ rebooted' = (rebooted \/ did("AT+CFUN=1"))
              /\ muxed' = did("AT+CMUX=0")
    BY <1>2 DEF Modem!Execute, Modem!Answer
  <2>2. /\ rx' \in Seq(Items) /\ Says(2, Line(v, Head(out).of, <<>>))
        /\ told' = told
    BY <1>1, <2>1, FinalIs DEF new
  <2>3. Finals(Head(out), v)
    BY <2>1, <2>2 DEF Finals
  <2>4. QED
    BY <1>1, <2>1, <2>2, <2>3 DEF Answers, ModemKeeps
<1>3. ASSUME Modem!SimNotReady PROVE Answers
  <2>1. /\ ~muxed /\ out # <<>> /\ held' = held /\ urcs' = urcs
        /\ rx' = rx \o Modem!Final(Head(out), "ERROR")
        /\ out' = Tail(out) /\ networks' = networks /\ rebooted' = rebooted /\ muxed' = muxed
    BY <1>3 DEF Modem!SimNotReady, Modem!Answer
  <2>2. /\ rx' \in Seq(Items) /\ Says(2, Line("ERROR", Head(out).of, <<>>))
        /\ told' = told
    BY <1>1, <2>1, FinalIs DEF new
  <2>3. muxed \in BOOLEAN /\ rebooted \in BOOLEAN
    BY DEF SessionShape
  <2>4. Finals(Head(out), "ERROR")
    BY <2>1, <2>2, <2>3 DEF Finals
  <2>5. QED
    BY <1>1, <2>1, <2>2, <2>4 DEF Answers, ModemKeeps
<1>4. ASSUME Modem!Ignore PROVE Answers
  <2>1. /\ out # <<>> /\ out' = Tail(out) /\ rx' = rx /\ held' = held /\ SameModem
    BY <1>4 DEF Modem!Ignore, SameModem
  <2>2. rx \in Seq(Items) /\ Stock' = Stock
    BY <2>1 DEF SessionShape, Stock
  <2>3. new = {}
    BY <2>1, <2>2 DEF new
  <2>4. Ignores
    BY <1>1, <2>1, <2>2, <2>3 DEF Ignores
  <2>5. QED
    BY <1>1, <2>1, <2>2, <2>4 DEF Answers, ModemKeeps
<1>5. ASSUME NEW c \in Modem!Queries, NEW t, NEW f, Informative(t, f), Tells(c, t, f),
             Modem!Inform(c, t, f)
      PROVE  Answers
  <2>1. held' = held
    BY <1>5 DEF Modem!Inform, Modem!Answer
  <2>2. out # <<>> /\ rx' \in Seq(Items) /\ Informs(Head(out), t, f)
    BY <1>1, <1>5, <2>1, InformIs DEF new
  <2>3. t \in Texts /\ f \in Seq(Nat)
    BY <1>5 DEF Informative
  <2>4. QED
    BY <1>1, <2>1, <2>2, <2>3 DEF Answers, ModemKeeps
<1>6. ASSUME Modem!Query PROVE Answers
  <2>1. {"AT+CPIN?", "AT+CREG?", "AT+CGREG?", "AT+CSQ", "AT+COPS?"} = Modem!Queries
    BY DEF Modem!Queries
  <2>2. CASE Modem!Inform("AT+CPIN?", "READY", <<>>)
    BY <1>5, <2>1, <2>2, QueriesTell
  <2>3. CASE Modem!Inform("AT+CREG?", "+CREG:", <<2, Modem!stat_of("+CREG:")>>)
    BY <1>5, <2>1, <2>3, QueriesTell
  <2>4. CASE Modem!Inform("AT+CGREG?", "+CGREG:", <<0, Modem!stat_of("+CGREG:")>>)
    BY <1>5, <2>1, <2>4, QueriesTell
  <2>5. CASE Modem!Inform("AT+CSQ", "+CSQ:", <<18, 0>>)
    BY <1>5, <2>1, <2>5, QueriesTell
  <2>6. CASE Modem!Inform("AT+COPS?", "+COPS:", <<0, 0>>)
    BY <1>5, <2>1, <2>6, QueriesTell
  <2>7. QED
    BY <1>6, <2>2, <2>3, <2>4, <2>5, <2>6 DEF Modem!Query
<1>7. QED
  BY <1>1, <1>2, <1>3, <1>4, <1>6

LEMMA UrcType ==
  ASSUME SessionShape, NEW l \in Modem!Urcs
  PROVE  /\ l \in Items /\ l.of = 0 /\ l.text \in {"READY", "+CREG:", "+CGREG:"}
         /\ l.text = "READY" => rebooted
         /\ l.text \in Networks /\ is_registered(stat_field(l.fields)) => networks # {}
<1>2. CASE rebooted /\ l = Line("READY", 0, <<>>)
  <2>1. l \in Items
    BY <1>2, QueriesTell, InformType
  <2>2. l.text = "READY" /\ l.of = 0
    BY <1>2 DEF Line
  <2>3. QED
    BY <1>2, <2>1, <2>2, LfIs
<1>3. ASSUME NEW n \in Networks, l = Line(n, 0, <<Modem!stat_of(n)>>)
      PROVE  /\ l \in Items /\ l.of = 0 /\ l.text = n
             /\ is_registered(stat_field(l.fields)) => networks # {}
  <2> DEFINE f == <<Modem!stat_of(n)>>
  <2>1. /\ Modem!stat_of(n) \in 0 .. 255
        /\ is_registered(Modem!stat_of(n)) => networks # {}
    BY DEF Modem!stat_of, is_registered
  <2>2. f \in Seq(Nat) /\ stat_field(f) = Modem!stat_of(n)
    BY <2>1 DEF stat_field
  <2> HIDE DEF f
  <2>3. Informative(n, f)
    BY <1>3, <2>1, <2>2, LfIs DEF Informative, Texts
  <2>4. l = Line(n, 0, f)
    BY <1>3 DEF f
  <2>5. l \in Items
    BY <2>3, <2>4, InformType
  <2>6. l.text = n /\ l.of = 0 /\ l.fields = f
    BY <2>4 DEF Line
  <2>7. QED
    BY <2>1, <2>2, <2>5, <2>6
<1>4. QED
  <2>1. \/ rebooted /\ l = Line("READY", 0, <<>>)
        \/ \E n \in Networks : l = Line(n, 0, <<Modem!stat_of(n)>>)
    BY DEF Modem!Urcs, Networks, Modem!Line, Line
  <2>2. CASE \E n \in Networks : l = Line(n, 0, <<Modem!stat_of(n)>>)
    BY <1>3, <2>2, LfIs
  <2>3. QED
    BY <1>2, <2>1, <2>2

LEMMA EventIs ==
  ASSUME SessionShape, ModemEvent
  PROVE  Reports
<1>1. Quiet /\ stat' = stat /\ nsent' = nsent /\ told' = told
  BY DEF ModemEvent, Quiet
<1>2. ASSUME Modem!SendUrc PROVE Reports
  <2>1. /\ urcs < MaxUrcs /\ ~muxed /\ urcs' = urcs + 1 /\ held' = held /\ out' = out
        /\ networks' = networks /\ muxed' = muxed /\ rebooted' = rebooted
    BY <1>2 DEF Modem!SendUrc
  <2>2. PICK l \in Modem!Urcs : rx' = rx \o << l, Modem!LF >>
    BY <1>2 DEF Modem!SendUrc
  <2>3. l \in Items
    BY UrcType
  <2>4. rx' = Cat(rx, <<l, LF>>)
    BY <2>2, LfIs DEF Cat
  <2>5. rx' \in Seq(Items) /\ Says(2, l)
    BY <2>1, <2>3, <2>4, SaysIs
  <2>6. urcs' \in 0 .. MaxUrcs
    BY <2>1, UrcsAssumption DEF SessionShape
  <2>7. QED
    BY <1>1, <2>1, <2>5, <2>6 DEF Reports, ModemKeeps
<1>3. ASSUME NEW n \in Modem!Networks, Modem!RegisterOn(n) PROVE Reports
  <2>1. /\ networks' = networks \cup {n} /\ rx' = rx /\ held' = held /\ out' = out
        /\ muxed' = muxed /\ rebooted' = rebooted /\ urcs' = urcs
    BY <1>3 DEF Modem!RegisterOn
  <2>2. rx' \in Seq(Items) /\ Stock' = Stock /\ networks \subseteq Networks /\ n \in Networks
    BY <2>1 DEF SessionShape, Stock, Networks
  <2>3. QED
    BY <1>1, <2>1, <2>2 DEF Reports, ModemKeeps
<1>4. QED
  BY <1>2, <1>3 DEF ModemEvent

HostSteps == Sends \/ Moves \/ (\E k : Hears(k)) \/ Fails \/ Drained
ReaderTypes == held' \in Seq(Items) /\ rx' \in Seq(Items)

LEMMA HostIs ==
  ASSUME SessionShape,
         HostSend \/ HostRead \/ HostDrain \/ HostTimeout \/ HostError
  PROVE  ReaderTypes /\ HostSteps
<1>1. ASSUME modemVars' = modemVars PROVE SameModem
  BY <1>1 DEF modemVars, SameModem
<1>2. CASE HostSend
  <2>1. Sends
    BY <1>2, SendIs
  <2>2. QED
    BY <2>1 DEF Sends, SessionShape, ReaderTypes, HostSteps
<1>3. CASE HostRead
  BY <1>1, <1>3, ReadIs, ReadLineIs DEF HostRead, ReaderTypes, HostSteps
<1>4. CASE HostDrain
  BY <1>1, <1>4, DrainIs DEF HostDrain, ReaderTypes, HostSteps
<1>5. CASE HostTimeout
  BY <1>1, <1>5, TimeoutIs DEF HostTimeout, ReaderTypes, HostSteps
<1>6. CASE HostError
  BY <1>1, <1>6, ErrorIs DEF HostError, ReaderTypes, HostSteps
<1>7. QED
  BY <1>2, <1>3, <1>4, <1>5, <1>6

LEMMA NextIs ==
  ASSUME SessionShape, Next
  PROVE  ReaderTypes /\ (HostSteps \/ Answers \/ Reports)
<1>1. ASSUME Answers \/ Reports PROVE ReaderTypes
  BY <1>1 DEF Answers, Reports, ModemKeeps, ReaderTypes, SessionShape
<1>2. QED
  BY <1>1, HostIs, AnswerIs, EventIs DEF Next

-----------------------------------------------------------------------------
(* Every step keeps the types.                                             *)

LEMMA LinedCut ==
  ASSUME NEW w \in Seq(Items), NEW t \in Seq(Items), NEW k, Lined(w), IsCut(w, t, k)
  PROVE  Lined(t)
<1>1. Len(w) \in Nat /\ Len(t) = Len(w) - k /\ k \in 0 .. Len(w)
  BY DEF IsCut
<1>2. ASSUME NEW i \in 1 .. Len(t), t[i] # LF PROVE i < Len(t) /\ t[i + 1] = LF
  <2>1. t[i] = w[k + i] /\ k + i \in 1 .. Len(w)
    BY <1>1 DEF IsCut
  <2>2. k + i < Len(w) /\ w[k + i + 1] = LF
    BY <1>2, <2>1 DEF Lined
  <2>3. i < Len(t) /\ i + 1 \in 1 .. Len(t) /\ k + (i + 1) = k + i + 1
    BY <1>1, <2>2
  <2>4. t[i + 1] = w[k + (i + 1)]
    BY <2>3 DEF IsCut
  <2>5. QED
    BY <2>2, <2>3, <2>4
<1>3. QED
  BY <1>2 DEF Lined

LEMMA LinedAdded ==
  ASSUME NEW w \in Seq(Items), NEW t \in Seq(Items), Lined(w),
         \/ IsAdded(w, t, 2) /\ t[Len(w) + 2] = LF
         \/ IsAdded(w, t, 4) /\ t[Len(w) + 2] = LF /\ t[Len(w) + 4] = LF
  PROVE  Lined(t)
<1> DEFINE n == Len(w)
<1>1. n \in Nat /\ \A i \in 1 .. n : t[i] = w[i]
  BY DEF IsAdded
<1>2. \A i \in 1 .. n : w[i] # LF => i < n /\ w[i + 1] = LF
  BY DEF Lined
<1>3. \/ Len(t) = n + 2 /\ t[n + 2] = LF
      \/ Len(t) = n + 4 /\ t[n + 2] = LF /\ t[n + 4] = LF
  BY DEF IsAdded
<1> HIDE DEF n
<1>4. ASSUME NEW i \in 1 .. Len(t), t[i] # LF PROVE i < Len(t) /\ t[i + 1] = LF
  <2>1. CASE i <= n
    <3>1. i \in 1 .. n
      BY <1>1, <2>1
    <3>2. i < n /\ w[i + 1] = LF /\ i + 1 \in 1 .. n
      BY <1>1, <1>2, <1>4, <3>1
    <3>3. QED
      BY <1>1, <1>3, <3>2
  <2>2. CASE i > n
    <3>1. i \in {n + 1, n + 2, n + 3, n + 4}
      BY <1>1, <1>3, <2>2
    <3>2. QED
      BY <1>1, <1>3, <1>4, <3>1
  <2>3. QED
    BY <1>1, <2>1, <2>2
<1>5. QED
  BY <1>4 DEF Lined

LEMMA LinedStep ==
  ASSUME SessionShape, ReaderTypes, HostSteps \/ Answers \/ Reports
  PROVE  Lined(Stock')
<1>1. Stock \in Seq(Items) /\ Stock' \in Seq(Items) /\ Lined(Stock)
  BY StockType, StockIs DEF SessionShape, ReaderTypes, Stock
<1>2. ASSUME Shortens PROVE Lined(Stock')
  BY <1>1, <1>2, LinedCut DEF Shortens
<1>3. ASSUME Stock' = Stock PROVE Lined(Stock')
  BY <1>1, <1>3
<1>4. ASSUME NEW l, Says(2, l) PROVE Lined(Stock')
  <2>1. IsAdded(Stock, Stock', 2) /\ Stock'[Len(Stock) + 2] = LF
    BY <1>4 DEF Says
  <2>2. QED
    BY <1>1, <2>1, LinedAdded
<1>5. ASSUME NEW c, NEW t, NEW f, Informs(c, t, f) PROVE Lined(Stock')
  <2>1. /\ IsAdded(Stock, Stock', 4) /\ Stock'[Len(Stock) + 2] = LF
        /\ Stock'[Len(Stock) + 4] = LF
    BY <1>5 DEF Informs, Says
  <2>2. QED
    BY <1>1, <2>1, LinedAdded
<1>6. CASE Sends
  BY <1>3, <1>6 DEF Sends, Stock
<1>7. CASE Moves \/ Fails
  BY <1>2, <1>7 DEF Moves, Fails
<1>8. CASE \E k : Hears(k)
  BY <1>2, <1>8 DEF Hears, Shortens
<1>9. CASE Drained
  BY <1>9 DEF Drained, Lined
<1>10. CASE Answers
  BY <1>3, <1>4, <1>5, <1>10 DEF Answers, Finals, Ignores
<1>11. CASE Reports
  BY <1>3, <1>4, <1>11 DEF Reports
<1>12. QED
  BY <1>6, <1>7, <1>8, <1>9, <1>10, <1>11 DEF HostSteps

\* What the end of a command leaves of the types.
LEMMA EndsTypes ==
  ASSUME SessionShape, NEW o, Ends(o)
  PROVE  /\ phase' \in {"send", "ok", "failed"}
         /\ step' \in 1 .. P + 12 /\ (step' = P + 12 <=> phase' = "ok")
         /\ phase' # "ok" => Fits(tries', step')
         /\ registered' \in BOOLEAN
<1>1. P \in Nat /\ step \in 1 .. P + 11
  BY StepCases DEF Ends
<1>2. Follows(o, is_registered(stat'))
  BY DEF Ends
<1>3. /\ phase' \in {"send", "ok", "failed"}
      /\ step' \in 1 .. P + 12 /\ (step' = P + 12 <=> phase' = "ok")
  BY <1>1, <1>2 DEF Follows
<1>4. QED
  BY <1>2, <1>3 DEF Ends, Follows

LEMMA OutStep ==
  ASSUME SessionShape, HostSteps \/ Answers \/ Reports
  PROVE  /\ out' \in Seq(Commands) /\ nsent' \in Nat
         /\ \A j \in 1 .. Len(out') : out'[j].of \in 1 .. nsent'
<1>1. out \in Seq(Commands) /\ nsent \in Nat /\ \A j \in 1 .. Len(out) : out[j].of \in 1 .. nsent
  BY DEF SessionShape
<1>2. CASE Sends
  <2> DEFINE c == [cmd |-> Script[step].cmd, of |-> nsent + 1]
  <2>1. c \in Commands /\ c.of = nsent + 1
    <3>1. step \in DOMAIN Script
      BY <1>2, ScriptIs DEF Sends
    <3>2. Script[step].cmd \in {Script[i].cmd : i \in DOMAIN Script}
      BY <3>1
    <3>3. QED
      BY <1>1, <3>2 DEF Commands
  <2>2. out' = Append(out, c) /\ nsent' = nsent + 1
    BY <1>2 DEF Sends
  <2> HIDE DEF c
  <2>3. QED
    BY <1>1, <2>1, <2>2
<1>3. CASE out' = out /\ nsent' = nsent
  BY <1>1, <1>3
<1>4. CASE Answers
  <2>1. out # <<>> /\ nsent' = nsent /\ out' \in {<<>>, Tail(out)}
    BY <1>4 DEF Answers, ModemKeeps, Finals, Informs, Ignores
  <2>2. CASE out' = <<>>
    BY <1>1, <2>1, <2>2
  <2>3. CASE out' = Tail(out)
    <3>1. \A j \in 1 .. Len(Tail(out)) : j + 1 \in 1 .. Len(out)
      BY <1>1, <2>1
    <3>2. QED
      BY <1>1, <2>1, <2>3, <3>1, HeadIs
  <2>4. QED
    BY <2>1, <2>2, <2>3
<1>5. QED
  BY <1>2, <1>3, <1>4 DEF HostSteps, Moves, Hears, Fails, Drained, HostKeeps, Reports, ModemKeeps

LEMMA StatStep ==
  ASSUME SessionShape, HostSteps \/ Answers \/ Reports
  PROVE  stat' \in 0 .. 255
<1>1. stat \in 0 .. 255 /\ Stock \in Seq(Items) /\ NoStat \in 0 .. 255
  BY StockType DEF SessionShape, NoStat
<1>2. ASSUME NEW k, Hears(k) PROVE stat' \in 0 .. 255
  <2>1. CASE has_prefix
    <3>1. line.text \in Networks
      BY <1>2, <2>1, PrefixIs DEF Hears
    <3>2. line = Stock[1] /\ 1 \in 1 .. Len(Stock)
      BY <1>2, <3>1, LfIs, StockType DEF Hears, EndsAt, Texts
    <3>3. line \in Items
      BY <1>1, <3>2
    <3>4. QED
      BY <1>2, <2>1, <3>1, <3>3 DEF Hears, Items
  <2>2. CASE ~has_prefix
    BY <1>1, <1>2, <2>2 DEF Hears
  <2>3. QED
    BY <2>1, <2>2
<1>3. QED
  BY <1>1, <1>2 DEF HostSteps, Sends, Moves, Fails, Drained, Answers, Reports, ModemKeeps

LEMMA ControlStep ==
  ASSUME SessionShape, HostSteps \/ Answers \/ Reports
  PROVE  /\ phase' \in {"send", "reply", "ok", "failed"}
         /\ step' \in 1 .. P + 12 /\ (step' = P + 12 <=> phase' = "ok")
         /\ phase' # "ok" => Fits(tries', step')
         /\ registered' \in BOOLEAN
<1>1. /\ phase \in {"send", "reply", "ok", "failed"}
      /\ step \in 1 .. P + 12 /\ (step = P + 12 <=> phase = "ok")
      /\ phase # "ok" => Fits(tries, step)
      /\ registered \in BOOLEAN
  BY DEF SessionShape
<1>2. CASE Quiet
  BY <1>1, <1>2 DEF Quiet
<1>3. CASE Sends
  BY <1>1, <1>3 DEF Sends
<1>4. CASE \E o : Ends(o)
  BY <1>4, EndsTypes
<1>5. QED
  BY <1>2, <1>3, <1>4 DEF HostSteps, Moves, Hears, Fails, Drained, Answers, Reports, ModemKeeps

LEMMA ModemStep ==
  ASSUME SessionShape, HostSteps \/ Answers \/ Reports
  PROVE  /\ networks' \subseteq Networks /\ told' \subseteq Networks
         /\ muxed' \in BOOLEAN /\ rebooted' \in BOOLEAN /\ urcs' \in 0 .. MaxUrcs
<1>1. /\ networks \subseteq Networks /\ told \subseteq Networks
      /\ muxed \in BOOLEAN /\ rebooted \in BOOLEAN /\ urcs \in 0 .. MaxUrcs
  BY DEF SessionShape
<1>2. CASE SameModem /\ told' \in {told, {}}
  BY <1>1, <1>2 DEF SameModem
<1>3. CASE Reports
  BY <1>1, <1>3 DEF Reports
<1>4. CASE Answers
  <2>1. ASSUME NEW v, Finals(Head(out), v)
        PROVE  /\ networks' \subseteq Networks /\ told' \subseteq Networks
               /\ muxed' \in BOOLEAN /\ rebooted' \in BOOLEAN /\ urcs' \in 0 .. MaxUrcs
    BY <1>1, <2>1 DEF Finals
  <2>2. ASSUME NEW t, NEW f, Informs(Head(out), t, f)
        PROVE  SameModem /\ told' \subseteq Networks
    BY <1>1, <2>2 DEF Informs
  <2>3. QED
    BY <1>1, <1>4, <2>1, <2>2 DEF Answers, Ignores, SameModem
<1>5. QED
  BY <1>2, <1>3, <1>4
     DEF HostSteps, Sends, Moves, Hears, Fails, Drained, HostKeeps

LEMMA ShapeInit == SessionInit => SessionShape
<1> SUFFICES ASSUME SessionInit PROVE SessionShape
  OBVIOUS
<1>1. /\ rx = <<>> /\ held = <<>> /\ out = <<>> /\ phase = "send" /\ step = 1 /\ tries = 0
      /\ nsent = 0 /\ stat = 255 /\ registered = FALSE /\ networks = {} /\ muxed = FALSE
      /\ rebooted = FALSE /\ urcs = 0 /\ told = {}
  BY DEF SessionInit, Init, Modem!Init, NoStat
<1>2. held \in Seq(Items) /\ rx \in Seq(Items) /\ out \in Seq(Commands)
  BY <1>1
<1>3. Lined(Stock)
  <2>1. Len(Stock) = 0
    BY <1>1 DEF Stock, Cat
  <2>2. QED
    BY <2>1 DEF Lined
<1>4. Fits(tries, step) /\ urcs \in 0 .. MaxUrcs
  BY <1>1, AtAssumption, UrcsAssumption DEF Fits
<1>5. step \in 1 .. P + 12 /\ (step = P + 12 <=> phase = "ok")
  <2>1. P \in Nat
    BY StepCases
  <2>2. QED
    BY <1>1, <2>1
<1>6. nsent \in Nat /\ \A j \in 1 .. Len(out) : out[j].of \in 1 .. nsent
  BY <1>1
<1>7. /\ phase \in {"send", "reply", "ok", "failed"} /\ stat \in 0 .. 255
      /\ registered \in BOOLEAN /\ muxed \in BOOLEAN /\ rebooted \in BOOLEAN
  <2>1. registered \in BOOLEAN /\ muxed \in BOOLEAN /\ rebooted \in BOOLEAN
    BY <1>1, Zenon
  <2>2. phase \in {"send", "reply", "ok", "failed"} /\ stat \in 0 .. 255
    BY <1>1
  <2>3. QED
    BY <2>1, <2>2
<1>8. networks \subseteq Networks /\ told \subseteq Networks
  BY <1>1
<1>9. QED
  BY <1>2, <1>3, <1>4, <1>5, <1>6, <1>7, <1>8 DEF SessionShape

LEMMA ShapeStep == SessionShape /\ [Next]_vars => SessionShape'
<1> SUFFICES ASSUME SessionShape, [Next]_vars PROVE SessionShape'
  OBVIOUS
<1>1. CASE Next
  <2>1. ReaderTypes /\ (HostSteps \/ Answers \/ Reports)
    BY <1>1, NextIs
  <2>2. Lined(Stock')
    BY <2>1, LinedStep
  <2>3. QED
    BY <2>1, <2>2, OutStep, StatStep, ControlStep, ModemStep
       DEF SessionShape, ReaderTypes, Lined
<1>2. CASE UNCHANGED vars
  BY <1>2 DEF SessionShape, vars, hostVars, modemVars, Stock, Lined, Fits
<1>3. QED
  BY <1>1, <1>2

LEMMA ShapeAlways == Spec => []SessionShape
  BY ShapeInit, ShapeStep, PTL DEF Spec

\* TypeOK: what the reader holds is pieces of lines, the commands on the line
\* are ones that were sent, and no loop takes more rounds than it may.
THEOREM AtSessionTypeOK == Spec => []TypeOK
<1>1. SessionShape => TypeOK
  <2> SUFFICES ASSUME SessionShape PROVE TypeOK
    OBVIOUS
  <2>1. \A s \in Seq(Items) : s \in Seq(Pieces)
    BY DEF Items
  <2>2. P \in Nat /\ Len(Script) = P + 11 /\ DOMAIN out = 1 .. Len(out)
    BY ScriptIs, StepCases DEF SessionShape
  <2>3. step \in 1 .. Len(Script) + 1 /\ (step > Len(Script) <=> phase = "ok")
    BY <2>2 DEF SessionShape
  <2>4. phase # "ok" => tries \in 0 .. (IF kind = "try" THEN AtTries - 1 ELSE Rounds)
    BY DEF SessionShape, Fits, kind
  <2>5. QED
    BY <2>1, <2>2, <2>3, <2>4 DEF SessionShape, TypeOK, NoStat, Networks
<1>2. QED
  BY <1>1, ShapeAlways, PTL

-----------------------------------------------------------------------------
(* What the modem reports of the networks.                                 *)

IsReg(p) == p.text \in Networks /\ is_registered(stat_field(p.fields))
No(o, c) == \A j \in 1 .. Len(o) : o[j].cmd # c
\* From the i-th piece on, "registered" is said only by a modem that is.
Truthful(w, i) == \A j \in i .. Len(w) : IsReg(w[j]) => networks # {}
Silent(w) == \A i \in 1 .. Len(w) : w[i].text # "READY"

\* The reboot by AT+CFUN=1,1, which drops the networks, is over when the
\* modem says READY: so nothing takes back a registration reported after it.
RegShape ==
  /\ \A i \in 1 .. Len(out) : \A j \in i + 1 .. Len(out) :
       out[i].cmd = "AT+CPIN?" => out[j].cmd # "AT+CFUN=1"
  /\ step <= 6 => No(out, "AT+CPIN?") /\ (rebooted \/ Silent(Stock))
  /\ rebooted => No(out, "AT+CFUN=1")
  /\ step < 6 \/ (step = 6 /\ phase = "send") => ~rebooted /\ No(out, "AT+CFUN=1")
  /\ Silent(Stock) \/ No(out, "AT+CFUN=1")
  /\ \A i \in 1 .. Len(Stock) : Stock[i].text = "READY" => Truthful(Stock, i)
  /\ step > P + 2 => No(out, "AT+CFUN=1") /\ Truthful(Stock, 1)
  /\ registered \/ is_registered(stat) => step > P + 2 /\ networks # {}
  /\ step > P + 7 => networks # {}

LEMMA StockCut ==
  ASSUME SessionShape, HostSteps
  PROVE  \E k : IsCut(Stock, Stock', k)
<1>1. CASE Drained
  <2>1. IsCut(Stock, Stock', Len(Stock))
    BY <1>1, StockType DEF Drained, IsCut
  <2>2. QED
    BY <2>1
<1>2. CASE Sends
  BY <1>2, CutSame DEF Sends, Stock
<1>3. QED
  BY <1>1, <1>2 DEF HostSteps, Moves, Hears, Fails, Shortens

LEMMA StockAdded ==
  ASSUME SessionShape, Answers \/ Reports
  PROVE  \E n : /\ IsAdded(Stock, Stock', n)
                /\ \A i \in Len(Stock) + 1 .. Len(Stock) + n :
                     /\ IsReg(Stock'[i]) => networks # {}
                     /\ Stock'[i].text = "READY" =>
                          rebooted \/ (Answers /\ Head(out).cmd = "AT+CPIN?")
<1> DEFINE Good(p) ==
      /\ IsReg(p) => networks # {}
      /\ p.text = "READY" => rebooted \/ (Answers /\ Head(out).cmd = "AT+CPIN?")
<1>1. Len(Stock) \in Nat
  BY StockType
<1>2. Good(LF)
  BY LfIs DEF IsReg
<1>3. ASSUME Stock' = Stock PROVE IsAdded(Stock, Stock', 0)
  BY <1>1, <1>3 DEF IsAdded
<1>4. ASSUME NEW v \in {"OK", "ERROR"}, NEW m PROVE Good(Line(v, m, <<>>))
  BY <1>4, LfIs DEF Line, IsReg
<1>5. ASSUME NEW l, Says(2, l), Good(l)
      PROVE  /\ IsAdded(Stock, Stock', 2)
             /\ \A i \in Len(Stock) + 1 .. Len(Stock) + 2 : Good(Stock'[i])
  <2> DEFINE n == Len(Stock)
  <2>1. /\ IsAdded(Stock, Stock', 2)
        /\ Stock'[n + 2] = LF /\ Stock'[n + 2 - 1] = l
    BY <1>5 DEF Says
  <2>2. n + 2 - 1 = n + 1 /\ \A i \in n + 1 .. n + 2 : i = n + 1 \/ i = n + 2
    BY <1>1
  <2> HIDE DEF Good, n
  <2>3. \A i \in n + 1 .. n + 2 : Good(Stock'[i])
    BY <1>2, <1>5, <2>1, <2>2
  <2>4. QED
    BY <2>1, <2>3 DEF n
<1>6. ASSUME NEW t, NEW f, Answers, Informs(Head(out), t, f)
      PROVE  /\ IsAdded(Stock, Stock', 4)
             /\ \A i \in Len(Stock) + 1 .. Len(Stock) + 4 : Good(Stock'[i])
  <2> DEFINE n == Len(Stock)
             a == Line(t, Head(out).of, f)
             b == Line("OK", Head(out).of, <<>>)
  <2>1. /\ IsAdded(Stock, Stock', 4)
        /\ Stock'[n + 4] = LF /\ Stock'[n + 4 - 1] = b
        /\ Stock'[n + 1] = a /\ Stock'[n + 2] = LF
    BY <1>6 DEF Informs, Says
  <2>2. /\ n + 4 - 1 = n + 3
        /\ \A i \in n + 1 .. n + 4 : i \in {n + 1, n + 2, n + 3, n + 4}
    BY <1>1
  <2>3. Good(b)
    BY <1>4
  <2>4. Good(a)
    <3>1. a.text = t /\ a.fields = f
      BY DEF Line
    <3>2. Tells(Head(out).cmd, t, f)
      BY <1>6 DEF Informs
    <3> HIDE DEF a
    <3>3. QED
      BY <1>6, <3>1, <3>2 DEF Tells, IsReg
  <2> HIDE DEF Good, n, a, b
  <2>5. \A i \in n + 1 .. n + 4 : Good(Stock'[i])
    BY <1>2, <2>1, <2>2, <2>3, <2>4
  <2>6. QED
    BY <2>1, <2>5 DEF n
<1>7. ASSUME NEW l \in Modem!Urcs PROVE Good(l)
  BY <1>7, UrcType DEF IsReg
<1> HIDE DEF Good
<1>8. \E n : /\ IsAdded(Stock, Stock', n)
             /\ \A i \in Len(Stock) + 1 .. Len(Stock) + n : Good(Stock'[i])
  <2>1. CASE Stock' = Stock
    <3>1. \A i \in Len(Stock) + 1 .. Len(Stock) + 0 : Good(Stock'[i])
      BY <1>1
    <3>2. QED
      BY <1>3, <2>1, <3>1
  <2>2. CASE \E v \in {"OK", "ERROR"} : Finals(Head(out), v)
    BY <1>4, <1>5, <2>2 DEF Finals
  <2>3. CASE Answers /\ \E t \in Texts, f \in Seq(Nat) : Informs(Head(out), t, f)
    BY <1>6, <2>3
  <2>4. CASE \E l \in Modem!Urcs : Says(2, l)
    BY <1>5, <1>7, <2>4
  <2>5. QED
    BY <2>1, <2>2, <2>3, <2>4 DEF Answers, Reports, Ignores
<1>9. QED
  BY <1>8 DEF Good

\* Commands leave the line in order.
LEMMA OutCut ==
  ASSUME SessionShape, HostSteps \/ Answers \/ Reports
  PROVE  Sends \/ \E k : IsCut(out, out', k)
<1>1. out \in Seq(Commands)
  BY DEF SessionShape
<1>2. ASSUME out' = out PROVE IsCut(out, out', 0)
  BY <1>1, <1>2 DEF IsCut
<1>3. ASSUME out' = <<>> PROVE IsCut(out, out', Len(out))
  BY <1>1, <1>3 DEF IsCut
<1>4. ASSUME out # <<>>, out' = Tail(out) PROVE IsCut(out, out', 1)
  BY <1>1, <1>4, HeadIs DEF IsCut
<1>5. CASE Answers
  <2>1. out # <<>> /\ (out' = <<>> \/ out' = Tail(out))
    BY <1>5 DEF Answers, Finals, Informs, Ignores
  <2>2. QED
    BY <1>3, <1>4, <2>1
<1>6. QED
  BY <1>2, <1>5 DEF HostSteps, Moves, Hears, Fails, Drained, HostKeeps, Reports

LEMMA NoCut ==
  ASSUME NEW o, NEW q, NEW k, IsCut(o, q, k), Len(o) \in Nat, NEW c, No(o, c)
  PROVE  No(q, c)
<1>1. \A j \in 1 .. Len(q) : k + j \in 1 .. Len(o) /\ q[j] = o[k + j]
  BY DEF IsCut
<1>2. QED
  BY <1>1 DEF No

\* One more command is sent.
LEMMA SentIs ==
  ASSUME SessionShape, Sends
  PROVE  /\ Len(out') = Len(out) + 1 /\ Len(out) \in Nat
         /\ \A j \in 1 .. Len(out) : out'[j] = out[j]
         /\ out'[Len(out) + 1].cmd = Script[step].cmd
         /\ out'[Len(out) + 1].of = nsent + 1
<1> DEFINE c == [cmd |-> Script[step].cmd, of |-> nsent + 1]
<1>1. out \in Seq(Commands) /\ out' = Append(out, c)
  BY DEF SessionShape, Sends
<1>2. c.cmd = Script[step].cmd /\ c.of = nsent + 1
  OBVIOUS
<1> HIDE DEF c
<1>3. QED
  BY <1>1, <1>2

LEMMA NoSent ==
  ASSUME SessionShape, Sends, NEW c, No(out, c), Script[step].cmd # c
  PROVE  No(out', c)
<1> DEFINE q == out'
<1>1. /\ Len(q) = Len(out) + 1 /\ Len(out) \in Nat
      /\ \A j \in 1 .. Len(out) : q[j] = out[j]
      /\ q[Len(out) + 1].cmd = Script[step].cmd
  BY SentIs
<1> HIDE DEF q
<1>2. \A j \in 1 .. Len(q) : j \in 1 .. Len(out) \/ j = Len(out) + 1
  BY <1>1
<1>3. No(q, c)
  BY <1>1, <1>2 DEF No
<1>4. QED
  BY <1>3 DEF q

\* A command c that is not sent at this step does not come up.
LEMMA NoStep ==
  ASSUME SessionShape, HostSteps \/ Answers \/ Reports, NEW c, No(out, c),
         Sends => Script[step].cmd # c
  PROVE  No(out', c)
<1>1. Len(out) \in Nat
  BY DEF SessionShape
<1>2. QED
  BY <1>1, OutCut, NoCut, NoSent

\* Only AT+CFUN=1,1 takes the modem off its networks.
LEMMA NetworksStay ==
  ASSUME SessionShape, HostSteps \/ Answers \/ Reports, networks # {}, networks' = {}
  PROVE  Answers /\ out # <<>> /\ Head(out).cmd = "AT+CFUN=1"
<1>1. networks' # networks /\ ~(networks \subseteq networks')
  OBVIOUS
<1>2. Answers
  BY <1>1 DEF HostSteps, Sends, Moves, Hears, Fails, Drained, HostKeeps, SameModem, Reports
<1>3. QED
  BY <1>1, <1>2 DEF Answers, Finals, Informs, Ignores, SameModem

LEMMA RebootIs ==
  ASSUME SessionShape, HostSteps \/ Answers \/ Reports
  PROVE  /\ rebooted => rebooted'
         /\ rebooted' => \/ rebooted
                         \/ out # <<>> /\ Head(out).cmd = "AT+CFUN=1" /\ out' = <<>>
<1>1. CASE rebooted' = rebooted
  BY <1>1
<1>2. CASE rebooted' # rebooted
  <2>1. Answers
    BY <1>2 DEF HostSteps, Sends, Moves, Hears, Fails, Drained, HostKeeps, SameModem, Reports
  <2>2. PICK v \in {"OK", "ERROR"} : Finals(Head(out), v)
    BY <1>2, <2>1 DEF Answers, Informs, Ignores, SameModem
  <2>3. rebooted \in BOOLEAN
    BY DEF SessionShape
  <2>4. CASE Head(out).cmd = "AT+CFUN=1" /\ v = "OK"
    BY <2>1, <2>2, <2>4 DEF Finals, Answers
  <2>5. CASE ~(Head(out).cmd = "AT+CFUN=1" /\ v = "OK")
    BY <1>2, <2>2, <2>3, <2>5 DEF Finals
  <2>6. QED
    BY <2>4, <2>5
<1>3. QED
  BY <1>1, <1>2

\* The steps go on by one, repeat a step, or begin a round of a loop again.
LEMMA StepIs ==
  ASSUME SessionShape, HostSteps \/ Answers \/ Reports
  PROVE  \/ step' = step /\ phase' = phase
         \/ Sends /\ step' = step /\ phase' = "reply" /\ phase = "send"
         \/ /\ step \in 1 .. P + 11
            /\ \/ step' = step + 1
               \/ step' = step /\ (phase' = "send" => step # 6)
               \/ step' = P + 1 /\ step = P + 2
               \/ step' = P + 5 /\ step = P + 7
            /\ step = P + 2 /\ step' = P + 3 =>
                 Hears(2) /\ 1 \in 1 .. Len(Stock) /\ Stock[1].text = "READY"
            /\ step = P + 7 /\ step' = P + 8 => registered
<1>1. P \in Nat
  BY StepCases
<1>2. ASSUME NEW o, Ends(o)
      PROVE  /\ step \in 1 .. P + 11
             /\ \/ step' = step + 1
                \/ step' = step /\ (phase' = "send" => step # 6)
                \/ step' = P + 1 /\ step = P + 2
                \/ step' = P + 5 /\ step = P + 7
             /\ step = P + 2 /\ step' = P + 3 => o = "ok"
             /\ step = P + 7 /\ step' = P + 8 => registered
  BY <1>1, <1>2 DEF Ends, Follows
<1>3. ASSUME NEW k, Hears(k), Ends("ok"), verdict = "ok", step = P + 2
      PROVE  Hears(2) /\ 1 \in 1 .. Len(Stock) /\ Stock[1].text = "READY"
  <2>1. kind = "needle"
    BY <1>3, ScriptIs DEF kind
  <2>2. line.text = "READY"
    BY <1>3, <2>1, VerdictIs
  <2>3. k = 2 /\ line = Stock[1]
    BY <1>3, <2>2 DEF Hears, Texts
  <2>4. 1 \in 1 .. Len(Stock)
    BY <1>3, <2>3, StockType DEF Hears, EndsAt
  <2>5. QED
    BY <1>3, <2>2, <2>3, <2>4
<1>4. CASE Quiet
  BY <1>4 DEF Quiet
<1>5. CASE Sends
  BY <1>5 DEF Sends
<1>6. ASSUME NEW k, Hears(k), ~Quiet
      PROVE  /\ step \in 1 .. P + 11
             /\ \/ step' = step + 1
                \/ step' = step /\ (phase' = "send" => step # 6)
                \/ step' = P + 1 /\ step = P + 2
                \/ step' = P + 5 /\ step = P + 7
             /\ step = P + 2 /\ step' = P + 3 =>
                  Hears(2) /\ 1 \in 1 .. Len(Stock) /\ Stock[1].text = "READY"
             /\ step = P + 7 /\ step' = P + 8 => registered
  <2>1. verdict \in {"ok", "none", "err"} /\ Ends(verdict)
    BY <1>6 DEF Hears
  <2>2. QED
    BY <1>2, <1>3, <1>6, <2>1
<1>7. CASE Fails
  BY <1>2, <1>7 DEF Fails
<1>8. CASE Drained
  BY <1>1, <1>2, <1>8 DEF Drained
<1>9. QED
  BY <1>4, <1>5, <1>6, <1>7, <1>8 DEF HostSteps, Moves, Answers, Reports, ModemKeeps

\* Orders of commands that the steps keep.
LEMMA OutOrder ==
  ASSUME SessionShape, RegShape, HostSteps \/ Answers \/ Reports
  PROVE  \A i \in 1 .. Len(out') : \A j \in i + 1 .. Len(out') :
           out'[i].cmd = "AT+CPIN?" => out'[j].cmd # "AT+CFUN=1"
<1> DEFINE q == out'
<1>1. /\ Len(out) \in Nat
      /\ \A i \in 1 .. Len(out) : \A j \in i + 1 .. Len(out) :
           out[i].cmd = "AT+CPIN?" => out[j].cmd # "AT+CFUN=1"
  BY DEF SessionShape, RegShape
<1>2. ASSUME NEW k, IsCut(out, q, k), NEW i \in 1 .. Len(q), NEW j \in i + 1 .. Len(q),
             q[i].cmd = "AT+CPIN?"
      PROVE  q[j].cmd # "AT+CFUN=1"
  <2>1. k \in 0 .. Len(out) /\ Len(q) = Len(out) - k
    BY <1>2 DEF IsCut
  <2>2. k + i \in 1 .. Len(out) /\ k + j \in k + i + 1 .. Len(out) /\ j \in 1 .. Len(q)
    BY <1>1, <2>1
  <2>3. q[i] = out[k + i] /\ q[j] = out[k + j]
    BY <1>2, <2>2 DEF IsCut
  <2>4. QED
    BY <1>1, <1>2, <2>2, <2>3
<1>3. ASSUME Sends, NEW i \in 1 .. Len(q), NEW j \in i + 1 .. Len(q),
             q[i].cmd = "AT+CPIN?", q[j].cmd = "AT+CFUN=1"
      PROVE  FALSE
  <2>1. /\ Len(q) = Len(out) + 1
        /\ \A n \in 1 .. Len(out) : q[n] = out[n]
        /\ q[Len(out) + 1].cmd = Script[step].cmd
    BY <1>3, SentIs
  <2> HIDE DEF q
  <2>2. i \in 1 .. Len(out) /\ (j \in 1 .. Len(out) \/ j = Len(out) + 1)
    BY <1>1, <2>1
  <2>3. j = Len(out) + 1
    BY <1>1, <1>3, <2>1, <2>2
  <2>4. step \in 1 .. P + 11 /\ Script[step].cmd = "AT+CFUN=1"
    BY <1>3, <2>1, <2>3 DEF Sends
  <2>5. step = 6
    BY <2>4, ScriptIs
  <2>6. No(out, "AT+CPIN?")
    BY <2>5 DEF RegShape
  <2>7. QED
    BY <1>3, <2>1, <2>2, <2>6 DEF No
<1> HIDE DEF q
<1>4. \A i \in 1 .. Len(q) : \A j \in i + 1 .. Len(q) :
        q[i].cmd = "AT+CPIN?" => q[j].cmd # "AT+CFUN=1"
  <2>1. Sends \/ \E k : IsCut(out, q, k)
    BY OutCut DEF q
  <2>2. QED
    BY <1>2, <1>3, <2>1
<1>5. QED
  BY <1>4 DEF q

LEMMA SilentStep ==
  ASSUME SessionShape, HostSteps \/ Answers \/ Reports, Silent(Stock)
  PROVE  Silent(Stock') \/ rebooted \/ (Answers /\ Head(out).cmd = "AT+CPIN?")
<1> DEFINE w == Stock
           t == Stock'
<1>1. Len(w) \in Nat /\ \A i \in 1 .. Len(w) : w[i].text # "READY"
  BY StockType DEF Silent
<1>2. ASSUME NEW k, IsCut(w, t, k) PROVE Silent(t)
  <2>1. \A i \in 1 .. Len(t) : k + i \in 1 .. Len(w) /\ t[i] = w[k + i]
    BY <1>1, <1>2 DEF IsCut
  <2> HIDE DEF w, t
  <2>2. QED
    BY <1>1, <2>1 DEF Silent
<1>3. ASSUME NEW n, IsAdded(w, t, n),
             \A i \in Len(w) + 1 .. Len(w) + n :
               t[i].text = "READY" => rebooted \/ (Answers /\ Head(out).cmd = "AT+CPIN?")
      PROVE  Silent(t) \/ rebooted \/ (Answers /\ Head(out).cmd = "AT+CPIN?")
  <2>1. /\ n \in Nat /\ Len(t) = Len(w) + n /\ \A i \in 1 .. Len(w) : t[i] = w[i]
    BY <1>3 DEF IsAdded
  <2> HIDE DEF w, t
  <2>2. \A i \in 1 .. Len(t) : i \in 1 .. Len(w) \/ i \in Len(w) + 1 .. Len(w) + n
    BY <1>1, <2>1
  <2>3. QED
    BY <1>1, <1>3, <2>1, <2>2 DEF Silent
<1>4. CASE HostSteps
  BY <1>2, <1>4, StockCut
<1>5. CASE Answers \/ Reports
  <2>1. PICK n : /\ IsAdded(w, t, n)
                 /\ \A i \in Len(w) + 1 .. Len(w) + n :
                      t[i].text = "READY" =>
                        rebooted \/ (Answers /\ Head(out).cmd = "AT+CPIN?")
    BY <1>5, StockAdded
  <2>2. QED
    BY <1>3, <2>1
<1>6. QED
  BY <1>4, <1>5

\* A registration once reported truthfully stays so while no AT+CFUN=1,1 is
\* under way.
LEMMA TruthfulStep ==
  ASSUME SessionShape, HostSteps \/ Answers \/ Reports, networks # {} => networks' # {}
  PROVE  /\ Truthful(Stock, 1) => Truthful(Stock, 1)'
         /\ (\A i \in 1 .. Len(Stock) : Stock[i].text = "READY" => Truthful(Stock, i))
              => \A i \in 1 .. Len(Stock') : Stock'[i].text = "READY" => Truthful(Stock, i)'
<1> DEFINE w == Stock
           t == Stock'
           T(i) == \A j \in i .. Len(t) : IsReg(t[j]) => networks' # {}
<1>1. Len(w) \in Nat
  BY StockType
<1>2. \A p : IsReg(p)' <=> IsReg(p)
  BY DEF IsReg
<1>3. ASSUME NEW k, IsCut(w, t, k), NEW i \in 1 .. Len(t), Truthful(w, k + i) PROVE T(i)
  <2>1. k \in 0 .. Len(w) /\ Len(t) = Len(w) - k /\ \A j \in 1 .. Len(t) : t[j] = w[k + j]
    BY <1>3 DEF IsCut
  <2> HIDE DEF w, t
  <2>2. \A j \in i .. Len(t) : j \in 1 .. Len(t) /\ k + j \in k + i .. Len(w)
    BY <1>1, <2>1
  <2>3. QED
    BY <1>3, <2>1, <2>2 DEF Truthful
<1>4. ASSUME NEW n, IsAdded(w, t, n),
             \A j \in Len(w) + 1 .. Len(w) + n : IsReg(t[j]) => networks # {},
             NEW i \in 1 .. Len(t), i > Len(w) \/ Truthful(w, i)
      PROVE  T(i)
  <2>1. /\ n \in Nat /\ Len(t) = Len(w) + n /\ \A j \in 1 .. Len(w) : t[j] = w[j]
    BY <1>4 DEF IsAdded
  <2> HIDE DEF w, t
  <2>2. \A j \in i .. Len(t) :
          (i <= Len(w) /\ j \in i .. Len(w) /\ j \in 1 .. Len(w)) \/ j \in Len(w) + 1 .. Len(w) + n
    BY <1>1, <2>1
  <2>3. QED
    BY <1>4, <2>1, <2>2 DEF Truthful
<1>5. ASSUME Truthful(w, 1) PROVE T(1)
  <2>1. ASSUME NEW k, IsCut(w, t, k) PROVE T(1)
    <3>1. k \in Nat /\ Len(t) \in Nat
      BY <1>1, <2>1 DEF IsCut
    <3>2. CASE 1 \in 1 .. Len(t)
      <4>1. Truthful(w, k + 1)
        BY <1>1, <1>5, <3>1 DEF Truthful
      <4>2. QED
        BY <1>3, <2>1, <3>2, <4>1
    <3>3. CASE 1 \notin 1 .. Len(t)
      BY <3>1, <3>3
    <3>4. QED
      BY <3>2, <3>3
  <2>2. ASSUME NEW n, IsAdded(w, t, n),
               \A j \in Len(w) + 1 .. Len(w) + n : IsReg(t[j]) => networks # {}
        PROVE  T(1)
    <3>1. Len(t) \in Nat
      BY <1>1, <2>2 DEF IsAdded
    <3>2. CASE 1 \in 1 .. Len(t)
      BY <1>4, <1>5, <2>2, <3>2
    <3>3. CASE 1 \notin 1 .. Len(t)
      BY <3>1, <3>3
    <3>4. QED
      BY <3>2, <3>3
  <2>3. CASE HostSteps
    BY <2>1, <2>3, StockCut
  <2>4. CASE Answers \/ Reports
    BY <2>2, <2>4, StockAdded
  <2>5. QED
    BY <2>3, <2>4
<1>6. ASSUME \A i \in 1 .. Len(w) : w[i].text = "READY" => Truthful(w, i),
             NEW i \in 1 .. Len(t), t[i].text = "READY"
      PROVE  T(i)
  <2>1. ASSUME NEW k, IsCut(w, t, k) PROVE T(i)
    <3>1. k + i \in 1 .. Len(w) /\ t[i] = w[k + i]
      BY <1>1, <2>1 DEF IsCut
    <3>2. QED
      BY <1>3, <1>6, <2>1, <3>1
  <2>2. ASSUME NEW n, IsAdded(w, t, n),
               \A j \in Len(w) + 1 .. Len(w) + n : IsReg(t[j]) => networks # {}
        PROVE  T(i)
    <3>1. i > Len(w) \/ (i \in 1 .. Len(w) /\ t[i] = w[i])
      BY <1>1, <2>2 DEF IsAdded
    <3>2. i > Len(w) \/ Truthful(w, i)
      BY <1>6, <3>1
    <3>3. QED
      BY <1>4, <2>2, <3>2
  <2>3. CASE HostSteps
    BY <2>1, <2>3, StockCut
  <2>4. CASE Answers \/ Reports
    BY <2>2, <2>4, StockAdded
  <2>5. QED
    BY <2>3, <2>4
<1>7. ASSUME NEW i, T(i) PROVE Truthful(Stock, i)'
  BY <1>2, <1>7 DEF Truthful
<1> HIDE DEF T
<1>8. QED
  BY <1>5, <1>6, <1>7

LEMMA RegInit == SessionInit => RegShape
<1> SUFFICES ASSUME SessionInit PROVE RegShape
  OBVIOUS
<1>1. /\ rx = <<>> /\ held = <<>> /\ out = <<>> /\ step = 1 /\ stat = 255
      /\ registered = FALSE /\ rebooted = FALSE
  BY DEF SessionInit, Init, Modem!Init, NoStat
<1>2. Len(Stock) = 0 /\ Len(out) = 0
  BY <1>1 DEF Stock, Cat
<1>3. P \in 9 .. 10
  BY ScriptIs
<1>4. ~is_registered(stat)
  BY <1>1 DEF is_registered
<1>5. QED
  BY <1>1, <1>2, <1>3, <1>4 DEF RegShape, No, Silent, Truthful

LEMMA RegStep ==
  ASSUME SessionShape, RegShape, HostSteps \/ Answers \/ Reports
  PROVE  RegShape'
<1>1. P \in 9 .. 10
  BY ScriptIs
<1>2. step \in 1 .. P + 12 /\ Len(out) \in Nat /\ Len(Stock) \in Nat
  BY StockType DEF SessionShape
<1>3. \A c : No(out, c) /\ (Sends => Script[step].cmd # c) => No(out', c)
  BY NoStep
<1>4. Sends => /\ step \in 1 .. P + 11 /\ step' = step /\ phase = "send" /\ phase' = "reply"
               /\ rebooted' = rebooted /\ Stock' = Stock
  BY DEF Sends, SameModem, Stock
<1>5. Sends => /\ (Script[step].cmd = "AT+CFUN=1" <=> step = 6)
               /\ (Script[step].cmd = "AT+CPIN?" => step > 6)
  BY <1>1, <1>4, ScriptIs
<1>6. ASSUME No(out, "AT+CFUN=1") PROVE networks # {} => networks' # {}
  <2>1. \A h : out # <<>> /\ h = Head(out) => h.cmd # "AT+CFUN=1"
    BY <1>6, HeadIs DEF No, SessionShape
  <2>2. QED
    BY <2>1, NetworksStay
<1>7. step' <= 6 => step <= 6
  BY <1>1, <1>2, StepIs
<1>8. step' < 6 \/ (step' = 6 /\ phase' = "send") => step < 6 \/ (step = 6 /\ phase = "send")
  BY <1>1, <1>2, StepIs
<1>9. step' > P + 2 =>
        step > P + 2 \/ (Hears(2) /\ 1 \in 1 .. Len(Stock) /\ Stock[1].text = "READY")
  BY <1>1, <1>2, StepIs
<1>10. step > P + 2 => step' > P + 2
  BY <1>1, <1>2, StepIs
<1>11. ASSUME Answers, Head(out).cmd = "AT+CPIN?"
       PROVE  No(out', "AT+CFUN=1") /\ (networks # {} => networks' # {}) /\ step > 6
  <2>1. out # <<>> /\ 1 \in 1 .. Len(out) /\ Head(out) = out[1]
    BY <1>2, <1>11, HeadIs DEF Answers, SessionShape
  <2>2. \A j \in 2 .. Len(out) : out[j].cmd # "AT+CFUN=1"
    BY <1>11, <2>1 DEF RegShape
  <2>3. No(Tail(out), "AT+CFUN=1") /\ No(<<>>, "AT+CFUN=1")
    <3>1. \A j \in 1 .. Len(Tail(out)) : Tail(out)[j] = out[j + 1] /\ j + 1 \in 2 .. Len(out)
      BY <1>2, <2>1, HeadIs
    <3>2. QED
      BY <2>2, <3>1 DEF No
  <2>4. out' = Tail(out) \/ out' = <<>>
    BY <1>11 DEF Answers, Finals, Informs, Ignores
  <2>5. step > 6
    BY <1>1, <1>2, <1>11, <2>1 DEF RegShape, No
  <2>6. QED
    BY <1>11, <2>3, <2>4, <2>5, NetworksStay
<1>12. \A i \in 1 .. Len(out') : \A j \in i + 1 .. Len(out') :
         out'[i].cmd = "AT+CPIN?" => out'[j].cmd # "AT+CFUN=1"
  BY OutOrder
<1>13. step' <= 6 => No(out', "AT+CPIN?") /\ (rebooted' \/ Silent(Stock'))
  <2>1. SUFFICES ASSUME step' <= 6 PROVE No(out', "AT+CPIN?") /\ (rebooted' \/ Silent(Stock'))
    OBVIOUS
  <2>2. step <= 6 /\ No(out, "AT+CPIN?") /\ (rebooted \/ Silent(Stock))
    BY <1>7, <2>1 DEF RegShape
  <2>3. No(out', "AT+CPIN?")
    BY <1>3, <1>5, <1>2, <2>2
  <2>4. rebooted' \/ Silent(Stock')
    BY <1>2, <1>11, <2>2, RebootIs, SilentStep
  <2>5. QED
    BY <2>3, <2>4
<1>14. rebooted' => No(out', "AT+CFUN=1")
  <2>1. ASSUME rebooted PROVE No(out', "AT+CFUN=1")
    <3>1. No(out, "AT+CFUN=1") /\ ~(step = 6 /\ phase = "send")
      BY <2>1 DEF RegShape
    <3>2. QED
      BY <1>3, <1>4, <1>5, <3>1
  <2>2. No(<<>>, "AT+CFUN=1")
    BY DEF No
  <2>3. QED
    BY <2>1, <2>2, RebootIs
<1>15. step' < 6 \/ (step' = 6 /\ phase' = "send") => ~rebooted' /\ No(out', "AT+CFUN=1")
  <2>1. SUFFICES ASSUME step' < 6 \/ (step' = 6 /\ phase' = "send")
                 PROVE  ~rebooted' /\ No(out', "AT+CFUN=1")
    OBVIOUS
  <2>2. ~rebooted /\ No(out, "AT+CFUN=1")
    BY <1>8, <2>1 DEF RegShape
  <2>3. out # <<>> => Head(out).cmd # "AT+CFUN=1"
    BY <1>2, <2>2, HeadIs DEF No, SessionShape
  <2>4. Sends => step # 6
    BY <1>4, <2>1
  <2>5. QED
    BY <1>3, <1>5, <2>2, <2>3, <2>4, RebootIs
<1>16. Silent(Stock') \/ No(out', "AT+CFUN=1")
  <2>1. CASE No(out, "AT+CFUN=1")
    <3>1. CASE Sends /\ step = 6
      <4>1. ~rebooted /\ Silent(Stock)
        BY <1>4, <3>1 DEF RegShape
      <4>2. QED
        BY <1>4, <3>1, <4>1
    <3>2. CASE ~(Sends /\ step = 6)
      BY <1>3, <1>5, <2>1, <3>2
    <3>3. QED
      BY <3>1, <3>2
  <2>2. CASE Silent(Stock)
    <3>1. CASE Silent(Stock')
      BY <3>1
    <3>2. CASE rebooted
      BY <1>14, <3>2, RebootIs
    <3>3. CASE Answers /\ Head(out).cmd = "AT+CPIN?"
      BY <1>11, <3>3
    <3>4. QED
      BY <2>2, <3>1, <3>2, <3>3, SilentStep
  <2>3. QED
    BY <2>1, <2>2 DEF RegShape
<1>17. \A i \in 1 .. Len(Stock') : Stock'[i].text = "READY" => Truthful(Stock, i)'
  <2>1. CASE networks # {} => networks' # {}
    BY <2>1, TruthfulStep DEF RegShape
  <2>2. CASE ~(networks # {} => networks' # {})
    <3>1. /\ ~No(out, "AT+CFUN=1") /\ Silent(Stock) /\ ~rebooted
          /\ ~(Answers /\ Head(out).cmd = "AT+CPIN?")
      BY <1>6, <1>11, <2>2 DEF RegShape
    <3>2. Silent(Stock')
      BY <3>1, SilentStep
    <3>3. QED
      BY <3>2 DEF Silent
  <2>3. QED
    BY <2>1, <2>2
<1>18. step' > P + 2 => No(out', "AT+CFUN=1") /\ Truthful(Stock, 1)'
  <2>1. SUFFICES ASSUME step' > P + 2 PROVE No(out', "AT+CFUN=1") /\ Truthful(Stock, 1)'
    OBVIOUS
  <2>2. Truthful(Stock, 1) /\ No(out, "AT+CFUN=1")
    <3>1. CASE step > P + 2
      BY <3>1 DEF RegShape
    <3>2. CASE 1 \in 1 .. Len(Stock) /\ Stock[1].text = "READY"
      BY <3>2 DEF RegShape, Silent
    <3>3. QED
      BY <1>9, <2>1, <3>1, <3>2
  <2>3. networks # {} => networks' # {}
    BY <1>6, <2>2
  <2>4. Truthful(Stock, 1)'
    BY <2>2, <2>3, TruthfulStep
  <2>5. Sends => step # 6
    BY <1>1, <1>4, <2>1
  <2>6. QED
    BY <1>3, <1>5, <2>2, <2>4, <2>5
<1>19. ASSUME registered' \/ is_registered(stat') PROVE step > P + 2 /\ networks # {}
  <2>1. registered \/ is_registered(stat) => step > P + 2 /\ networks # {}
    BY DEF RegShape
  <2>2. ASSUME stat' # stat, is_registered(stat') PROVE step > P + 2 /\ networks # {}
    <3>1. ~Sends
      BY <2>2 DEF Sends, NoStat, is_registered
    <3>2. PICK k : Hears(k)
      BY <2>2, <3>1 DEF HostSteps, Moves, Fails, Drained, Answers, Reports, ModemKeeps
    <3>3. has_prefix /\ stat' = stat_field(line.fields) /\ step \in 1 .. P + 11
      BY <2>2, <3>2 DEF Hears
    <3>4. kind = "reg" /\ line.text \in Networks
      BY <3>3, PrefixIs
    <3>5. step \in {P + 5, P + 6}
      BY <3>3, <3>4, KindCases DEF kind
    <3>6. line = Stock[1] /\ 1 \in 1 .. Len(Stock)
      BY <1>2, <3>2, <3>4, LfIs DEF Hears, EndsAt, Texts
    <3>7. IsReg(Stock[1])
      BY <2>2, <3>3, <3>4, <3>6 DEF IsReg
    <3>8. step > P + 2 /\ Truthful(Stock, 1)
      BY <1>1, <3>5 DEF RegShape
    <3>9. QED
      BY <3>6, <3>7, <3>8 DEF Truthful
  <2>3. ASSUME registered', ~registered PROVE is_registered(stat')
    <3>1. PICK o : Ends(o)
      BY <2>3 DEF HostSteps, Sends, Moves, Hears, Fails, Drained, Answers, Reports, ModemKeeps, Quiet
    <3>2. QED
      BY <2>3, <3>1 DEF Ends, Follows
  <2>4. QED
    BY <1>19, <2>1, <2>2, <2>3
<1>20. registered' \/ is_registered(stat') => step' > P + 2 /\ networks' # {}
  <2>1. SUFFICES ASSUME registered' \/ is_registered(stat') PROVE step' > P + 2 /\ networks' # {}
    OBVIOUS
  <2>2. step > P + 2 /\ networks # {}
    BY <1>19, <2>1
  <2>3. QED
    BY <1>6, <1>10, <2>2 DEF RegShape
<1>21. step' > P + 7 => networks' # {}
  <2>1. SUFFICES ASSUME step' > P + 7 PROVE networks' # {}
    OBVIOUS
  <2>2. step > P + 7 \/ (step = P + 7 /\ registered)
    BY <1>1, <1>2, <2>1, StepIs
  <2>3. networks # {} /\ step > P + 2
    BY <1>1, <1>2, <2>2 DEF RegShape
  <2>4. QED
    BY <1>6, <2>3 DEF RegShape
<1> DEFINE z == is_registered(stat)
<1>22. z' <=> is_registered(stat')
  BY DEF is_registered
<1>23. QED
  BY <1>12, <1>13, <1>14, <1>15, <1>16, <1>17, <1>18, <1>20, <1>21, <1>22
     DEF RegShape, No, Silent

LEMMA RegNext == SessionShape /\ RegShape /\ [Next]_vars => RegShape'
<1> SUFFICES ASSUME SessionShape, RegShape, [Next]_vars PROVE RegShape'
  OBVIOUS
<1>1. CASE Next
  BY <1>1, NextIs, RegStep
<1>2. CASE UNCHANGED vars
  BY <1>2 DEF vars, hostVars, modemVars, RegShape, Stock, No, Silent, Truthful, IsReg,
              is_registered
<1>3. QED
  BY <1>1, <1>2

\* RegistrationIsReal: past the query that ends wait_for_registration() the
\* modem is on a network, whatever answers came late and to which command.
THEOREM AtSessionRegistrationIsReal == Spec => []RegistrationIsReal
<1>1. RegShape => RegistrationIsReal
  BY StepsOf DEF RegShape, RegistrationIsReal, AfterDrain
<1>2. Spec => []RegShape
  <2>1. SessionInit => SessionShape /\ RegShape
    BY ShapeInit, RegInit
  <2>2. QED
    BY <2>1, ShapeAlways, RegNext, PTL DEF Spec
<1>3. QED
  BY <1>1, <1>2, PTL

-----------------------------------------------------------------------------
(* The steps of a modem that answers in time, but for the faults.          *)

Steady == behind' = behind /\ (Sends \/ Moves \/ Answers \/ Reports)
Heard ==
  /\ \E k : Hears(k)
  /\ behind' = IF step = P + 2 /\ step' > step THEN behind + 1 ELSE behind
TimedOut ==
  /\ Fails /\ phase = "reply" /\ behind' = behind /\ ~Owed
  /\ Len(Stock') = 0 /\ \A i \in 1 .. Len(Stock) : Stock[i] # LF
InStep == Drained /\ behind' = 0 /\ ~Owed
Faulted ==
  /\ Fails \/ Drained
  /\ behind' = IF phase = "reply" THEN behind + 1 ELSE behind
MCSteps == Steady \/ Heard \/ TimedOut \/ InStep \/ Faulted

LEMMA InTimeIs ==
  ASSUME SessionShape, HostInTime
  PROVE  Steady \/ Heard \/ TimedOut \/ InStep
<1>1. ASSUME modemVars' = modemVars PROVE SameModem
  BY <1>1 DEF modemVars, SameModem
<1>2. CASE HostSend /\ behind' = behind
  BY <1>2, SendIs DEF Steady
<1>3. ASSUME HostRead,
             behind' = IF kind = "needle" /\ step' > step THEN behind + 1 ELSE behind
      PROVE  Steady \/ Heard
  <2>1. SameModem /\ told' = told
    BY <1>1, <1>3 DEF HostRead
  <2>2. CASE Read
    <3>1. Moves /\ step' = step
      BY <2>1, <2>2, ReadIs DEF Moves, Quiet
    <3>2. ~(step' > step)
      BY <3>1, StepCases DEF SessionShape
    <3>3. QED
      BY <1>3, <3>1, <3>2 DEF Steady
  <2>3. CASE ReadLine
    <3>1. PICK k : Hears(k)
      BY <2>1, <2>3, ReadLineIs
    <3>2. kind = "needle" <=> step = P + 2
      BY <3>1, KindCases DEF Hears, kind
    <3>3. QED
      BY <1>3, <3>1, <3>2 DEF Heard
  <2>4. QED
    BY <1>3, <2>2, <2>3 DEF HostRead
<1>4. CASE HostTimeout /\ ~Owed /\ behind' = behind
  <2>1. Timeout /\ SameModem /\ told' = told
    BY <1>1, <1>4 DEF HostTimeout
  <2>2. QED
    BY <1>4, <2>1, TimeoutIs DEF TimedOut
<1>5. CASE HostDrain /\ rx # <<>> /\ behind' = behind
  <2>1. drain /\ SameModem /\ told' = told
    BY <1>1, <1>5 DEF HostDrain
  <2>2. QED
    BY <1>5, <2>1, DrainIs DEF Steady
<1>6. CASE HostDrain /\ rx = <<>> /\ ~Owed /\ behind' = 0
  <2>1. drain /\ SameModem /\ told' = told
    BY <1>1, <1>6 DEF HostDrain
  <2>2. QED
    BY <1>6, <2>1, DrainIs DEF InStep
<1>7. QED
  BY <1>2, <1>3, <1>4, <1>5, <1>6 DEF HostInTime

LEMMA FaultIs ==
  ASSUME SessionShape, Fault
  PROVE  Faulted
<1>1. ASSUME modemVars' = modemVars PROVE SameModem
  BY <1>1 DEF modemVars, SameModem
<1>2. behind' = IF phase = "reply" THEN behind + 1 ELSE behind
  BY DEF Fault
<1>3. CASE HostTimeout
  BY <1>1, <1>2, <1>3, TimeoutIs DEF HostTimeout, Faulted
<1>4. CASE HostDrain /\ rx = <<>>
  BY <1>1, <1>2, <1>4, DrainIs DEF HostDrain, Faulted
<1>5. CASE HostError
  BY <1>1, <1>2, <1>5, ErrorIs DEF HostError, Faulted
<1>6. QED
  BY <1>3, <1>4, <1>5 DEF Fault

LEMMA MCNextIs ==
  ASSUME SessionShape, MCNext
  PROVE  MCSteps
<1>1. CASE ModemInTime
  BY <1>1, AnswerIs DEF ModemInTime, MCSteps, Steady
<1>2. CASE ModemEvent /\ UNCHANGED <<faults, behind>>
  BY <1>2, EventIs DEF MCSteps, Steady
<1>3. QED
  BY <1>1, <1>2, InTimeIs, FaultIs DEF MCNext, MCSteps

LEMMA MCStepsAre ==
  ASSUME MCSteps
  PROVE  HostSteps \/ Answers \/ Reports
  BY DEF MCSteps, Steady, Heard, TimedOut, InStep, Faulted, HostSteps

-----------------------------------------------------------------------------
(* Which command an answer is to.                                          *)

\* The OK or ERROR that ends an answer.
IsEnd(p) == p.text \in {"OK", "ERROR"}
\* The command whose answer is read, or would be next.
Current == IF phase = "reply" THEN nsent ELSE nsent + 1

Ordered(w, n) ==
  \A i \in 1 .. Len(w) : IsEnd(w[i]) =>
    /\ w[i].of \in 1 .. n
    /\ \A j \in i + 1 .. Len(w) : IsEnd(w[j]) => w[i].of < w[j].of
Near(w, c, b) == \A i \in 1 .. Len(w) : IsEnd(w[i]) => c <= w[i].of + b
Before(w, o) ==
  \A i \in 1 .. Len(w) : IsEnd(w[i]) => \A j \in 1 .. Len(o) : w[i].of < o[j].of
Rising(o) == \A i \in 1 .. Len(o) : \A j \in i + 1 .. Len(o) : o[i].of < o[j].of
NearOut(o, c, b) == \A j \in 1 .. Len(o) : c <= o[j].of + b

LagShape ==
  /\ behind \in Nat
  /\ Ordered(Stock, nsent) /\ Near(Stock, Current, behind) /\ Before(Stock, out)
  /\ Rising(out) /\ (~muxed => NearOut(out, Current, behind))

LEMMA CutLag ==
  ASSUME NEW w, NEW t, NEW k, IsCut(w, t, k), Len(w) \in Nat, NEW n, NEW c, NEW b, NEW o
  PROVE  /\ Ordered(w, n) => Ordered(t, n)
         /\ Near(w, c, b) => Near(t, c, b)
         /\ Before(w, o) => Before(t, o)
<1>1. k \in 0 .. Len(w) /\ Len(t) = Len(w) - k /\ \A i \in 1 .. Len(t) : t[i] = w[k + i]
  BY DEF IsCut
<1>2. \A i \in 1 .. Len(t) : k + i \in 1 .. Len(w) /\ t[i] = w[k + i]
  BY <1>1
<1>3. ASSUME Ordered(w, n), NEW i \in 1 .. Len(t), IsEnd(t[i])
      PROVE  /\ t[i].of \in 1 .. n
             /\ \A j \in i + 1 .. Len(t) : IsEnd(t[j]) => t[i].of < t[j].of
  <2>1. \A j \in i + 1 .. Len(t) : j \in 1 .. Len(t) /\ k + j \in k + i + 1 .. Len(w)
    BY <1>1
  <2>2. QED
    BY <1>2, <1>3, <2>1 DEF Ordered
<1>4. Near(w, c, b) => Near(t, c, b)
  BY <1>2 DEF Near
<1>5. Before(w, o) => Before(t, o)
  BY <1>2 DEF Before
<1>6. Ordered(w, n) => Ordered(t, n)
  BY <1>3 DEF Ordered
<1>7. QED
  BY <1>4, <1>5, <1>6

LEMMA CutOut ==
  ASSUME NEW o, NEW q, NEW k, IsCut(o, q, k), Len(o) \in Nat, NEW w, NEW c, NEW b
  PROVE  /\ Rising(o) => Rising(q)
         /\ NearOut(o, c, b) => NearOut(q, c, b)
         /\ Before(w, o) => Before(w, q)
<1>1. k \in 0 .. Len(o) /\ Len(q) = Len(o) - k /\ \A i \in 1 .. Len(q) : q[i] = o[k + i]
  BY DEF IsCut
<1>2. \A i \in 1 .. Len(q) : k + i \in 1 .. Len(o) /\ q[i] = o[k + i]
  BY <1>1
<1>3. ASSUME Rising(o), NEW i \in 1 .. Len(q), NEW j \in i + 1 .. Len(q) PROVE q[i].of < q[j].of
  <2>1. j \in 1 .. Len(q) /\ k + j \in k + i + 1 .. Len(o)
    BY <1>1
  <2>2. QED
    BY <1>2, <1>3, <2>1 DEF Rising
<1>4. Rising(o) => Rising(q)
  BY <1>3 DEF Rising
<1>5. QED
  BY <1>2, <1>4 DEF NearOut, Before

\* A cut at a place drops the items up to it.
LEMMA CutShortens ==
  ASSUME NEW s, NEW t, NEW k, IsCut(s, t, k), k > 0, Len(s) \in Nat
  PROVE  k \in 1 .. Len(s) /\ Len(t) = Len(s) - k /\ \A i \in 1 .. Len(t) : t[i] = s[k + i]
<1>1. k \in 0 .. Len(s) /\ Len(t) = Len(s) - k /\ \A i \in 1 .. Len(t) : t[i] = s[k + i]
  BY Zenon DEF IsCut
<1>2. k \in 1 .. Len(s)
  BY <1>1
<1>3. QED
  BY <1>1, <1>2, Zenon

\* The end of the first answer is read: those behind it are of later ones.
LEMMA EndRead ==
  ASSUME NEW w, NEW t, NEW k, IsCut(w, t, k), k > 0, Len(w) \in Nat, NEW n, Ordered(w, n),
         NEW o, Before(w, o), IsEnd(w[1]), NEW c \in Nat, NEW b \in Nat, n \in Nat,
         c <= w[1].of + b, \A j \in 1 .. Len(o) : o[j].of \in Nat
  PROVE  /\ Near(t, c + 1, b) /\ NearOut(o, c + 1, b)
<1>1. k \in 1 .. Len(w) /\ Len(t) = Len(w) - k /\ \A i \in 1 .. Len(t) : t[i] = w[k + i]
  BY CutShortens
<1>2. 1 \in 1 .. Len(w) /\ w[1].of \in 1 .. n
  BY <1>1 DEF Ordered
<1>3. ASSUME NEW i \in 1 .. Len(t), IsEnd(t[i]) PROVE c + 1 <= t[i].of + b
  <2>1. k + i \in 1 .. Len(w) /\ k + i \in 1 + 1 .. Len(w) /\ t[i] = w[k + i]
    BY <1>1
  <2>2. w[1].of < t[i].of /\ t[i].of \in 1 .. n
    BY <1>2, <1>3, <2>1 DEF Ordered
  <2> DEFINE x == w[1].of
             y == t[i].of
  <2> HIDE DEF x, y
  <2>3. x < y /\ x \in Nat /\ y \in Nat /\ c <= x + b
    BY <1>2, <2>2 DEF x, y
  <2>4. c + 1 <= y + b
    BY <2>3
  <2>5. QED
    BY <2>4 DEF y
<1>4. ASSUME NEW j \in 1 .. Len(o) PROVE c + 1 <= o[j].of + b
  <2> DEFINE x == w[1].of
             y == o[j].of
  <2>1. x < y /\ x \in Nat /\ y \in Nat /\ c <= x + b
    BY <1>2 DEF Before
  <2> HIDE DEF x, y
  <2>2. c + 1 <= y + b
    BY <2>1
  <2>3. QED
    BY <2>2 DEF y
<1>5. QED
  BY <1>3, <1>4 DEF Near, NearOut

\* What the modem appends ends at most one answer, that to the first command.
AddsEnd(w, t, m) ==
  \E n : /\ IsAdded(w, t, n)
         /\ \A i \in Len(w) + 1 .. Len(w) + n :
              IsEnd(t[i]) => i = Len(w) + n - 1 /\ t[i].of = m
AddsNone(w, t) ==
  \E n : IsAdded(w, t, n) /\ \A i \in Len(w) + 1 .. Len(w) + n : ~IsEnd(t[i])

LEMMA EndAdded ==
  ASSUME SessionShape, Answers \/ Reports
  PROVE  \/ AddsNone(Stock, Stock')
         \/ Answers /\ ~muxed /\ AddsEnd(Stock, Stock', Head(out).of)
<1> DEFINE w == Stock
           t == Stock'
           n == Len(w)
<1>1. n \in Nat
  BY StockType
<1>2. ASSUME t = w PROVE AddsNone(w, t)
  <2>1. IsAdded(w, t, 0)
    BY <1>1, <1>2 DEF IsAdded
  <2>2. \A i \in n + 1 .. n + 0 : ~IsEnd(t[i])
    BY <1>1
  <2>3. QED
    BY <2>1, <2>2 DEF AddsNone
<1>3. ~IsEnd(LF)
  BY LfIs DEF IsEnd
<1>4. ASSUME NEW v \in {"OK", "ERROR"}, NEW c, Finals(c, v) PROVE ~muxed /\ AddsEnd(w, t, c.of)
  <2> DEFINE l == Line(v, c.of, <<>>)
  <2>1. ~muxed /\ IsAdded(w, t, 2) /\ t[n + 2] = LF /\ t[n + 2 - 1] = l
    BY <1>4 DEF Finals, Says
  <2>2. l.of = c.of /\ n + 2 - 1 = n + 1 /\ \A i \in n + 1 .. n + 2 : i = n + 1 \/ i = n + 2
    BY <1>1 DEF Line
  <2> HIDE DEF l, t, n, w
  <2>3. \A i \in n + 1 .. n + 2 : IsEnd(t[i]) => i = n + 2 - 1 /\ t[i].of = c.of
    BY <1>3, <2>1, <2>2
  <2>4. QED
    BY <2>1, <2>3 DEF AddsEnd, n
<1>5. ASSUME NEW c, NEW x, NEW f, Informs(c, x, f) PROVE ~muxed /\ AddsEnd(w, t, c.of)
  <2> DEFINE a == Line(x, c.of, f)
             b == Line("OK", c.of, <<>>)
  <2>1. /\ ~muxed /\ IsAdded(w, t, 4) /\ t[n + 4] = LF /\ t[n + 4 - 1] = b
        /\ t[n + 1] = a /\ t[n + 2] = LF /\ x \notin {"OK", "ERROR"}
    BY <1>5 DEF Informs, Says, Tells
  <2>2. /\ b.of = c.of /\ n + 4 - 1 = n + 3 /\ a.text = x
        /\ \A i \in n + 1 .. n + 4 : i \in {n + 1, n + 2, n + 3, n + 4}
    BY <1>1 DEF Line
  <2>3. ~IsEnd(a)
    BY <2>1, <2>2 DEF IsEnd
  <2> HIDE DEF a, b, t, n, w
  <2>4. \A i \in n + 1 .. n + 4 : IsEnd(t[i]) => i = n + 4 - 1 /\ t[i].of = c.of
    BY <1>3, <2>1, <2>2, <2>3
  <2>5. QED
    BY <2>1, <2>4 DEF AddsEnd, n
<1>6. ASSUME NEW l \in Modem!Urcs, Says(2, l) PROVE AddsNone(w, t)
  <2>1. IsAdded(w, t, 2) /\ t[n + 2] = LF /\ t[n + 2 - 1] = l
    BY <1>6 DEF Says
  <2>2. ~IsEnd(l)
    BY UrcType DEF IsEnd
  <2>3. n + 2 - 1 = n + 1 /\ \A i \in n + 1 .. n + 2 : i = n + 1 \/ i = n + 2
    BY <1>1
  <2> HIDE DEF t, n, w
  <2>4. \A i \in n + 1 .. n + 2 : ~IsEnd(t[i])
    BY <1>3, <2>1, <2>2, <2>3
  <2>5. QED
    BY <2>1, <2>4 DEF AddsNone, n
<1>7. QED
  BY <1>2, <1>4, <1>5, <1>6 DEF Answers, Reports, Ignores

LEMMA AddLag ==
  ASSUME NEW w, NEW t, Len(w) \in Nat, NEW n \in Nat, NEW c \in Nat, NEW b \in Nat, NEW q,
         Ordered(w, n), Near(w, c, b), Before(w, q),
         \/ AddsNone(w, t)
         \/ \E m \in 1 .. n :
              /\ AddsEnd(w, t, m) /\ c <= m + b
              /\ \A i \in 1 .. Len(w) : IsEnd(w[i]) => w[i].of < m
              /\ \A j \in 1 .. Len(q) : m < q[j].of
  PROVE  Ordered(t, n) /\ Near(t, c, b) /\ Before(t, q)
<1> DEFINE New(x, i, k, m) == i = Len(w) + k - 1 /\ x.of = m
<1>1. PICK k \in Nat :
        /\ Len(t) = Len(w) + k /\ \A i \in 1 .. Len(w) : t[i] = w[i]
        /\ \/ \A i \in Len(w) + 1 .. Len(w) + k : ~IsEnd(t[i])
           \/ \E m \in 1 .. n :
                /\ \A i \in Len(w) + 1 .. Len(w) + k : IsEnd(t[i]) => New(t[i], i, k, m)
                /\ c <= m + b
                /\ \A i \in 1 .. Len(w) : IsEnd(w[i]) => w[i].of < m
                /\ \A j \in 1 .. Len(q) : m < q[j].of
  <2>1. CASE AddsNone(w, t)
    BY <2>1 DEF AddsNone, IsAdded
  <2>2. CASE ~AddsNone(w, t)
    BY <2>2 DEF AddsEnd, IsAdded
  <2>3. QED
    BY <2>1, <2>2
<1>2. \A i \in 1 .. Len(t) : i \in 1 .. Len(w) \/ i \in Len(w) + 1 .. Len(w) + k
  BY <1>1
<1>3. ASSUME NEW i \in 1 .. Len(t), IsEnd(t[i])
      PROVE  /\ t[i].of \in 1 .. n /\ c <= t[i].of + b
             /\ \A j \in 1 .. Len(q) : t[i].of < q[j].of
             /\ \A j \in i + 1 .. Len(t) : IsEnd(t[j]) => t[i].of < t[j].of
  <2>1. CASE i \in 1 .. Len(w)
    <3>1. t[i] = w[i] /\ IsEnd(w[i])
      BY <1>1, <1>3, <2>1
    <3>2. /\ t[i].of \in 1 .. n /\ c <= t[i].of + b
          /\ \A j \in 1 .. Len(q) : t[i].of < q[j].of
      BY <2>1, <3>1 DEF Ordered, Near, Before
    <3>3. ASSUME NEW j \in i + 1 .. Len(t), IsEnd(t[j]) PROVE t[i].of < t[j].of
      <4>1. CASE j \in 1 .. Len(w)
        <5>1. j \in i + 1 .. Len(w) /\ t[j] = w[j]
          BY <1>1, <4>1
        <5>2. QED
          BY <2>1, <3>1, <3>3, <5>1 DEF Ordered
      <4>2. CASE j \notin 1 .. Len(w)
        <5>1. j \in Len(w) + 1 .. Len(w) + k
          BY <1>1, <2>1, <4>2
        <5>2. QED
          BY <1>1, <2>1, <3>1, <3>3, <5>1
      <4>3. QED
        BY <4>1, <4>2
    <3>4. QED
      BY <3>2, <3>3
  <2>2. CASE i \in Len(w) + 1 .. Len(w) + k
    <3>1. PICK m \in 1 .. n :
            /\ \A j \in Len(w) + 1 .. Len(w) + k : IsEnd(t[j]) => New(t[j], j, k, m)
            /\ c <= m + b
            /\ \A j \in 1 .. Len(q) : m < q[j].of
      BY <1>1, <1>3, <2>2
    <3>2. t[i].of = m /\ i = Len(w) + k - 1
      BY <1>3, <2>2, <3>1
    <3>3. ASSUME NEW j \in i + 1 .. Len(t), IsEnd(t[j]) PROVE FALSE
      <4>1. j \in Len(w) + 1 .. Len(w) + k
        BY <1>1, <2>2
      <4>2. j = Len(w) + k - 1
        BY <3>1, <3>3, <4>1
      <4>3. QED
        BY <1>1, <3>2, <4>2
    <3>4. QED
      BY <3>1, <3>2, <3>3
  <2>3. QED
    BY <1>2, <2>1, <2>2
<1>4. QED
  BY <1>3 DEF Ordered, Near, Before

LEMMA NearMore ==
  ASSUME NEW w \in Seq(Items), NEW o \in Seq(Commands), NEW c \in Nat, NEW b \in Nat
  PROVE  /\ Near(w, c, b) => Near(w, c, b + 1) /\ Near(w, c + 1, b + 1)
         /\ NearOut(o, c, b) => NearOut(o, c, b + 1) /\ NearOut(o, c + 1, b + 1)
<1>1. /\ \A i \in 1 .. Len(w) : w[i].of \in Nat
      /\ \A j \in 1 .. Len(o) : o[j].of \in Nat
  <2>1. (\A x \in Items : x.of \in Nat) /\ (\A x \in Commands : x.of \in Nat)
    BY DEF Items, Pieces, Commands
  <2>2. (\A i \in 1 .. Len(w) : w[i] \in Items) /\ (\A j \in 1 .. Len(o) : o[j] \in Commands)
    OBVIOUS
  <2>3. QED
    BY <2>1, <2>2
<1>2. \A x \in Nat : c <= x + b => c <= x + (b + 1) /\ c + 1 <= x + (b + 1)
  OBVIOUS
<1>3. QED
  BY <1>1, <1>2 DEF Near, NearOut

LEMMA MuxedStays ==
  ASSUME SessionShape, HostSteps \/ Answers \/ Reports, muxed
  PROVE  muxed'
<1>1. CASE Answers
  BY <1>1 DEF Answers, Finals, Informs, Says, Ignores, SameModem
<1>2. QED
  BY <1>1 DEF HostSteps, Sends, Moves, Hears, Fails, Drained, HostKeeps, SameModem, Reports

\* How the count of commands moves on.
LEMMA CurrentIs ==
  ASSUME SessionShape, MCSteps
  PROVE  /\ Current \in Nat /\ (Current = nsent \/ Current = nsent + 1)
         /\ Sends => Current = nsent + 1 /\ Current' = Current /\ nsent' = nsent + 1
         /\ ~Sends => /\ nsent' = nsent
                      /\ Current' = Current \/ (phase = "reply" /\ Current' = Current + 1)
         /\ Quiet /\ ~Sends => Current' = Current
<1>1. nsent \in Nat
  BY DEF SessionShape
<1>2. HostSteps \/ Answers \/ Reports
  BY MCStepsAre
<1>3. ~Sends => nsent' = nsent
  BY <1>2 DEF HostSteps, Moves, Hears, Fails, Drained, HostKeeps, Answers, Reports, ModemKeeps
<1>4. Sends => phase = "send" /\ phase' = "reply" /\ nsent' = nsent + 1
  BY DEF Sends
<1>5. Quiet => phase' = phase
  BY DEF Quiet
<1>6. ~Sends => Quiet \/ (\E o : Ends(o) /\ phase' # "reply")
  <2>1. \A o : Ends(o) => phase' # "reply"
    BY DEF Ends, Follows
  <2>2. QED
    BY <1>2, <2>1 DEF HostSteps, Moves, Hears, Fails, Drained, Answers, Reports, ModemKeeps
<1>7. Sends => ~Quiet
  BY <1>4, <1>5
<1>8. QED
  BY <1>1, <1>3, <1>4, <1>5, <1>6, <1>7 DEF Current

LEMMA HostKeepsOut ==
  ASSUME HostSteps, ~Sends
  PROVE  out' = out /\ nsent' = nsent /\ muxed' = muxed /\ told' = told
  BY DEF HostSteps, Moves, Hears, Fails, Drained, HostKeeps, SameModem

\* What cuts the Stock, and gives up no command, keeps the lag.
LEMMA CutStep ==
  ASSUME SessionShape, LagShape, MCSteps, HostSteps, ~Sends,
         \/ behind' = behind /\ Current' = Current
         \/ behind' = behind + 1
  PROVE  LagShape'
<1>1. PICK k : IsCut(Stock, Stock', k)
  BY StockCut
<1>2. out' = out /\ nsent' = nsent /\ muxed' = muxed
  BY HostKeepsOut
<1>3. Current \in Nat /\ behind \in Nat /\ (Current' = Current \/ Current' = Current + 1)
  BY CurrentIs DEF LagShape
<1> DEFINE w == Stock
           t == Stock'
           c == Current
           d == Current'
           b == behind
           e == behind'
<1>4. w \in Seq(Items) /\ out \in Seq(Commands) /\ Len(w) \in Nat
  BY StockType DEF SessionShape
<1>5. Ordered(w, nsent) /\ Near(w, c, b) /\ Before(w, out) /\ (~muxed => NearOut(out, c, b))
  BY DEF LagShape
<1>6. e \in Nat
  BY <1>3
<1>7. c \in Nat /\ b \in Nat /\ (d = c \/ d = c + 1) /\ (e = b + 1 \/ (e = b /\ d = c))
  BY <1>3
<1>8. Rising(out)
  BY DEF LagShape
<1> HIDE DEF c, d, b, e, w, t
<1>9. Near(w, d, e) /\ (~muxed => NearOut(out, d, e))
  BY <1>4, <1>5, <1>7, NearMore
<1>10. Ordered(t, nsent) /\ Near(t, d, e) /\ Before(t, out)
  BY <1>1, <1>4, <1>5, <1>9, CutLag DEF w, t
<1>11. Ordered(Stock, nsent)' /\ Near(Stock, Current, behind)' /\ Before(Stock, out)'
       /\ Rising(out)' /\ (~muxed => NearOut(out, Current, behind))'
  BY <1>2, <1>8, <1>9, <1>10 DEF Ordered, Near, Before, Rising, NearOut, IsEnd, t, d, e
<1>12. QED
  BY <1>6, <1>11 DEF LagShape, e

LEMMA EmptyStep ==
  ASSUME SessionShape, LagShape, HostSteps, ~Sends, Len(Stock') = 0, ~Owed, behind' \in Nat
  PROVE  LagShape'
<1>1. out' = out /\ nsent' = nsent /\ muxed' = muxed
  BY HostKeepsOut
<1>2. muxed \/ Len(out) = 0
  BY DEF Owed, SessionShape
<1>3. Rising(out)
  BY DEF LagShape
<1>4. Ordered(Stock, nsent)' /\ Near(Stock, Current, behind)' /\ Before(Stock, out)'
  BY DEF Ordered, Near, Before
<1>5. Rising(out)' /\ (~muxed => NearOut(out, Current, behind))'
  BY <1>1, <1>2, <1>3 DEF Rising, NearOut
<1>6. QED
  BY <1>4, <1>5 DEF LagShape

LEMMA HeardStep ==
  ASSUME SessionShape, LagShape, MCSteps, Heard
  PROVE  LagShape'
<1>1. PICK k : Hears(k)
  BY DEF Heard
<1>2. HostSteps /\ ~Sends /\ phase = "reply" /\ step \in 1 .. P + 11
  BY <1>1 DEF HostSteps, Hears, Sends
<1>3. behind \in Nat /\ (behind' = behind \/ behind' = behind + 1)
  BY DEF LagShape, Heard
<1>4. CASE verdict = "more"
  <2>1. Current' = Current
    BY <1>1, <1>2, <1>4, CurrentIs DEF Hears
  <2>2. QED
    BY <1>2, <1>3, <2>1, CutStep
<1>5. CASE verdict \in {"ok", "none", "err"} /\ line.text \notin {"OK", "ERROR"}
  <2>1. kind = "needle" /\ verdict = "ok"
    BY <1>5, VerdictIs
  <2>2. step = P + 2 /\ Ends("ok")
    BY <1>1, <1>2, <2>1, KindCases DEF kind, Hears
  <2>3. step' = step + 1 /\ step \in Nat
    BY <1>2, <2>2 DEF Ends, Follows
  <2>4. step' > step
    BY <2>3
  <2>5. behind' = behind + 1
    BY <2>2, <2>4 DEF Heard
  <2>6. QED
    BY <1>2, <2>5, CutStep
<1>6. CASE verdict \in {"ok", "none", "err"} /\ line.text \in {"OK", "ERROR"}
  <2>1. k = 2 /\ line = Stock[1] /\ IsEnd(Stock[1]) /\ IsCut(Stock, Stock', 2) /\ EndsAt(Stock, 2)
    BY <1>1, <1>6 DEF Hears, IsEnd, Texts
  <2>2. CASE behind' = behind + 1
    BY <1>2, <2>2, CutStep
  <2>3. CASE behind' = behind
    <3>1. out' = out /\ nsent' = nsent /\ muxed' = muxed
      BY <1>2, HostKeepsOut
    <3> DEFINE w == Stock
               t == Stock'
               c == Current
               d == Current'
    <3>2. w \in Seq(Items) /\ out \in Seq(Commands) /\ Len(w) \in Nat /\ nsent \in Nat
      BY StockType DEF SessionShape
    <3>3. c \in Nat /\ (d = c \/ d = c + 1)
      BY CurrentIs
    <3>4. Ordered(w, nsent) /\ Near(w, c, behind) /\ Before(w, out) /\ Rising(out)
          /\ (~muxed => NearOut(out, c, behind))
      BY DEF LagShape
    <3>5. c <= w[1].of + behind
      <4>1. 1 \in 1 .. Len(w)
        BY <2>1, <3>2 DEF EndsAt
      <4>2. QED
        BY <2>1, <3>4, <4>1 DEF Near
    <3>6. \A j \in 1 .. Len(out) : out[j].of \in Nat
      <4>1. \A j \in 1 .. Len(out) : out[j].of \in 1 .. nsent
        BY DEF SessionShape
      <4>2. QED
        BY <4>1
    <3>7. Ordered(t, nsent) /\ Near(t, c, behind) /\ Before(t, out)
      BY <2>1, <3>2, <3>4, CutLag
    <3>8. IsCut(w, t, 2) /\ 2 > 0 /\ behind \in Nat /\ IsEnd(w[1])
      BY <1>3, <2>1
    <3> HIDE DEF c, d, w, t
    <3>9. Near(t, c + 1, behind) /\ NearOut(out, c + 1, behind)
      BY <3>2, <3>3, <3>4, <3>5, <3>6, <3>8, EndRead
    <3>10. Near(t, d, behind) /\ (~muxed => NearOut(out, d, behind))
      BY <3>3, <3>4, <3>7, <3>9
    <3>11. Ordered(Stock, nsent)' /\ Near(Stock, Current, behind)' /\ Before(Stock, out)'
           /\ Rising(out)' /\ (~muxed => NearOut(out, Current, behind))'
      BY <2>3, <3>1, <3>4, <3>7, <3>10 DEF Ordered, Near, Before, Rising, NearOut, IsEnd, t, d
    <3>12. QED
      BY <1>3, <2>3, <3>11 DEF LagShape
  <2>4. QED
    BY <1>3, <2>2, <2>3
<1>7. QED
  BY <1>4, <1>5, <1>6, VerdictIs

LEMMA SendsStep ==
  ASSUME SessionShape, LagShape, MCSteps, Sends, behind' = behind
  PROVE  LagShape'
<1> DEFINE w == Stock
           q == out'
           n == nsent
           c == Current
           d == Current'
<1>1. /\ w \in Seq(Items) /\ Len(w) \in Nat /\ n \in Nat
      /\ \A j \in 1 .. Len(out) : out[j].of \in 1 .. n
  BY StockType DEF SessionShape
<1>2. /\ Len(q) = Len(out) + 1 /\ Len(out) \in Nat
      /\ \A j \in 1 .. Len(out) : q[j] = out[j]
      /\ q[Len(out) + 1].of = n + 1
  BY SentIs
<1>3. nsent' = n + 1 /\ c = n + 1 /\ d = c
  BY CurrentIs
<1>4. behind \in Nat /\ Ordered(w, n) /\ Near(w, c, behind) /\ Before(w, out) /\ Rising(out)
      /\ (~muxed => NearOut(out, c, behind))
  BY DEF LagShape
<1>5. Stock' = w /\ muxed' = muxed
  BY DEF Sends, Stock, SameModem
<1> HIDE DEF w, q, n, c, d
<1>6. \A j \in 1 .. Len(q) : j \in 1 .. Len(out) \/ j = Len(out) + 1
  BY <1>2
<1>7. Ordered(w, n + 1)
  BY <1>1, <1>4 DEF Ordered
<1>8. Before(w, q)
  <2>1. \A i \in 1 .. Len(w) : IsEnd(w[i]) => w[i].of \in 1 .. n
    BY <1>4 DEF Ordered
  <2>2. \A x \in 1 .. n : x < n + 1
    BY <1>1
  <2>3. QED
    BY <1>2, <1>4, <1>6, <2>1, <2>2 DEF Before
<1>9. Rising(q)
  <2>1. ASSUME NEW i \in 1 .. Len(q), NEW j \in i + 1 .. Len(q) PROVE q[i].of < q[j].of
    <3>1. i \in 1 .. Len(out) /\ q[i] = out[i] /\ j \in 1 .. Len(q)
      BY <1>2
    <3>2. CASE j \in 1 .. Len(out)
      BY <1>2, <1>4, <3>1, <3>2 DEF Rising
    <3>3. CASE j = Len(out) + 1
      BY <1>1, <1>2, <3>1, <3>3
    <3>4. QED
      BY <1>6, <3>1, <3>2, <3>3
  <2>2. QED
    BY <2>1 DEF Rising
<1>10. ~muxed => NearOut(q, d, behind)
  <2>1. d <= (n + 1) + behind
    BY <1>1, <1>3, <1>4
  <2>2. QED
    BY <1>2, <1>3, <1>4, <1>6, <2>1 DEF NearOut
<1>11. Near(w, d, behind)
  BY <1>3, <1>4
<1>12. Ordered(Stock, nsent)' /\ Near(Stock, Current, behind)' /\ Before(Stock, out)'
       /\ Rising(out)' /\ (~muxed => NearOut(out, Current, behind))'
  BY <1>3, <1>5, <1>7, <1>8, <1>9, <1>10, <1>11
     DEF Ordered, Near, Before, Rising, NearOut, IsEnd, d, q
<1>13. QED
  BY <1>4, <1>12 DEF LagShape

LEMMA ModemLagStep ==
  ASSUME SessionShape, LagShape, MCSteps, Answers \/ Reports, behind' = behind
  PROVE  LagShape'
<1> DEFINE w == Stock
           t == Stock'
           q == out'
           n == nsent
           c == Current
           b == behind
<1>1. /\ w \in Seq(Items) /\ Len(w) \in Nat /\ n \in Nat /\ Len(out) \in Nat
      /\ \A j \in 1 .. Len(out) : out[j].of \in 1 .. n
  BY StockType DEF SessionShape
<1>2. /\ b \in Nat /\ Ordered(w, n) /\ Near(w, c, b) /\ Before(w, out) /\ Rising(out)
      /\ (~muxed => NearOut(out, c, b))
  BY DEF LagShape
<1>3. Quiet /\ nsent' = n /\ (~muxed' => ~muxed)
  BY MuxedStays DEF Answers, Reports, ModemKeeps
<1>4. Current' = c /\ c \in Nat
  <2>1. ~Sends
    BY <1>3 DEF Quiet, Sends
  <2>2. QED
    BY <1>3, <2>1, CurrentIs
<1>5. /\ Rising(q) /\ Before(w, q)
      /\ ~muxed => NearOut(q, c, b)
  <2>1. Sends \/ \E k : IsCut(out, q, k)
    BY OutCut
  <2>2. ~Sends
    BY <1>3 DEF Quiet, Sends
  <2>3. QED
    BY <1>1, <1>2, <2>1, <2>2, CutOut
<1>6. ASSUME Answers, ~muxed, AddsEnd(w, t, Head(out).of)
      PROVE  \E m \in 1 .. n :
               /\ AddsEnd(w, t, m) /\ c <= m + b
               /\ \A i \in 1 .. Len(w) : IsEnd(w[i]) => w[i].of < m
               /\ \A j \in 1 .. Len(q) : m < q[j].of
  <2> DEFINE m == Head(out).of
  <2>1. Head(out) = out[1] /\ 1 \in 1 .. Len(out)
    BY <1>1, <1>6, HeadIs DEF Answers
  <2>2. m \in 1 .. n /\ c <= m + b
    BY <1>1, <1>2, <1>6, <2>1 DEF NearOut
  <2>3. \A i \in 1 .. Len(w) : IsEnd(w[i]) => w[i].of < m
    BY <1>2, <2>1 DEF Before
  <2>4. \A j \in 1 .. Len(q) : m < q[j].of
    <3>1. q = Tail(out) \/ q = <<>>
      BY <1>6 DEF Answers, Finals, Informs, Ignores
    <3>2. \A j \in 1 .. Len(Tail(out)) :
            Tail(out)[j] = out[j + 1] /\ j + 1 \in 1 + 1 .. Len(out)
      BY <1>1, <1>6, HeadIs DEF Answers
    <3>3. \A j \in 1 .. Len(Tail(out)) : m < Tail(out)[j].of
      BY <1>2, <2>1, <3>2 DEF Rising
    <3>4. CASE q = Tail(out)
      BY <3>3, <3>4
    <3>5. CASE q = <<>>
      <4>1. Len(q) = 0
        BY <3>5
      <4>2. QED
        BY <4>1
    <3>6. QED
      BY <3>1, <3>4, <3>5
  <2> HIDE DEF m
  <2>5. AddsEnd(w, t, m)
    BY <1>6 DEF m
  <2>6. QED
    BY <2>2, <2>3, <2>4, <2>5
<1>7. AddsNone(w, t) \/ (Answers /\ ~muxed /\ AddsEnd(w, t, Head(out).of))
  BY EndAdded
<1> HIDE DEF w, t, q, n, c, b
<1>8. Ordered(t, n) /\ Near(t, c, b) /\ Before(t, q)
  <2>1. CASE AddsNone(w, t)
    BY <1>1, <1>2, <1>4, <1>5, <2>1, AddLag
  <2>2. CASE Answers /\ ~muxed /\ AddsEnd(w, t, Head(out).of)
    BY <1>1, <1>2, <1>4, <1>5, <1>6, <2>2, AddLag
  <2>3. QED
    BY <1>7, <2>1, <2>2
<1>9. Ordered(Stock, nsent)' /\ Near(Stock, Current, behind)' /\ Before(Stock, out)'
      /\ Rising(out)' /\ (~muxed => NearOut(out, Current, behind))'
  BY <1>3, <1>4, <1>5, <1>8
     DEF Ordered, Near, Before, Rising, NearOut, IsEnd, t, q, n, c, b
<1>10. QED
  BY <1>2, <1>9 DEF LagShape, b

LEMMA LagStep ==
  ASSUME SessionShape, LagShape, MCSteps
  PROVE  LagShape'
<1>1. behind \in Nat
  BY DEF LagShape
<1>2. CASE Steady /\ (Answers \/ Reports)
  BY <1>2, ModemLagStep DEF Steady
<1>3. CASE Steady /\ Sends
  BY <1>3, SendsStep DEF Steady
<1>4. CASE Steady /\ Moves
  <2>1. HostSteps /\ ~Sends /\ Quiet
    BY <1>4 DEF HostSteps, Moves, Sends, Quiet
  <2>2. Current' = Current
    BY <2>1, CurrentIs
  <2>3. QED
    BY <1>4, <2>1, <2>2, CutStep DEF Steady
<1>5. CASE Heard
  BY <1>5, HeardStep
<1>6. ASSUME Fails \/ Drained PROVE HostSteps /\ ~Sends
  <2>1. phase' # "reply"
    BY <1>6 DEF Fails, Drained, Ends, Follows
  <2>2. QED
    BY <1>6, <2>1 DEF HostSteps, Sends
<1>7. CASE TimedOut \/ InStep
  <2>1. HostSteps /\ ~Sends /\ ~Owed /\ behind' \in Nat
    BY <1>1, <1>6, <1>7 DEF TimedOut, InStep
  <2>2. Len(Stock') = 0
    BY <1>7 DEF TimedOut, InStep, Drained
  <2>3. QED
    BY <2>1, <2>2, EmptyStep
<1>8. CASE Faulted
  <2>1. HostSteps /\ ~Sends
    BY <1>6, <1>8 DEF Faulted
  <2>2. \/ behind' = behind /\ Current' = Current
        \/ behind' = behind + 1
    BY <1>8, <2>1, CurrentIs DEF Faulted
  <2>3. QED
    BY <2>1, <2>2, CutStep
<1>9. QED
  BY <1>2, <1>3, <1>4, <1>5, <1>7, <1>8 DEF MCSteps, Steady

LEMMA LagInit == MCInit => LagShape
<1> SUFFICES ASSUME MCInit PROVE LagShape
  OBVIOUS
<1>1. rx = <<>> /\ held = <<>> /\ out = <<>> /\ behind = 0
  BY DEF MCInit, SessionInit, Init
<1>2. Len(Stock) = 0 /\ Len(out) = 0
  BY <1>1 DEF Stock, Cat
<1>3. QED
  BY <1>1, <1>2 DEF LagShape, Ordered, Near, Before, Rising, NearOut

LEMMA LagNext == SessionShape /\ LagShape /\ [MCNext]_mcVars => LagShape'
<1> SUFFICES ASSUME SessionShape, LagShape, [MCNext]_mcVars PROVE LagShape'
  OBVIOUS
<1>1. CASE MCNext
  BY <1>1, MCNextIs, LagStep
<1>2. CASE UNCHANGED mcVars
  BY <1>2 DEF mcVars, vars, hostVars, modemVars, LagShape, Stock, Current,
              Ordered, Near, Before, Rising, NearOut, IsEnd
<1>3. QED
  BY <1>1, <1>2

\* A modem in time is one of those of Spec.
LEMMA MCShapeAlways == MCSpec => []SessionShape
<1>1. MCInit => SessionShape
  BY ShapeInit DEF MCInit
<1>2. [MCNext]_mcVars => [Next]_vars
  BY DEF MCNext, mcVars, Next, HostInTime, ModemInTime, Fault
<1>3. SessionShape /\ [MCNext]_mcVars => SessionShape'
  BY <1>2, ShapeStep
<1>4. QED
  BY <1>1, <1>3, PTL DEF MCSpec

LEMMA LagAlways == MCSpec => []LagShape
  BY LagInit, LagNext, MCShapeAlways, PTL DEF MCSpec

\* AnswersLagByFaults: the OK or ERROR that ends a command is that of a command
\* no further back than the number given up since nothing was under way.
THEOREM AtSessionAnswersLag == MCSpec => AnswersLagByFaults
<1> DEFINE Ended == phase = "reply" /\ phase' # "reply" /\ HasLine
                      /\ line.text \in {"OK", "ERROR"}
<1>1. ASSUME SessionShape, LagShape, MCNext, Ended PROVE nsent - line.of <= behind'
  <2>1. MCSteps
    BY <1>1, MCNextIs
  <2>2. line = Stock[1] /\ \E k : EndsAt(Stock, k)
    <3>1. line.text \in Texts
      BY <1>1 DEF Texts
    <3>2. QED
      BY <1>1, <3>1, LineIs
  <2>3. 1 \in 1 .. Len(Stock) /\ IsEnd(Stock[1])
    BY <1>1, <2>2, StockType DEF EndsAt, IsEnd
  <2>4. nsent <= Stock[1].of + behind
    BY <1>1, <2>3 DEF LagShape, Near, Current
  <2>5. Stock[1].of \in 1 .. nsent /\ nsent \in Nat
    BY <1>1, <2>3 DEF LagShape, Ordered, SessionShape
  <2>6. behind' = behind \/ behind' = behind + 1
    <3>1. ~InStep
      BY <1>1 DEF InStep, Drained
    <3>2. QED
      BY <2>1, <3>1 DEF MCSteps, Steady, Heard, TimedOut, Faulted
  <2>7. behind \in Nat
    BY <1>1 DEF LagShape
  <2> DEFINE x == Stock[1].of
             e == behind'
  <2>8. nsent - x <= e
    <3>1. nsent <= x + behind /\ x \in Nat /\ nsent \in Nat /\ behind \in Nat
          /\ (e = behind \/ e = behind + 1)
      BY <2>4, <2>5, <2>6, <2>7
    <3> HIDE DEF x, e
    <3>2. QED
      BY <3>1
  <2>9. QED
    BY <2>2, <2>8
<1>2. SessionShape /\ LagShape /\ [MCNext]_mcVars
        => [phase = "reply" /\ phase' # "reply" /\ HasLine
              /\ line.text \in {"OK", "ERROR"} => nsent - line.of <= behind']_mcVars
  BY <1>1
<1>3. QED
  BY <1>2, MCShapeAlways, LagAlways, PTL DEF MCSpec, AnswersLagByFaults

-----------------------------------------------------------------------------
(* Ok means that AT+CMUX was acknowledged.                                 *)

AckShape ==
  /\ phase = "reply" => \A j \in 1 .. Len(out) :
       out[j].of = nsent => out[j].cmd = Script[step].cmd
  /\ phase = "reply" /\ step = P + 11 => \A i \in 1 .. Len(Stock) :
       Stock[i].text = "OK" /\ Stock[i].of = nsent => muxed
  /\ phase = "ok" /\ behind = 0 => muxed

\* What is read in the phase "reply" was waited for before the step.
LEMMA ReplyIs ==
  ASSUME SessionShape, HostSteps \/ Answers \/ Reports, phase' = "reply", ~Sends
  PROVE  phase = "reply" /\ step' = step /\ nsent' = nsent /\ Quiet
<1>1. \A o : ~Ends(o)
  BY DEF Ends, Follows
<1>2. QED
  BY <1>1 DEF HostSteps, Moves, Hears, Fails, Drained, HostKeeps, Answers, Reports, ModemKeeps,
              Quiet

LEMMA OwnCommand ==
  ASSUME SessionShape, AckShape, HostSteps \/ Answers \/ Reports, phase' = "reply"
  PROVE  \A j \in 1 .. Len(out') : out'[j].of = nsent' => out'[j].cmd = Script[step'].cmd
<1> DEFINE q == out'
           n == nsent'
           c == Script[step'].cmd
<1>1. nsent \in Nat /\ Len(out) \in Nat /\ \A j \in 1 .. Len(out) : out[j].of \in 1 .. nsent
  BY DEF SessionShape
<1>2. CASE Sends
  <2>1. /\ Len(q) = Len(out) + 1 /\ \A j \in 1 .. Len(out) : q[j] = out[j]
        /\ q[Len(out) + 1].cmd = c /\ n = nsent + 1
    BY <1>2, SentIs DEF Sends
  <2> HIDE DEF q, n, c
  <2>2. \A j \in 1 .. Len(q) : j \in 1 .. Len(out) \/ j = Len(out) + 1
    BY <1>1, <2>1
  <2>3. \A j \in 1 .. Len(out) : out[j].of # n
    BY <1>1, <2>1
  <2>4. \A j \in 1 .. Len(q) : q[j].of = n => q[j].cmd = c
    BY <2>1, <2>2, <2>3
  <2>5. QED
    BY <2>4 DEF q, n, c
<1>3. CASE ~Sends
  <2>1. PICK k : IsCut(out, q, k)
    BY <1>3, OutCut
  <2>2. phase = "reply" /\ c = Script[step].cmd /\ n = nsent
    BY <1>3, ReplyIs
  <2>3. \A j \in 1 .. Len(out) : out[j].of = n => out[j].cmd = c
    BY <2>2 DEF AckShape
  <2>4. \A j \in 1 .. Len(q) : k + j \in 1 .. Len(out) /\ q[j] = out[k + j]
    BY <1>1, <2>1 DEF IsCut
  <2> HIDE DEF q, n, c
  <2>5. \A j \in 1 .. Len(q) : q[j].of = n => q[j].cmd = c
    BY <2>3, <2>4
  <2>6. QED
    BY <2>5 DEF q, n, c
<1>4. QED
  BY <1>2, <1>3

\* The modem answers the command that is waited for.
LEMMA AnsweredIs ==
  ASSUME SessionShape, Answers \/ Reports, NEW i \in 1 .. Len(Stock'), IsEnd(Stock'[i])
  PROVE  \/ i \in 1 .. Len(Stock) /\ Stock'[i] = Stock[i]
         \/ /\ Answers /\ ~muxed /\ 1 \in 1 .. Len(out) /\ Stock'[i].of = out[1].of
            /\ \/ Finals(out[1], Stock'[i].text)
               \/ out[1].cmd \in Modem!Queries
<1> DEFINE w == Stock
           t == Stock'
           n == Len(w)
<1>1. n \in Nat /\ Len(out) \in Nat
  BY StockType DEF SessionShape
<1>2. ~IsEnd(LF)
  BY LfIs DEF IsEnd
<1>3. ASSUME NEW k, IsAdded(w, t, k) PROVE i \in n + 1 .. n + k \/ (i \in 1 .. n /\ t[i] = w[i])
  BY <1>1, <1>3 DEF IsAdded
<1>4. ASSUME t = w PROVE i \in 1 .. n /\ t[i] = w[i]
  BY <1>4
<1>5. ASSUME Answers PROVE Head(out) = out[1] /\ 1 \in 1 .. Len(out)
  BY <1>1, <1>5, HeadIs DEF Answers
<1>6. ASSUME NEW v, NEW c, Finals(c, v), i \notin 1 .. n
      PROVE  ~muxed /\ t[i].of = c.of /\ t[i].text = v
  <2> DEFINE l == Line(v, c.of, <<>>)
  <2>1. ~muxed /\ IsAdded(w, t, 2) /\ t[n + 2] = LF /\ t[n + 2 - 1] = l
    BY <1>6 DEF Finals, Says
  <2>2. l.of = c.of /\ l.text = v
    BY DEF Line
  <2>3. i \in n + 1 .. n + 2
    BY <1>3, <1>6, <2>1
  <2> HIDE DEF l
  <2>4. i = n + 2 - 1
    BY <1>1, <1>2, <2>1, <2>3
  <2>5. QED
    BY <2>1, <2>2, <2>4
<1>7. ASSUME NEW x, NEW f, Answers, Informs(out[1], x, f), i \notin 1 .. n
      PROVE  ~muxed /\ t[i].of = out[1].of /\ out[1].cmd \in Modem!Queries
  <2>1. ~muxed /\ out[1].cmd \in Modem!Queries
    BY <1>7 DEF Informs, Says
  <2> DEFINE a == Line(x, out[1].of, f)
             b == Line("OK", out[1].of, <<>>)
  <2>2. /\ IsAdded(w, t, 4) /\ t[n + 4] = LF /\ t[n + 4 - 1] = b
        /\ t[n + 1] = a /\ t[n + 2] = LF /\ x \notin {"OK", "ERROR"}
    BY <1>7 DEF Informs, Says, Tells
  <2>3. ~IsEnd(a) /\ b.of = out[1].of
    BY <2>2 DEF IsEnd, Line
  <2>4. i \in n + 1 .. n + 4
    BY <1>3, <1>7, <2>2
  <2> HIDE DEF a, b, t
  <2>5. IsEnd(t[i])
    BY DEF t
  <2>6. i = n + 4 - 1
    BY <1>1, <1>2, <2>2, <2>3, <2>4, <2>5
  <2>7. QED
    BY <2>1, <2>2, <2>3, <2>6
<1>8. CASE i \in 1 .. n
  <2>1. t[i] = w[i]
    <3>1. (\E k : IsAdded(w, t, k)) \/ t = w
      BY StockAdded
    <3>2. QED
      BY <1>8, <3>1 DEF IsAdded
  <2>2. QED
    BY <1>8, <2>1
<1>9. CASE i \notin 1 .. n
  <2>1. CASE Reports
    <3>1. AddsNone(w, t)
      <4>1. ~Answers \/ (\E l \in Modem!Urcs : Says(2, l)) \/ t = w
        BY <2>1 DEF Reports
      <4>2. CASE \E l \in Modem!Urcs : Says(2, l)
        <5>1. PICK l \in Modem!Urcs : Says(2, l)
          BY <4>2
        <5>2. IsAdded(w, t, 2) /\ t[n + 2] = LF /\ t[n + 2 - 1] = l
          BY <5>1 DEF Says
        <5>3. ~IsEnd(l)
          BY UrcType DEF IsEnd
        <5>4. n + 2 - 1 = n + 1 /\ \A j \in n + 1 .. n + 2 : j = n + 1 \/ j = n + 2
          BY <1>1
        <5>5. \A j \in n + 1 .. n + 2 : ~IsEnd(t[j])
          BY <1>2, <5>2, <5>3, <5>4
        <5>6. QED
          BY <5>2, <5>5 DEF AddsNone
      <4>3. QED
        BY <1>4, <1>9, <2>1, <4>2 DEF Reports
    <3>2. QED
      BY <1>3, <1>9, <3>1 DEF AddsNone
  <2>2. CASE Answers
    <3>1. CASE \E v \in {"OK", "ERROR"} : Finals(Head(out), v)
      BY <1>5, <1>6, <1>9, <2>2, <3>1
    <3>2. CASE \E x \in Texts, f \in Seq(Nat) : Informs(Head(out), x, f)
      BY <1>5, <1>7, <1>9, <2>2, <3>2
    <3>3. CASE Ignores
      BY <1>4, <1>9, <3>3 DEF Ignores
    <3>4. QED
      BY <2>2, <3>1, <3>2, <3>3 DEF Answers
  <2>3. QED
    BY <2>1, <2>2
<1>10. QED
  BY <1>8, <1>9

LEMMA OwnAnswer ==
  ASSUME SessionShape, LagShape, AckShape, HostSteps \/ Answers \/ Reports,
         phase' = "reply", step' = P + 11,
         NEW i \in 1 .. Len(Stock'), Stock'[i].text = "OK", Stock'[i].of = nsent'
  PROVE  muxed'
<1>1. nsent \in Nat /\ Len(Stock) \in Nat /\ Ordered(Stock, nsent)
  BY StockType DEF SessionShape, LagShape
<1>2. ~Sends
  <2>1. SUFFICES ASSUME Sends PROVE FALSE
    OBVIOUS
  <2>2. Stock' = Stock /\ nsent' = nsent + 1
    BY <2>1 DEF Sends, Stock
  <2>3. Stock[i].of \in 1 .. nsent
    BY <1>1, <2>2 DEF Ordered, IsEnd
  <2>4. QED
    BY <1>1, <2>2, <2>3
<1>3. phase = "reply" /\ step = P + 11 /\ nsent' = nsent
  BY <1>2, ReplyIs
<1>4. \A j \in 1 .. Len(Stock) : Stock[j].text = "OK" /\ Stock[j].of = nsent => muxed
  BY <1>3 DEF AckShape
<1>5. CASE muxed
  BY <1>5, MuxedStays
<1>6. CASE ~muxed /\ HostSteps
  <2>1. PICK k : IsCut(Stock, Stock', k)
    BY <1>6, StockCut
  <2>2. k + i \in 1 .. Len(Stock) /\ Stock'[i] = Stock[k + i]
    BY <1>1, <2>1 DEF IsCut
  <2>3. QED
    BY <1>3, <1>4, <1>6, <2>2
<1>7. CASE ~muxed /\ (Answers \/ Reports)
  <2>1. IsEnd(Stock'[i])
    BY DEF IsEnd
  <2>2. /\ 1 \in 1 .. Len(out) /\ Stock'[i].of = out[1].of
        /\ Finals(out[1], "OK") \/ out[1].cmd \in Modem!Queries
    BY <1>3, <1>4, <1>7, <2>1, AnsweredIs
  <2>3. out[1].cmd = "AT+CMUX=0"
    <3>1. out[1].cmd = Script[P + 11].cmd
      BY <1>3, <2>2 DEF AckShape
    <3>2. P + 11 \in 1 .. P + 11
      BY StepCases
    <3>3. QED
      BY <3>1, <3>2, ScriptIs
  <2>4. QED
    BY <2>2, <2>3 DEF Finals, Modem!Queries
<1>8. QED
  BY <1>5, <1>6, <1>7

LEMMA AckStep ==
  ASSUME SessionShape, LagShape, AckShape, MCSteps
  PROVE  AckShape'
<1>1. HostSteps \/ Answers \/ Reports
  BY MCStepsAre
<1>2. ASSUME phase' = "ok", behind' = 0 PROVE muxed'
  <2>1. P \in Nat /\ behind \in Nat /\ nsent \in Nat
    BY StepCases DEF LagShape, SessionShape
  <2>2. CASE phase = "ok"
    <3>1. \A o : ~Ends(o)
      <4>1. step = P + 12
        BY <2>2 DEF SessionShape
      <4>2. QED
        BY <2>1, <4>1 DEF Ends
    <3>2. Steady
      BY <2>2, <3>1
         DEF MCSteps, Heard, Hears, TimedOut, InStep, Drained, Faulted, Fails
    <3>3. QED
      BY <1>1, <1>2, <2>2, <3>2, MuxedStays DEF Steady, AckShape
  <2>3. CASE phase # "ok"
    <3>1. \A o : Ends(o) => step = P + 11 /\ o = "ok"
      BY <1>2, <2>1 DEF Ends, Follows
    <3>2. PICK k : Hears(k) /\ ~Quiet
      BY <1>1, <1>2, <2>1, <2>3, <3>1
         DEF HostSteps, Sends, Moves, Quiet, Fails, Drained, Answers, Reports, ModemKeeps
    <3>3. step = P + 11 /\ verdict = "ok" /\ phase = "reply"
      BY <3>1, <3>2 DEF Hears
    <3>4. kind = "must"
      BY <3>3, ScriptIs DEF kind
    <3>5. line.text = "OK"
      BY <3>3, <3>4, VerdictIs
    <3>6. line = Stock[1] /\ 1 \in 1 .. Len(Stock)
      BY <3>2, <3>5, StockType DEF Hears, EndsAt, Texts
    <3>7. behind = 0
      <4>1. behind' = behind \/ behind' = behind + 1
        BY <3>3 DEF MCSteps, Steady, Heard, TimedOut, InStep, Drained, Faulted
      <4>2. QED
        BY <1>2, <2>1, <4>1
    <3>8. Stock[1].of \in 1 .. nsent /\ nsent <= Stock[1].of + behind
      BY <3>3, <3>5, <3>6 DEF LagShape, Ordered, Near, Current, IsEnd
    <3>9. Stock[1].of = nsent
      BY <2>1, <3>7, <3>8
    <3>10. muxed
      BY <3>3, <3>5, <3>6, <3>9 DEF AckShape
    <3>11. QED
      BY <1>1, <3>10, MuxedStays
  <2>4. QED
    BY <2>2, <2>3
<1>3. phase' = "reply" => \A j \in 1 .. Len(out') :
        out'[j].of = nsent' => out'[j].cmd = Script[step'].cmd
  BY <1>1, OwnCommand
<1>4. phase' = "reply" /\ step' = P + 11 => \A i \in 1 .. Len(Stock') :
        Stock'[i].text = "OK" /\ Stock'[i].of = nsent' => muxed'
  BY <1>1, OwnAnswer
<1> DEFINE S == Script
<1>5. S' = S /\ P' = P
  BY DEF Script, P, Step
<1> HIDE DEF S
<1>6. (\A j \in 1 .. Len(out) : out[j].of = nsent => out[j].cmd = S[step].cmd)'
        <=> \A j \in 1 .. Len(out') : out'[j].of = nsent' => out'[j].cmd = S[step'].cmd
  BY <1>5
<1>7. QED
  BY <1>2, <1>3, <1>4, <1>5, <1>6 DEF AckShape, S

LEMMA AckInit == MCInit => AckShape
<1> SUFFICES ASSUME MCInit PROVE AckShape
  OBVIOUS
<1>1. phase = "send"
  BY DEF MCInit, SessionInit, Init
<1>2. QED
  BY <1>1 DEF AckShape

LEMMA AckNext == SessionShape /\ LagShape /\ AckShape /\ [MCNext]_mcVars => AckShape'
<1> SUFFICES ASSUME SessionShape, LagShape, AckShape, [MCNext]_mcVars PROVE AckShape'
  OBVIOUS
<1>1. CASE MCNext
  BY <1>1, MCNextIs, AckStep
<1>2. CASE UNCHANGED mcVars
  BY <1>2 DEF mcVars, vars, hostVars, modemVars, AckShape, Stock
<1>3. QED
  BY <1>1, <1>2

LEMMA AckAlways == MCSpec => []AckShape
  BY AckInit, AckNext, LagAlways, MCShapeAlways, PTL DEF MCSpec

\* CmuxAcknowledgedInStep: raw_at_init() returns Ok only when the modem has
\* answered AT+CMUX itself with OK, if no command was given up since nothing
\* was under way.
THEOREM AtSessionCmuxAcknowledged == MCSpec => []CmuxAcknowledgedInStep
<1>1. AckShape => CmuxAcknowledgedInStep
  BY DEF AckShape, CmuxAcknowledgedInStep, CmuxIsAcknowledged
<1>2. QED
  BY <1>1, AckAlways, PTL

-----------------------------------------------------------------------------
(* NotRegistered means that the modem has not reported a network.          *)

\* A report of a network that is still to be read, or but for its end was.
Prefix == IF step = P + 5 THEN "+CREG:" ELSE "+CGREG:"
Promised(w, i) ==
  /\ i \in 1 .. Len(w) - 2 /\ w[i].text = Prefix /\ is_registered(stat_field(w[i].fields))
  /\ w[i + 1] = LF /\ w[i + 2].text = "OK" /\ w[i + 2].of = nsent
HalfRead(w) ==
  is_registered(stat) /\ 2 \in 1 .. Len(w) /\ w[1].text = "OK" /\ w[2] = LF
Awaited ==
  /\ phase = "reply" /\ step \in {P + 5, P + 6}
  /\ (\E i : Promised(Stock, i)) \/ HalfRead(Stock)

ToldShape ==
  /\ step <= P + 4 => told = {} /\ No(out, "AT+CREG?") /\ No(out, "AT+CGREG?")
  /\ behind = 0 /\ told # {} /\ step \in P + 5 .. P + 7 /\ phase \in {"send", "reply"} =>
       registered \/ Awaited
  /\ behind = 0 /\ phase = "failed" /\ step = P + 7 => told = {}

LEMMA ToldIs ==
  ASSUME SessionShape, HostSteps \/ Answers \/ Reports
  PROVE  \/ told' = told
         \/ Sends /\ step = P + 5 /\ told' = {}
         \/ /\ Answers /\ ~muxed /\ 1 \in 1 .. Len(out)
            /\ \E t \in networks, f \in Seq(Nat) : Informs(out[1], t, f)
<1>1. Len(out) \in Nat /\ networks \subseteq Networks
  BY DEF SessionShape
<1>2. ASSUME Answers, told' # told
      PROVE  /\ ~muxed /\ 1 \in 1 .. Len(out)
             /\ \E t \in networks, f \in Seq(Nat) : Informs(out[1], t, f)
  <2>1. out # <<>> /\ Head(out) = out[1] /\ 1 \in 1 .. Len(out)
    BY <1>1, <1>2, HeadIs DEF Answers
  <2>2. PICK t \in Texts, f \in Seq(Nat) : Informs(Head(out), t, f)
    BY <1>2 DEF Answers, Finals, Ignores
  <2>3. told' = told \cup (networks \cap {t}) /\ ~muxed
    BY <2>2 DEF Informs, Says
  <2>4. t \in networks
    BY <1>2, <2>3
  <2>5. QED
    BY <2>1, <2>2, <2>3, <2>4
<1>3. CASE Answers
  BY <1>2, <1>3
<1>4. CASE ~Answers
  BY <1>4 DEF HostSteps, Sends, Moves, Hears, Fails, Drained, HostKeeps, Reports
<1>5. QED
  BY <1>3, <1>4

LEMMA HearsPromised ==
  ASSUME SessionShape, LagShape, NEW k, Hears(k), step \in {P + 5, P + 6}, behind = 0,
         NEW i, Promised(Stock, i)
  PROVE  /\ verdict = "more" /\ Quiet
         /\ \/ \E j \in Nat : /\ j \in 1 .. Len(Stock') - 2 /\ Stock'[j] = Stock[i]
                              /\ Stock'[j + 1] = Stock[i + 1] /\ Stock'[j + 2] = Stock[i + 2]
            \/ /\ is_registered(stat') /\ 2 \in 1 .. Len(Stock')
               /\ Stock'[1].text = "OK" /\ Stock'[2] = LF
<1> DEFINE w == Stock
           t == Stock'
<1>1. Len(w) \in Nat /\ Ordered(w, nsent) /\ Near(w, Current, behind) /\ nsent \in Nat
      /\ Lined(w)
  BY StockType DEF SessionShape, LagShape
<1>2. /\ i \in 1 .. Len(w) - 2 /\ w[i].text = Prefix /\ w[i + 1] = LF
      /\ w[i + 2].text = "OK" /\ w[i + 2].of = nsent
      /\ is_registered(stat_field(w[i].fields))
  BY DEF Promised
<1>3. EndsAt(w, k) /\ IsCut(w, t, k) /\ phase = "reply"
  BY DEF Hears
<1>4. k \in 1 .. Len(w) /\ w[k] = LF /\ Len(t) = Len(w) - k
      /\ \A j \in 1 .. Len(t) : t[j] = w[k + j]
  BY <1>3 DEF EndsAt, IsCut
<1>5. w[i] # LF /\ w[i + 2] # LF /\ Prefix \in Networks
  BY <1>2, LfIs DEF Prefix
<1>6. kind = "reg" /\ step \in 1 .. P + 11
  <2>1. step \in 1 .. P + 11
    BY DEF Hears
  <2>2. QED
    BY <2>1, KindCases DEF kind
<1>7. verdict = "more" => Quiet
  BY DEF Hears
<1>8. verdict # "more" => line.text \in {"OK", "ERROR"}
  BY <1>6, VerdictIs
<1>9. ASSUME i - k \in 1 .. Len(t) - 2
      PROVE  t[i - k] = w[i] /\ t[i - k + 1] = w[i + 1] /\ t[i - k + 2] = w[i + 2]
  <2> HIDE DEF w, t
  <2>1. k \in Int /\ i \in Int /\ Len(t) \in Int
    BY <1>1, <1>2, <1>4
  <2>2. i - k \in 1 .. Len(t) /\ i - k + 1 \in 1 .. Len(t) /\ i - k + 2 \in 1 .. Len(t)
    BY <1>9, <2>1
  <2>3. k + (i - k) = i /\ k + (i - k + 1) = i + 1 /\ k + (i - k + 2) = i + 2
    BY <2>1
  <2>4. \A j \in 1 .. Len(t) : t[j] = w[k + j]
    BY <1>4
  <2>5. /\ t[i - k] = w[k + (i - k)] /\ t[i - k + 1] = w[k + (i - k + 1)]
        /\ t[i - k + 2] = w[k + (i - k + 2)]
    BY <2>2, <2>4, Zenon
  <2>6. QED
    BY <2>3, <2>5
<1>10. CASE k = 1
  <2>1. line.text \notin Texts
    BY <1>10 DEF Hears
  <2>2. verdict = "more"
    BY <1>8, <2>1 DEF Texts
  <2>3. i - 1 \in 1 .. Len(t) - 2
    <3>1. i # 1
      BY <1>4, <1>5, <1>10
    <3>2. QED
      BY <1>1, <1>2, <1>4, <1>10, <3>1
  <2>4. t[i - 1] = w[i] /\ t[i - 1 + 1] = w[i + 1] /\ t[i - 1 + 2] = w[i + 2]
    <3>1. i - k \in 1 .. Len(t) - 2
      BY <1>10, <2>3
    <3>2. t[i - k] = w[i] /\ t[i - k + 1] = w[i + 1] /\ t[i - k + 2] = w[i + 2]
      BY <1>9, <3>1
    <3>3. QED
      BY <1>10, <3>2
  <2>5. i - 1 \in Nat
    BY <2>3
  <2>6. QED
    BY <1>7, <2>2, <2>3, <2>4, <2>5
<1>11. CASE k = 2
  <2>1. line = w[1] /\ 1 \in 1 .. Len(w)
    <3>1. line.text \in Texts \/ line = w[1]
      BY <1>11 DEF Hears
    <3>2. line = w[1]
      BY <1>11 DEF Hears
    <3>3. QED
      BY <1>1, <1>4, <1>11, <3>2
  <2>2. verdict = "more"
    <3>1. SUFFICES ASSUME verdict # "more" PROVE FALSE
      OBVIOUS
    <3>2. IsEnd(w[1])
      BY <1>8, <2>1, <3>1 DEF IsEnd
    <3>3. i # 1
      BY <1>2, <1>5, <3>2, LfIs DEF IsEnd
    <3>4. i + 2 \in 1 + 1 .. Len(w) /\ IsEnd(w[i + 2])
      BY <1>1, <1>2 DEF IsEnd
    <3>5. w[1].of < nsent /\ w[1].of \in 1 .. nsent
      BY <1>1, <1>2, <2>1, <3>2, <3>4 DEF Ordered
    <3>6. nsent <= w[1].of + behind
      BY <1>1, <1>3, <2>1, <3>2 DEF Near, Current
    <3> HIDE DEF w
    <3>7. QED
      BY <1>1, <3>5, <3>6
  <2>3. CASE i = 1
    <3>1. has_prefix
      <4>1. CASE step = P + 5
        <5>1. Prefix = "+CREG:" /\ cmd = "AT+CREG?"
          BY <1>6, <4>1, ScriptIs DEF Prefix, cmd
        <5>2. QED
          BY <1>2, <2>1, <2>3, <5>1 DEF has_prefix
      <4>2. CASE step = P + 6
        <5>1. Prefix = "+CGREG:" /\ cmd = "AT+CGREG?"
          BY <1>6, <4>2, ScriptIs DEF Prefix, cmd
        <5>2. QED
          BY <1>2, <2>1, <2>3, <5>1 DEF has_prefix
      <4>3. QED
        BY <4>1, <4>2
    <3>2. is_registered(stat')
      BY <1>2, <2>1, <2>3, <3>1 DEF Hears
    <3>3. 3 \in 1 .. Len(w) /\ w[3] # LF /\ w[3].text = "OK"
      BY <1>1, <1>2, <1>5, <2>3
    <3>4. 3 < Len(w) /\ w[3 + 1] = LF
      BY <1>1, <3>3 DEF Lined
    <3>5. 1 \in 1 .. Len(t) /\ 2 \in 1 .. Len(t)
      BY <1>1, <1>4, <1>11, <3>4
    <3>6. t[1] = w[2 + 1] /\ t[2] = w[2 + 2]
      BY <1>4, <1>11, <3>5
    <3>7. QED
      BY <1>7, <2>2, <3>2, <3>3, <3>4, <3>5, <3>6
  <2>4. CASE i # 1
    <3>1. i # 2
      BY <1>4, <1>5, <1>11
    <3>2. i - 2 \in Nat /\ i - 2 \in 1 .. Len(t) - 2
      BY <1>1, <1>2, <1>4, <1>11, <2>4, <3>1
    <3>3. i - k \in 1 .. Len(t) - 2
      BY <1>11, <3>2
    <3>4. t[i - k] = w[i] /\ t[i - k + 1] = w[i + 1] /\ t[i - k + 2] = w[i + 2]
      BY <1>9, <3>3
    <3>5. t[i - 2] = w[i] /\ t[i - 2 + 1] = w[i + 1] /\ t[i - 2 + 2] = w[i + 2]
      BY <1>11, <3>4
    <3>6. QED
      BY <1>7, <2>2, <3>2, <3>5
  <2>5. QED
    BY <2>3, <2>4
<1>12. QED
  BY <1>10, <1>11 DEF Hears

LEMMA HearsHalfRead ==
  ASSUME SessionShape, NEW k, Hears(k), step \in {P + 5, P + 6}, HalfRead(Stock)
  PROVE  ~Quiet /\ registered'
<1>1. k = 2 /\ line = Stock[1] /\ line.text = "OK" /\ step \in 1 .. P + 11 /\ phase = "reply"
  <2>1. Stock[1] # LF /\ Stock[1].text = "OK"
    BY LfIs DEF HalfRead
  <2>2. k # 1
    BY <2>1 DEF Hears, EndsAt
  <2>3. QED
    BY <2>1, <2>2 DEF Hears
<1>2. kind = "reg"
  BY <1>1, KindCases DEF kind
<1>3. ~has_prefix
  BY <1>1, PrefixIs, LfIs
<1>4. stat' = stat /\ is_registered(stat) /\ stat # NoStat
  BY <1>3 DEF Hears, HalfRead, is_registered, NoStat
<1>5. verdict = "ok"
  BY <1>1, <1>2, <1>4, VerdictIs
<1>6. Ends("ok")
  BY <1>5 DEF Hears
<1>7. registered' /\ phase' # "reply"
  BY <1>4, <1>6 DEF Ends, Follows
<1>8. QED
  BY <1>1, <1>7 DEF Quiet

\* Awaited after a step that stays in the reading of the answer.
Awaits(t, s) ==
  \/ \E i : /\ i \in 1 .. Len(t) - 2 /\ t[i].text = Prefix
            /\ is_registered(stat_field(t[i].fields))
            /\ t[i + 1] = LF /\ t[i + 2].text = "OK" /\ t[i + 2].of = nsent
  \/ is_registered(s) /\ 2 \in 1 .. Len(t) /\ t[1].text = "OK" /\ t[2] = LF

LEMMA AwaitedIs ==
  /\ Awaited => /\ Awaits(Stock, stat) /\ phase = "reply" /\ step \in {P + 5, P + 6}
  /\ /\ phase = "reply" /\ step \in {P + 5, P + 6} /\ Quiet /\ nsent' = nsent
     /\ Awaits(Stock', stat')
     => Awaited'
<1>1. Awaited => /\ Awaits(Stock, stat) /\ phase = "reply" /\ step \in {P + 5, P + 6}
  BY DEF Awaited, Awaits, Promised, HalfRead
<1>2. ASSUME phase = "reply", step \in {P + 5, P + 6}, Quiet, nsent' = nsent, Awaits(Stock', stat')
      PROVE  Awaited'
  <2>1. phase' = "reply" /\ step' = step
    BY <1>2 DEF Quiet
  <2>2. Prefix' = Prefix
    BY <2>1 DEF Prefix
  <2>3. \A x : is_registered(x)' <=> is_registered(x)
    BY DEF is_registered
  <2>4. ((\E i : Promised(Stock, i)) \/ HalfRead(Stock))'
    BY <1>2, <2>2 DEF Awaits, Promised, HalfRead, is_registered
  <2>5. QED
    BY <1>2, <2>1, <2>4 DEF Awaited
<1>3. QED
  BY <1>1, <1>2

LEMMA AwaitsAdded ==
  ASSUME NEW w, NEW t, NEW n, IsAdded(w, t, n), Len(w) \in Nat, NEW s, Awaits(w, s)
  PROVE  Awaits(t, s)
<1>1. n \in Nat /\ Len(t) = Len(w) + n /\ \A j \in 1 .. Len(w) : t[j] = w[j]
  BY DEF IsAdded
<1>2. CASE \E i : /\ i \in 1 .. Len(w) - 2 /\ w[i].text = Prefix
                  /\ is_registered(stat_field(w[i].fields))
                  /\ w[i + 1] = LF /\ w[i + 2].text = "OK" /\ w[i + 2].of = nsent
  <2>1. PICK i : /\ i \in 1 .. Len(w) - 2 /\ w[i].text = Prefix
                 /\ is_registered(stat_field(w[i].fields))
                 /\ w[i + 1] = LF /\ w[i + 2].text = "OK" /\ w[i + 2].of = nsent
    BY <1>2
  <2>2. /\ i \in 1 .. Len(t) - 2 /\ i \in 1 .. Len(w) /\ i + 1 \in 1 .. Len(w)
        /\ i + 2 \in 1 .. Len(w)
    BY <1>1, <2>1
  <2>3. t[i] = w[i] /\ t[i + 1] = w[i + 1] /\ t[i + 2] = w[i + 2]
    BY <1>1, <2>2
  <2>4. QED
    BY <2>1, <2>2, <2>3 DEF Awaits
<1>3. CASE is_registered(s) /\ 2 \in 1 .. Len(w) /\ w[1].text = "OK" /\ w[2] = LF
  <2>1. 1 \in 1 .. Len(w) /\ 2 \in 1 .. Len(t)
    BY <1>1, <1>3
  <2>2. t[1] = w[1] /\ t[2] = w[2]
    BY <1>1, <1>3, <2>1
  <2>3. QED
    BY <1>3, <2>1, <2>2 DEF Awaits
<1>4. QED
  BY <1>2, <1>3 DEF Awaits

\* What is awaited stays so while lines are read and come in.
LEMMA AwaitedStep ==
  ASSUME SessionShape, LagShape, Awaited, behind = 0,
         Answers \/ Reports \/ Moves \/ \E k : Hears(k)
  PROVE  Awaited' \/ registered'
<1>1. Awaits(Stock, stat) /\ phase = "reply" /\ step \in {P + 5, P + 6}
  BY AwaitedIs
<1>2. CASE Answers \/ Reports
  <2>1. Quiet /\ nsent' = nsent /\ stat' = stat
    BY <1>2 DEF Answers, Reports, ModemKeeps
  <2>2. Awaits(Stock', stat')
    BY <1>1, <1>2, <2>1, StockType, StockAdded, AwaitsAdded
  <2>3. QED
    BY <1>1, <2>1, <2>2, AwaitedIs
<1>3. CASE Moves
  <2>1. Quiet /\ nsent' = nsent /\ stat' = stat /\ Stock' = Stock
    BY <1>1, <1>3, StepCases DEF Moves, HostKeeps
  <2>2. QED
    BY <1>1, <2>1, AwaitedIs
<1>4. ASSUME NEW k, Hears(k) PROVE Awaited' \/ registered'
  <2>1. CASE HalfRead(Stock)
    BY <1>1, <1>4, <2>1, HearsHalfRead
  <2>2. ASSUME NEW i, Promised(Stock, i) PROVE Awaited'
    <3>1. /\ Quiet
          /\ \/ \E j \in Nat : /\ j \in 1 .. Len(Stock') - 2 /\ Stock'[j] = Stock[i]
                               /\ Stock'[j + 1] = Stock[i + 1] /\ Stock'[j + 2] = Stock[i + 2]
             \/ /\ is_registered(stat') /\ 2 \in 1 .. Len(Stock')
                /\ Stock'[1].text = "OK" /\ Stock'[2] = LF
      BY <1>1, <1>4, <2>2, HearsPromised
    <3>2. Awaits(Stock', stat')
      BY <2>2, <3>1 DEF Promised, Awaits
    <3>3. nsent' = nsent
      BY <1>4 DEF Hears, HostKeeps
    <3>4. QED
      BY <1>1, <3>1, <3>2, <3>3, AwaitedIs
  <2>3. QED
    BY <2>1, <2>2 DEF Awaited
<1>5. QED
  BY <1>2, <1>3, <1>4

\* A modem that is not behind reports a network only to the query of the step.
LEMMA ReportedIs ==
  ASSUME SessionShape, LagShape, AckShape, behind = 0, Answers, ~muxed, 1 \in 1 .. Len(out),
         NEW t \in networks, NEW f \in Seq(Nat), Informs(out[1], t, f)
  PROVE  step \in {P + 5, P + 6} /\ Awaited'
<1>1. nsent \in Nat /\ out[1].of \in 1 .. nsent /\ Len(Stock) \in Nat
      /\ step \in 1 .. P + 12 /\ P \in Nat
  BY StepCases, StockType DEF SessionShape
<1>2. Current <= out[1].of + behind
  BY DEF LagShape, NearOut
<1>3. phase = "reply" /\ out[1].of = nsent
  BY <1>1, <1>2 DEF Current
<1>4. out[1].cmd = Script[step].cmd /\ step \in 1 .. P + 11
  BY <1>1, <1>3 DEF AckShape, SessionShape
<1>5. t \in Networks /\ Tells(out[1].cmd, t, f)
  BY DEF SessionShape, Informs
<1>6. step \in {P + 5, P + 6} /\ t = Prefix
  <2>1. CASE t = "+CREG:"
    <3>1. step = P + 5
      BY <1>4, <1>5, <2>1, ScriptIs DEF Tells
    <3>2. QED
      BY <2>1, <3>1 DEF Prefix
  <2>2. CASE t = "+CGREG:"
    <3>1. step = P + 6
      BY <1>4, <1>5, <2>2, ScriptIs DEF Tells
    <3>2. QED
      BY <1>1, <2>2, <3>1 DEF Prefix
  <2>3. QED
    BY <1>5, <2>1, <2>2, LfIs
<1> DEFINE n == Len(Stock)
           s == Stock'
           a == Line(t, out[1].of, f)
           b == Line("OK", out[1].of, <<>>)
<1>7. /\ IsAdded(Stock, s, 4) /\ s[n + 4 - 1] = b
      /\ s[n + 1] = a /\ s[n + 2] = LF
  BY DEF Informs, Says
<1>8. /\ a.text = t /\ a.fields = f /\ b.text = "OK" /\ b.of = nsent
      /\ is_registered(stat_field(f))
  BY <1>3, <1>5 DEF Line, Tells
<1>9. Len(s) = n + 4
  BY <1>7 DEF IsAdded
<1>10. Quiet /\ nsent' = nsent
  BY DEF Answers, ModemKeeps
<1> HIDE DEF n, s, a, b
<1>11. /\ n + 1 \in 1 .. Len(s) - 2 /\ n + 1 + 1 = n + 2 /\ n + 1 + 2 = n + 4 - 1
  BY <1>1, <1>9 DEF n
<1>12. Awaits(s, stat')
  BY <1>6, <1>7, <1>8, <1>11 DEF Awaits
<1>13. QED
  BY <1>3, <1>6, <1>10, <1>12, AwaitedIs DEF s

\* No network is reported before the queries are sent.
LEMMA NotYetTold ==
  ASSUME SessionShape, ToldShape, HostSteps \/ Answers \/ Reports, step' <= P + 4
  PROVE  told' = {} /\ No(out', "AT+CREG?") /\ No(out', "AT+CGREG?")
<1>1. P \in Nat /\ step \in 1 .. P + 12 /\ Len(out) \in Nat
  BY StepCases DEF SessionShape
<1>2. step <= P + 4
  BY <1>1, StepIs
<1>3. told = {} /\ No(out, "AT+CREG?") /\ No(out, "AT+CGREG?")
  BY <1>2 DEF ToldShape
<1>4. Sends => Script[step].cmd # "AT+CREG?" /\ Script[step].cmd # "AT+CGREG?"
  <2>1. Sends => step \in 1 .. P + 11 /\ step # P + 5 /\ step # P + 6
    BY <1>1, <1>2 DEF Sends
  <2>2. QED
    BY <2>1, ScriptIs
<1>5. told' = {}
  <2>1. SUFFICES ASSUME NEW t \in networks, NEW f \in Seq(Nat), Informs(out[1], t, f),
                        1 \in 1 .. Len(out)
                 PROVE  FALSE
    BY <1>3, ToldIs
  <2>2. t \in Networks /\ Tells(out[1].cmd, t, f)
    BY <2>1 DEF SessionShape, Informs
  <2>3. out[1].cmd # "AT+CREG?" /\ out[1].cmd # "AT+CGREG?"
    BY <1>3, <2>1 DEF No
  <2>4. QED
    BY <2>2, <2>3, LfIs DEF Tells
<1>6. QED
  BY <1>3, <1>4, <1>5, NoStep

\* A round of the loop that ends without a report of a network.
LEMMA RoundIs ==
  ASSUME SessionShape, ToldShape, behind = 0, phase \in {"send", "reply"},
         NEW o, Ends(o), told' = told, told # {},
         step \in {P + 5, P + 6} => registered'
  PROVE  /\ step' \in P + 5 .. P + 7 /\ phase' = "send" => registered'
         /\ ~(step' = P + 7 /\ phase' = "failed")
<1>1. P \in Nat /\ step \in 1 .. P + 11
  BY StepCases DEF Ends
<1>2. step > P + 4
  BY <1>1 DEF ToldShape
<1>3. step = P + 7 => registered
  BY <1>1 DEF ToldShape, Awaited
<1>4. \/ step' = step + 1 \/ (step' = step /\ step # P + 7)
      \/ (step' = P + 5 /\ step = P + 7 /\ ~registered)
      \/ (step' = step /\ step = P + 7 /\ ~registered)
  BY <1>1, <1>2 DEF Ends, Follows
<1>5. step' = P + 7 /\ phase' = "failed" => step = P + 7 /\ ~registered
  BY <1>1, <1>2 DEF Ends, Follows
<1>6. QED
  BY <1>1, <1>2, <1>3, <1>4, <1>5

\* The steps at which the host ends a command keep registered what was told.
LEMMA EndTold ==
  ASSUME SessionShape, LagShape, ToldShape, Heard \/ TimedOut \/ InStep \/ Faulted,
         behind' = 0, told' # {}, NEW o, Ends(o)
  PROVE  /\ step' \in P + 5 .. P + 7 /\ phase' = "send" => registered'
         /\ ~(step' = P + 7 /\ phase' = "failed")
<1>1. told' = told /\ phase \in {"send", "reply"} /\ P \in Nat /\ step \in 1 .. P + 11
  BY StepCases DEF Heard, Hears, TimedOut, InStep, Faulted, Fails, Drained, HostKeeps, Ends
<1>2. step # P + 4 /\ ~InStep /\ ~Drained
  BY <1>1 DEF ToldShape, InStep, Drained
<1>3. behind \in Nat
  BY DEF LagShape
<1>4. behind = 0 /\ (Heard \/ TimedOut \/ (Fails /\ phase = "send"))
  BY <1>1, <1>2, <1>3 DEF Heard, TimedOut, Faulted
<1>5. step \in {P + 5, P + 6} => registered \/ Awaited
  BY <1>1, <1>4 DEF ToldShape
<1>6. phase' # "reply"
  BY DEF Ends, Follows
<1>7. ASSUME step \in {P + 5, P + 6}, registered PROVE registered'
  BY <1>7 DEF Ends, Follows
<1>8. ASSUME step \in {P + 5, P + 6}, Awaited PROVE registered'
  <2>1. CASE Heard
    BY <1>4, <1>6, <1>8, <2>1, AwaitedStep DEF Heard, Awaited
  <2>2. CASE TimedOut
    <3>1. \A i \in 1 .. Len(Stock) : Stock[i] # LF
      BY <2>2 DEF TimedOut
    <3>2. Len(Stock) \in Nat
      BY StockType
    <3>3. ~HalfRead(Stock)
      BY <3>1 DEF HalfRead
    <3>4. \A i : ~Promised(Stock, i)
      <4>1. \A i : i \in 1 .. Len(Stock) - 2 => i + 1 \in 1 .. Len(Stock)
        BY <3>2
      <4>2. QED
        BY <3>1, <4>1 DEF Promised
    <3>5. QED
      BY <1>8, <3>3, <3>4 DEF Awaited
  <2>3. CASE phase = "send"
    BY <1>8, <2>3 DEF Awaited
  <2>4. QED
    BY <1>4, <2>1, <2>2, <2>3
<1>9. QED
  BY <1>1, <1>4, <1>5, <1>7, <1>8, RoundIs

LEMMA ToldStep ==
  ASSUME SessionShape, LagShape, AckShape, ToldShape, MCSteps
  PROVE  ToldShape'
<1>1. HostSteps \/ Answers \/ Reports
  BY MCStepsAre
<1>2. step' <= P + 4 => told' = {} /\ No(out', "AT+CREG?") /\ No(out', "AT+CGREG?")
  BY <1>1, NotYetTold
<1>3. P \in Nat /\ behind \in Nat /\ nsent \in Nat
  BY StepCases DEF SessionShape, LagShape
<1>4. CASE Steady /\ Sends
  <2>1. behind' = behind /\ step' = step /\ phase = "send" /\ phase' = "reply"
        /\ registered' = registered
    BY <1>4 DEF Steady, Sends
  <2>2. ASSUME behind' = 0, told' # {}, step' \in P + 5 .. P + 7 PROVE registered'
    <3>1. told' = told
      BY <1>4, <2>2 DEF Sends
    <3>2. QED
      BY <2>1, <2>2, <3>1 DEF ToldShape, Awaited
  <2>3. QED
    BY <1>2, <2>1, <2>2 DEF ToldShape, No
<1>5. CASE Steady /\ ~Sends
  <2>1. Quiet /\ behind' = behind /\ (Answers \/ Reports \/ Moves)
    BY <1>5 DEF Steady, Answers, Reports, ModemKeeps, Moves
  <2>2. CASE told' = told
    <3>1. ASSUME behind' = 0, told' # {}, step' \in P + 5 .. P + 7, phase' \in {"send", "reply"}
          PROVE  registered' \/ Awaited'
      <4>1. registered \/ Awaited
        BY <2>1, <2>2, <3>1 DEF Quiet, ToldShape
      <4>2. registered' = registered /\ behind = 0
        BY <2>1, <3>1 DEF Quiet
      <4>3. QED
        BY <2>1, <4>1, <4>2, AwaitedStep
    <3>2. behind' = 0 /\ phase' = "failed" /\ step' = P + 7 => told' = {}
      BY <2>1, <2>2 DEF Quiet, ToldShape
    <3>3. QED
      BY <1>2, <3>1, <3>2 DEF ToldShape, No
  <2>3. CASE told' # told
    <3>1. /\ Answers /\ ~muxed /\ 1 \in 1 .. Len(out)
          /\ \E t \in networks, f \in Seq(Nat) : Informs(out[1], t, f)
      BY <1>1, <1>5, <2>3, ToldIs
    <3>2. behind = 0 => Awaited'
      BY <3>1, ReportedIs
    <3>3. Awaited' => phase' = "reply"
      BY DEF Awaited
    <3>4. QED
      BY <1>2, <2>1, <3>2, <3>3 DEF ToldShape, No
  <2>4. QED
    BY <2>2, <2>3
<1>6. CASE Heard \/ TimedOut \/ InStep \/ Faulted
  <2>1. CASE \E o : Ends(o)
    <3>1. phase' # "reply"
      BY <2>1 DEF Ends, Follows
    <3>2. ASSUME behind' = 0, told' # {}
          PROVE  /\ step' \in P + 5 .. P + 7 /\ phase' = "send" => registered'
                 /\ ~(step' = P + 7 /\ phase' = "failed")
      BY <1>6, <2>1, <3>2, EndTold
    <3>3. QED
      BY <1>2, <3>1, <3>2 DEF ToldShape, No
  <2>2. CASE ~\E o : Ends(o)
    <3>1. PICK k : Hears(k) /\ Quiet
      BY <1>6, <2>2 DEF Heard, Hears, TimedOut, InStep, Faulted, Fails, Drained
    <3>2. Heard /\ phase = "reply" /\ told' = told
      BY <1>6, <2>2, <3>1 DEF Hears, HostKeeps, TimedOut, InStep, Faulted, Fails, Drained
    <3>3. step' = step /\ phase' = "reply" /\ registered' = registered
      BY <3>1, <3>2 DEF Quiet
    <3>4. behind' = 0 => behind = 0
      BY <1>3, <3>2 DEF Heard
    <3>5. ASSUME behind' = 0, told' # {}, step' \in P + 5 .. P + 7
          PROVE  registered' \/ Awaited'
      <4>1. registered \/ Awaited
        BY <3>2, <3>3, <3>4, <3>5 DEF ToldShape
      <4>2. QED
        BY <3>1, <3>3, <3>4, <3>5, <4>1, AwaitedStep
    <3>6. QED
      BY <1>2, <3>3, <3>5 DEF ToldShape, No
  <2>3. QED
    BY <2>1, <2>2
<1>7. QED
  BY <1>4, <1>5, <1>6 DEF MCSteps

LEMMA ToldInit == MCInit => ToldShape
<1> SUFFICES ASSUME MCInit PROVE ToldShape
  OBVIOUS
<1>1. out = <<>> /\ told = {}
  BY DEF MCInit, SessionInit, Init
<1>2. Len(out) = 0
  BY <1>1
<1>3. QED
  BY <1>1, <1>2 DEF ToldShape, No

LEMMA ToldNext ==
  SessionShape /\ LagShape /\ AckShape /\ ToldShape /\ [MCNext]_mcVars => ToldShape'
<1> SUFFICES ASSUME SessionShape, LagShape, AckShape, ToldShape, [MCNext]_mcVars
             PROVE  ToldShape'
  OBVIOUS
<1>1. CASE MCNext
  BY <1>1, MCNextIs, ToldStep
<1>2. CASE UNCHANGED mcVars
  BY <1>2 DEF mcVars, vars, hostVars, modemVars, ToldShape, No, Stock, Awaited, Promised,
              HalfRead, Prefix
<1>3. QED
  BY <1>1, <1>2

\* NotRegisteredInStep: wait_for_registration() gives up only when the modem
\* has answered no query of the last round with "registered", if no command
\* was given up since nothing was under way.
THEOREM AtSessionNotRegistered == MCSpec => []NotRegisteredInStep
<1>1. SessionShape /\ ToldShape => NotRegisteredInStep
  <2> SUFFICES ASSUME SessionShape, ToldShape, behind = 0, phase = "failed", kind = "csq"
               PROVE  told = {}
    BY DEF NotRegisteredInStep, NotRegisteredIsHonest
  <2>1. step \in 1 .. P + 11
    BY StepCases DEF SessionShape
  <2>2. step = P + 7
    BY <2>1, KindCases DEF kind
  <2>3. QED
    BY <2>2 DEF ToldShape
<1>2. MCSpec => []ToldShape
  BY ToldInit, ToldNext, AckAlways, LagAlways, MCShapeAlways, PTL DEF MCSpec
<1>3. QED
  BY <1>1, <1>2, MCShapeAlways, PTL
=============================================================================
