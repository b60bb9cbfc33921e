------------------------------- MODULE UfsProof -------------------------------
(***************************************************************************)
(* What holds of Ufs for every file, number of logical units, of late      *)
(* answers, refusals and attempts: what is applied is what the file says   *)
(* and has been found good, unless the answers stay one behind throughout  *)
(* the first pass; and what is good is applied, if nothing goes wrong.     *)
(***************************************************************************)
EXTENDS Ufs, SequenceTheorems, FiniteSetTheorems, TLAPS

Elements == Tags \cup {NoCommon, NoTag}
Commands == [cmd : {"configure", "tag", "reset"}, tag : Elements, commit : BOOLEAN]
Descr    == [common : Elements, bodies : Seq(Tags)]

\* The steps of an execution.
Steps ==
  {Step("configure", 1, 0), Step("reset", 2, 0)}
    \cup {Step(s, p, 0) : s \in {"common", "epilogue"}, p \in {1, 2}}
    \cup {Step("body", p, i) : p \in {1, 2}, i \in 1 .. Len(bodies)}

TypeOK ==
  /\ files \in Inputs /\ finalize \in BOOLEAN /\ skip_reset \in BOOLEAN
  /\ common \in Elements /\ (common # NoCommon => common.kind = "common")
  /\ epilogue \in Elements /\ (epilogue # NoTag => epilogue.kind = "epilogue")
  /\ bodies \in Seq(Tags) /\ \A i \in DOMAIN bodies : bodies[i].kind = "body"
  /\ hpc \in {"load", "write", "read", "end"}
  /\ hpc = "load" =>
       /\ node \in Nat
       /\ \/ file = 1 /\ (node = 0 => common = NoCommon /\ bodies = <<>> /\ epilogue = NoTag)
          \/ file = 2 /\ node = 0 /\ Complete /\ Agrees
  /\ hpc \in {"write", "read"} => Complete /\ step \in Steps
  /\ resp \in {"none", "ACK", "NAK"} /\ ret \in {"none", "ok", "failed"}
  /\ toDev \in Seq(Commands) /\ toHost \in Seq({"ACK", "NAK"})
  /\ there \in BOOLEAN /\ received \in Descr /\ applied \in Descr
  /\ tries \in Nat /\ resets \in Nat /\ late \in Nat /\ fails \in Nat /\ gone \in Nat

\* The file as far as it has been read.
ListsUpTo(s, k, n) ==
  /\ Len(s) = Cardinality(Before(n, k))
  /\ \A i \in 1 .. n : files[1][i].kind = k => s[Cardinality(Before(i, k))] = files[1][i]

CommonSeq == IF common = NoCommon THEN <<>> ELSE <<common>>

ReadUpTo(n) == ListsUpTo(CommonSeq, "common", n) /\ ListsUpTo(bodies, "body", n)

Whole == Len(files) = 1 /\ Complete /\ Agrees /\ ReadUpTo(Len(files[1]))

\* Nothing has been sent yet.
Quiet ==
  /\ toDev = <<>> /\ toHost = <<>> /\ ret # "ok"
  /\ received = EmptyDescr /\ applied = EmptyDescr /\ resets = 0 /\ late = 0
  /\ ~there => gone > 0

FileInv ==
  /\ hpc = "load" =>
       /\ Quiet
       /\ node > 0 => node <= Len(files[1]) + 1 /\ ReadUpTo(node - 1)
       /\ file = 2 => ReadUpTo(Len(files[1]))
  /\ hpc \in {"write", "read"} => Whole
  /\ hpc = "end" => Quiet \/ Whole

-----------------------------------------------------------------------------
(* The commands of an execution are numbered; those up to 0 configure.     *)

Place(st) ==
  CASE st.s = "common"   -> 1
    [] st.s = "body"     -> 1 + st.i
    [] st.s = "epilogue" -> Len(bodies) + 2
    [] OTHER             -> 0

Index(st) == (IF st.pass = 1 THEN 0 ELSE Len(bodies) + 2) + Place(st)

Cmd(c, t, commits) == [cmd |-> c, tag |-> t, commit |-> commits]

Item(k) ==
  LET n == Len(bodies)
  IN IF k <= 0 THEN Cmd("configure", NoTag, FALSE)
     ELSE IF k \in {1, n + 3} THEN Cmd("tag", common, FALSE)
     ELSE IF k = n + 2 THEN Cmd("tag", epilogue, FALSE)
     ELSE IF k = n + n + 4 THEN Cmd("tag", epilogue, TRUE)
     ELSE Cmd("tag", bodies[IF k < n + 2 THEN k - 1 ELSE k - n - 3], FALSE)

\* The first k logical units.
Prefix(k) == [common |-> common, bodies |-> SubSeq(bodies, 1, k)]

\* The last of the first q commands are on their way, and maybe the reset behind them.
Sent(q, l) ==
  /\ q \in 0 .. 2 * Len(bodies) + 4 /\ l \in Nat
  /\ \/ Len(toDev) = l
     \/ /\ Len(toDev) = l + 1 /\ toDev[l + 1] = Cmd("reset", NoTag, FALSE)
        /\ hpc \in {"read", "end"}
  /\ \A j \in 1 .. l : toDev[j] = Item(q - l + j)

\* What the device makes of the first k commands: the units so far, unless it has refused
\* something since the pass began.
Received(k) ==
  \/ received.common = NoCommon
  \/ k \in 1 .. Len(bodies) + 1 /\ received = Prefix(k - 1)
  \/ k \in Len(bodies) + 3 .. 2 * Len(bodies) + 3 /\ received = Prefix(k - Len(bodies) - 3)

\* A second pass follows on a first one that was found good, a command at a time.
Second(q, l) ==
  /\ Described \in validated /\ l <= 1
  /\ l = 1 /\ q > Len(bodies) + 3 => received.common # NoCommon

Device(q, l) ==
  /\ Sent(q, l) /\ Received(q - l)
  /\ InStep /\ q >= Len(bodies) + 3 => Second(q, l)
  /\ InStep => applied \in {EmptyDescr, Described}
  /\ InStep /\ applied # EmptyDescr => Described \in validated

\* What it means that command q is acknowledged.
Accepted(q) ==
  /\ q = Len(bodies) + 2 => Described \in validated
  /\ q \in Len(bodies) + 3 .. 2 * Len(bodies) + 3 => received.common # NoCommon
  /\ q = 2 * Len(bodies) + 4 => applied = Described

\* The answers are in step with the commands: nothing else is on its way.
Close(q) ==
  /\ hpc = "write" => toDev = <<>> /\ toHost = <<>> /\ Accepted(q)
  /\ hpc = "read" => toDev = <<>> \/ (Len(toDev) = 1 /\ toHost = <<>> /\ resp = "none")

\* The last of the responses that the host has or will read.
LastAnswer == IF toHost = <<>> THEN resp ELSE toHost[Len(toHost)]

Active == hpc \in {"write", "read"} /\ step.s # "reset"

\* Until the description is applied or refused, the host is at command q, with answers
\* that are in step or have been late in each exchange so far.
HostAt(q, l) ==
  /\ Len(toDev) = l /\ resets = 0 /\ ret # "ok"
  /\ q = IF hpc = "write" /\ step.s # "configure" THEN Index(step) - 1 ELSE Index(step)
  /\ there /\ InStep =>
       /\ late > Index(step) \/ Close(q)
       /\ hpc = "read" /\ toDev = <<>> /\ LastAnswer = "ACK" => Accepted(q)

RunInv ==
  /\ \E q \in Nat, l \in Nat : Device(q, l) /\ (Active => HostAt(q, l))
  /\ ~there /\ gone = 0 /\ InStep => applied # EmptyDescr \/ resets > 0
  /\ ret = "ok" /\ gone = 0 /\ InStep => applied = Described

-----------------------------------------------------------------------------
(* Types.                                                                  *)

LEMMA TagKinds ==
  /\ NoCommon \in Elements /\ NoTag \in Elements /\ EmptyDescr \in Descr
  /\ \A t \in Elements : t.kind # "none" => t \in Tags
  /\ \A t : t.kind # "none" => t # NoCommon /\ t # NoTag
BY DEF Elements, Descr, NoCommon, NoTag, EmptyDescr

LEMMA FilesType ==
  ASSUME files \in Inputs
  PROVE  /\ files \in Seq(Seq(Tags)) /\ Len(files) \in Nat \ {0}
         /\ \A i \in 1 .. Len(files) : files[i] \in Seq(Tags)
BY UfsAssumption

LEMMA InitType == Init => TypeOK
<1> SUFFICES ASSUME Init PROVE TypeOK
  OBVIOUS
<1>1. <<>> \in Seq(Commands) /\ <<>> \in Seq({"ACK", "NAK"}) /\ <<>> \in Seq(Tags)
  OBVIOUS
<1> QED BY <1>1, TagKinds DEF Init, TypeOK, NoCommon, NoTag

LEMMA CommandType ==
  ASSUME TypeOK, hpc \in {"write", "read"}
  PROVE  Command \in Commands
<1>1. /\ step \in Steps /\ common \in Elements /\ epilogue \in Elements
      /\ bodies \in Seq(Tags)
  BY DEF TypeOK
<1>2. ASSUME step.s = "body"
      PROVE  bodies[step.i] \in Elements
  BY <1>1, <1>2 DEF Steps, Step, Elements
<1> QED BY <1>1, <1>2, TagKinds DEF Steps, Step, Command, Commands

LEMMA ThenType ==
  ASSUME TypeOK, hpc \in {"write", "read"}
  PROVE  Then \in Steps
<1>1. step \in Steps /\ bodies \in Seq(Tags) /\ bodies # <<>>
  BY DEF TypeOK, Complete
<1>2. Len(bodies) \in Nat \ {0}
  BY <1>1, EmptySeq
<1>3. /\ Step("common", 1, 0) \in Steps /\ Step("common", 2, 0) \in Steps
      /\ Step("reset", 2, 0) \in Steps
      /\ \A p \in {1, 2} : Step("epilogue", p, 0) \in Steps
      /\ \A p \in {1, 2}, i \in 1 .. Len(bodies) : Step("body", p, i) \in Steps
  BY DEF Steps
<1>4. CASE step.s = "body"
  <2>1. step.pass \in {1, 2} /\ step.i \in 1 .. Len(bodies)
    BY <1>1, <1>4 DEF Steps, Step
  <2>2. CASE step.i < Len(bodies)
    <3>1. Then = Step("body", step.pass, step.i + 1)
      BY <1>4, <2>2 DEF Then
    <3> QED BY <1>2, <1>3, <2>1, <2>2, <3>1
  <2>3. CASE step.i = Len(bodies)
    <3>1. Then = Step("epilogue", step.pass, 0)
      BY <1>2, <1>4, <2>3 DEF Then
    <3> QED BY <1>3, <2>1, <3>1
  <2> QED BY <1>2, <2>1, <2>2, <2>3
<1>5. CASE step.s # "body"
  <2>1. step.s \in {"configure", "common", "epilogue", "reset"} /\ step.pass \in {1, 2}
    BY <1>1, <1>5 DEF Steps, Step
  <2> QED BY <1>2, <1>3, <1>5, <2>1 DEF Then
<1> QED BY <1>4, <1>5

LEMMA StepType == TypeOK /\ [Next]_vars => TypeOK'
<1> SUFFICES ASSUME TypeOK, [Next]_vars PROVE TypeOK'
  OBVIOUS
<1>e. <<>> \in Seq(Commands) /\ <<>> \in Seq({"ACK", "NAK"}) /\ <<>> \in Seq(Tags)
  OBVIOUS
<1>r. ASSUME LoadFails,
             UNCHANGED <<step, resp, tries, inputVars, toDev, toHost, devVars, late, gone>>
      PROVE  TypeOK'
  <2>1. /\ hpc' = "end" /\ ret' = "failed" /\ common' = NoCommon /\ bodies' = <<>>
        /\ epilogue' = NoTag
    BY <1>r DEF LoadFails, Exit
  <2>2. \A i \in DOMAIN bodies' : bodies'[i].kind = "body"
    BY <2>1
  <2> QED BY <1>r, <2>1, <2>2, <1>e, TagKinds DEF TypeOK, inputVars, devVars
<1>1. CASE OpenFile
  <2>1. CASE common # NoCommon
    BY <1>1, <2>1, <1>r DEF OpenFile
  <2>2. CASE common = NoCommon
    <3>1. hpc' = "load" /\ file' = 1 /\ node' = 1 /\ UNCHANGED <<common, bodies, epilogue, ret>>
      BY <1>1, <2>2 DEF OpenFile, TypeOK, Complete
    <3> QED BY <1>1, <3>1 DEF OpenFile, TypeOK, inputVars, devVars
  <2> QED BY <2>1, <2>2
<1>2. CASE LoadTag
  <2> DEFINE t == files[file][node]
  <2>1. file = 1 /\ node \in 1 .. Len(files[1]) /\ hpc = "load"
    BY <1>2 DEF LoadTag, TypeOK
  <2>2. t \in Tags /\ t \in Elements
    BY <2>1, FilesType DEF TypeOK, Elements
  <2>3. CASE LoadFails
    BY <1>2, <2>3, <1>r DEF LoadTag
  <2>4. CASE ~LoadFails
    <3>1. t.kind = "body" => bodies' \in Seq(Tags) /\ bodies' = Append(bodies, t)
      <4>1. bodies \in Seq(Tags)
        BY DEF TypeOK
      <4>2. t.kind = "body" => bodies' = WithBody(t)
        BY <1>2, <2>1, <2>4 DEF LoadTag
      <4> QED BY <4>1, <4>2, <2>2, AppendProperties DEF WithBody
    <3>2. /\ common' \in Elements /\ (common' # NoCommon => common'.kind = "common")
          /\ epilogue' \in Elements /\ (epilogue' # NoTag => epilogue'.kind = "epilogue")
      BY <1>2, <2>1, <2>2, <2>4 DEF LoadTag, TypeOK
    <3>3. bodies' \in Seq(Tags) /\ \A i \in DOMAIN bodies' : bodies'[i].kind = "body"
      <4>1. CASE t.kind = "body"
        BY <3>1, <4>1, <2>2 DEF TypeOK
      <4>2. CASE t.kind # "body"
        BY <1>2, <2>1, <2>4, <4>2 DEF LoadTag, TypeOK
      <4> QED BY <4>1, <4>2
    <3>4. node' = node + 1 /\ file' = 1 /\ hpc' = "load" /\ ret' = ret
      BY <1>2, <2>1, <2>4 DEF LoadTag
    <3> QED BY <1>2, <2>1, <3>2, <3>3, <3>4 DEF LoadTag, TypeOK, inputVars, devVars
  <2> QED BY <2>3, <2>4
<1>3. CASE LoadDone
  <2>1. CASE Complete /\ Agrees
    <3>1. file' = 2 /\ node' = 0 /\ hpc' = "load" /\ UNCHANGED <<common, bodies, epilogue, ret>>
      BY <1>3, <2>1 DEF LoadDone, TypeOK
    <3> QED BY <1>3, <2>1, <3>1
            DEF LoadDone, TypeOK, inputVars, devVars, Complete, Agrees
  <2>2. CASE ~(Complete /\ Agrees)
    BY <1>3, <2>2, <1>r DEF LoadDone
  <2> QED BY <2>1, <2>2
<1>4. CASE Start
  <2>1. Complete /\ Agrees
    BY <1>4, FilesType DEF Start, TypeOK
  <2>2. step' \in Steps'
    BY <1>4 DEF Start, Steps
  <2> QED BY <1>4, <2>1, <2>2
          DEF Start, TypeOK, inputVars, devVars, loadVars, Complete, Agrees
<1>5. CASE Write
  <2>1. Command \in Commands /\ step \in Steps /\ Complete
    <3>1. hpc = "write"
      BY <1>5 DEF Write
    <3>2. Command \in Commands
      BY <3>1, CommandType
    <3>3. hpc \in {"write", "read"}
      BY <3>1
    <3> QED BY <3>2, <3>3 DEF TypeOK
  <2>2. toDev' \in Seq(Commands) /\ hpc' \in {"write", "read", "end"} /\ tries' \in Nat
    <3>1. toDev \in Seq(Commands) /\ tries \in Nat
      BY DEF TypeOK
    <3>2. Append(toDev, Command) \in Seq(Commands)
      BY <3>1, <2>1, AppendProperties
    <3> QED BY <1>5, <3>1, <3>2 DEF Write, Finish, Exit
  <2>3. step' \in Steps' /\ ret' \in {"none", "ok", "failed"}
    BY <1>5, <2>1 DEF Write, TypeOK, Finish, Exit, Steps, loadVars
  <2> QED BY <1>5, <2>1, <2>2, <2>3
          DEF Write, TypeOK, inputVars, devVars, loadVars, Complete, Agrees
<1>6. CASE ReadOne
  BY <1>6 DEF ReadOne, TypeOK, inputVars, devVars, loadVars, Complete, Agrees, Steps
<1>7. CASE ReadDone
  <2>1. Then \in Steps /\ step \in Steps /\ Complete
    <3>1. hpc = "read"
      BY <1>7 DEF ReadDone
    <3>2. Then \in Steps
      BY <3>1, ThenType
    <3>3. hpc \in {"write", "read"}
      BY <3>1
    <3> QED BY <3>2, <3>3 DEF TypeOK
  <2>2. late' \in Nat /\ Steps' = Steps
    BY <1>7 DEF ReadDone, TypeOK, Steps, loadVars
  <2>3. /\ step' \in Steps /\ hpc' \in {"write", "end"}
        /\ ret' \in {"none", "ok", "failed"}
    <3>1. CASE step.s = "configure"
      BY <1>7, <2>1, <3>1 DEF ReadDone, AfterConfigure, Exit, TypeOK
    <3>2. CASE step.s = "reset"
      BY <1>7, <2>1, <3>2 DEF ReadDone, TypeOK
    <3>3. CASE step.s \notin {"configure", "reset"}
      BY <1>7, <2>1, <3>3 DEF ReadDone, AfterTag, Finish, Exit, TypeOK, Steps
    <3> QED BY <3>1, <3>2, <3>3
  <2> QED BY <1>7, <2>1, <2>2, <2>3
          DEF ReadDone, TypeOK, inputVars, devVars, loadVars, Complete, Agrees
<1>8. CASE DevTake
  <2> DEFINE c == Head(toDev)
  <2>1. c \in Commands /\ toDev' \in Seq(Commands)
    BY <1>8 DEF DevTake, TypeOK
  <2>2. UNCHANGED <<hpc, step, resp, tries, ret, loadVars, inputVars, late, gone>>
    BY <1>8 DEF DevTake
  <2>3. /\ toHost' \in Seq({"ACK", "NAK"}) /\ there' \in BOOLEAN
        /\ received' \in Descr /\ applied' \in Descr /\ resets' \in Nat /\ fails' \in Nat
    <3>0. /\ toHost \in Seq({"ACK", "NAK"}) /\ received \in Descr /\ applied \in Descr
          /\ resets \in Nat /\ fails \in Nat /\ there \in BOOLEAN
      BY DEF TypeOK
    <3>a. \A a \in {"ACK", "NAK"} : Append(toHost, a) \in Seq({"ACK", "NAK"})
      BY <3>0, AppendProperties
    <3>1. CASE c.cmd # "tag"
      <4>1. /\ c.cmd \in {"configure", "reset"}
            /\ received' = received /\ applied' = applied /\ fails' = fails
        BY <1>8, <2>1, <3>1 DEF DevTake, Commands
      <4>2. resets' \in Nat
        <5>1. resets' = resets \/ resets' = resets + 1
          BY <1>8, <3>1, Zenon DEF DevTake
        <5> QED BY <5>1, <3>0
      <4>5. there' \in BOOLEAN
        BY <1>8, <3>0, <3>1, Zenon DEF DevTake
      <4>3. toHost' \in Seq({"ACK", "NAK"})
        BY <1>8, <3>a, <3>1, <1>e DEF DevTake
      <4> QED BY <4>1, <4>2, <4>3, <4>5, <3>0, Zenon
    <3>2. CASE c.cmd = "tag"
      <4>1. DevTag(c) /\ resets' = resets
        BY <1>8, <3>2 DEF DevTake
      <4>2. toHost' \in Seq({"ACK", "NAK"})
        BY <4>1, <1>e, <3>0, <3>a DEF DevTag
      <4>3. Given(c.tag) \in Descr
        <5>1. c.tag \in Elements
          BY <2>1 DEF Commands
        <5>2. c.tag.kind = "body" => Append(received.bodies, c.tag) \in Seq(Tags)
          BY <5>1, <3>0, TagKinds, AppendProperties DEF Descr
        <5> QED BY <5>1, <5>2, <3>0, <1>e DEF Given, Descr
      <4>4. received' \in Descr /\ applied' \in Descr
        BY <4>1, <4>3, <3>0, TagKinds DEF DevTag
      <4>5. fails' \in Nat
        BY <4>1, <3>0 DEF DevTag
      <4>6. there' \in BOOLEAN
        BY <4>1, <3>0, Zenon DEF DevTag
      <4> QED BY <4>1, <4>2, <4>4, <4>5, <4>6, <3>0, Zenon
    <3> QED BY <3>1, <3>2
  <2> QED BY <2>1, <2>2, <2>3
          DEF TypeOK, inputVars, loadVars, Complete, Agrees, Steps
<1>9. CASE Unplug
  <2>1. there' \in BOOLEAN /\ gone' \in Nat
    <3>1. gone \in Nat
      BY DEF TypeOK
    <3>2. gone' = gone + 1 /\ there' = FALSE
      BY <1>9, Zenon DEF Unplug
    <3>3. gone' \in Nat
      BY <3>1, <3>2
    <3> QED BY <3>2, <3>3, Zenon
  <2> QED BY <1>9, <2>1 DEF Unplug, TypeOK, inputVars, loadVars, Complete, Agrees, Steps
<1>10. CASE UNCHANGED vars
  BY <1>10 DEF vars, TypeOK, inputVars, devVars, loadVars, Complete, Agrees, Steps
<1> QED
  BY <1>1, <1>2, <1>3, <1>4, <1>5, <1>6, <1>7, <1>8, <1>9, <1>10
     DEF Next, Host, Load, Done

\* In every behaviour the state is one the code could have.
THEOREM TypeCorrect == Spec => []TypeOK
<1> QED BY InitType, StepType, PTL DEF Spec

-----------------------------------------------------------------------------
(* What is read is what the file says.                                     *)

LEMMA BeforeNext ==
  ASSUME NEW n \in Nat, NEW k
  PROVE  /\ Cardinality(Before(0, k)) = 0
         /\ Cardinality(Before(n, k)) \in Nat
         /\ Cardinality(Before(n + 1, k)) =
              IF files[1][n + 1].kind = k THEN Cardinality(Before(n, k)) + 1
                                          ELSE Cardinality(Before(n, k))
         /\ \A i \in 1 .. n :
              files[1][i].kind = k => Cardinality(Before(i, k)) \in 1 .. Cardinality(Before(n, k))
<1>1. ASSUME NEW i \in Nat
      PROVE  IsFiniteSet(Before(i, k)) /\ Cardinality(Before(i, k)) \in Nat
  <2>1. IsFiniteSet(1 .. i)
    BY FS_Interval
  <2>2. Before(i, k) \in SUBSET (1 .. i)
    BY DEF Before
  <2>3. IsFiniteSet(Before(i, k))
    BY <2>1, <2>2, FS_Subset
  <2> QED BY <2>3, FS_CardinalityType
<1>2. Before(0, k) = {}
  BY DEF Before
<1>3. /\ n + 1 \notin Before(n, k)
      /\ Before(n + 1, k) = IF files[1][n + 1].kind = k THEN Before(n, k) \cup {n + 1}
                                                       ELSE Before(n, k)
  BY DEF Before
<1>4. Cardinality(Before(n, k) \cup {n + 1}) = Cardinality(Before(n, k)) + 1
  BY <1>1, <1>3, FS_AddElement
<1>5. ASSUME NEW i \in 1 .. n, files[1][i].kind = k
      PROVE  Cardinality(Before(i, k)) \in 1 .. Cardinality(Before(n, k))
  <2>1. i \in Before(i, k) /\ Before(i, k) \in SUBSET Before(n, k)
    BY <1>5 DEF Before
  <2>2. Cardinality(Before(i, k)) <= Cardinality(Before(n, k))
    BY <1>1, <2>1, FS_Subset
  <2>3. i \in Nat
    OBVIOUS
  <2>4. Cardinality(Before(i, k)) # 0
    BY <1>1, <2>1, <2>3, FS_EmptySet
  <2> QED BY <1>1, <2>2, <2>3, <2>4
<1> QED BY <1>1, <1>2, <1>3, <1>4, <1>5, FS_EmptySet

LEMMA ListNext ==
  ASSUME NEW n \in Nat, NEW k, NEW S, NEW s \in Seq(S), NEW t \in S,
         ListsUpTo(s, k, n), t = files[1][n + 1]
  PROVE  IF t.kind = k THEN ListsUpTo(Append(s, t), k, n + 1) ELSE ListsUpTo(s, k, n + 1)
<1> DEFINE c(i) == Cardinality(Before(i, k))
<1>1. /\ c(n) \in Nat /\ c(n + 1) = IF t.kind = k THEN c(n) + 1 ELSE c(n)
      /\ \A i \in 1 .. n : files[1][i].kind = k => c(i) \in 1 .. c(n)
  BY BeforeNext
<1>2. /\ Len(s) = c(n)
      /\ \A i \in 1 .. n : files[1][i].kind = k => s[c(i)] = files[1][i]
  BY DEF ListsUpTo
<1>3. /\ Len(Append(s, t)) = Len(s) + 1 /\ Append(s, t)[Len(s) + 1] = t
      /\ \A j \in 1 .. Len(s) : Append(s, t)[j] = s[j]
  BY AppendProperties
<1>4. 1 .. n + 1 = (1 .. n) \cup {n + 1}
  OBVIOUS
<1> HIDE DEF c
<1>5. CASE t.kind = k
  <2>1. ASSUME NEW i \in 1 .. n + 1, files[1][i].kind = k
        PROVE  Append(s, t)[c(i)] = files[1][i]
    <3>1. CASE i = n + 1
      BY <1>1, <1>2, <1>3, <1>5, <3>1
    <3>2. CASE i \in 1 .. n
      BY <1>1, <1>2, <1>3, <2>1, <3>2
    <3> QED BY <1>4, <3>1, <3>2
  <2>2. Len(Append(s, t)) = c(n + 1)
    BY <1>1, <1>2, <1>3, <1>5
  <2> QED BY <1>5, <2>1, <2>2 DEF ListsUpTo, c
<1>6. CASE t.kind # k
  <2>1. ASSUME NEW i \in 1 .. n + 1, files[1][i].kind = k
        PROVE  s[c(i)] = files[1][i]
    BY <1>2, <1>4, <1>6, <2>1
  <2>2. Len(s) = c(n + 1)
    BY <1>1, <1>2, <1>6
  <2> QED BY <1>6, <2>1, <2>2 DEF ListsUpTo, c
<1> QED BY <1>5, <1>6

LEMMA InitFile == Init => FileInv
<1> SUFFICES ASSUME Init PROVE FileInv
  OBVIOUS
<1> QED BY DEF Init, FileInv, Quiet

LEMMA StepFile == TypeOK /\ FileInv /\ [Next]_vars => FileInv'
<1> SUFFICES ASSUME TypeOK, FileInv, [Next]_vars PROVE FileInv'
  OBVIOUS
<1>q. ASSUME Quiet, UNCHANGED <<toDev, toHost, devVars, late, gone>>, ret' \in {ret, "failed"}
      PROVE  Quiet'
  BY <1>q DEF Quiet, devVars, EmptyDescr
<1>f. ASSUME LoadFails, Quiet,
             UNCHANGED <<step, resp, tries, inputVars, toDev, toHost, devVars, late, gone>>
      PROVE  FileInv'
  <2>1. hpc' = "end" /\ ret' = "failed"
    BY <1>f DEF LoadFails, Exit
  <2> QED BY <1>f, <1>q, <2>1 DEF FileInv
<1>w. ASSUME UNCHANGED <<files, finalize, common, bodies, epilogue>>, Whole
      PROVE  Whole'
  BY <1>w DEF Whole, Complete, Agrees, ReadUpTo, ListsUpTo, CommonSeq, Before
<1>u. ASSUME UNCHANGED <<files, finalize, common, bodies, epilogue>>, NEW n, ReadUpTo(n)
      PROVE  ReadUpTo(n)'
  BY <1>u DEF ReadUpTo, ListsUpTo, CommonSeq, Before
<1>1. CASE OpenFile
  <2>1. CASE common # NoCommon
    BY <1>1, <2>1, <1>f DEF OpenFile, FileInv
  <2>2. CASE common = NoCommon
    <3>1. /\ file = 1 /\ bodies = <<>> /\ file' = 1 /\ node' = 1 /\ hpc' = "load"
          /\ UNCHANGED <<common, bodies, epilogue, ret, files, finalize>>
      BY <1>1, <2>2 DEF OpenFile, TypeOK, Complete, inputVars
    <3>2. ReadUpTo(0)
      BY <2>2, <3>1, BeforeNext DEF ReadUpTo, ListsUpTo, CommonSeq
    <3>3. Len(files[1]) \in Nat
      BY FilesType DEF TypeOK
    <3>4. ReadUpTo(0)'
      BY <3>1, <3>2, <1>u
    <3>5. Quiet'
      BY <1>1, <1>q, <3>1 DEF OpenFile, FileInv
    <3> QED BY <3>1, <3>3, <3>4, <3>5 DEF FileInv
  <2> QED BY <2>1, <2>2
<1>2. CASE LoadTag
  <2> DEFINE t == files[1][node]
  <2>1. file = 1 /\ node \in 1 .. Len(files[1]) /\ hpc = "load" /\ Quiet /\ ReadUpTo(node - 1)
    BY <1>2 DEF LoadTag, TypeOK, FileInv
  <2>2. t \in Tags /\ Len(files[1]) \in Nat /\ bodies \in Seq(Tags)
    BY <2>1, FilesType DEF TypeOK
  <2>3. CASE LoadFails
    BY <1>2, <2>1, <2>3, <1>f DEF LoadTag
  <2>4. CASE ~LoadFails
    <3>1. node' = node + 1 /\ file' = 1 /\ hpc' = "load" /\ ret' = ret /\ files' = files
      BY <1>2, <2>1, <2>4 DEF LoadTag, inputVars
    <3>2. Quiet'
      BY <1>2, <1>q, <2>1, <3>1 DEF LoadTag
    <3>3. CommonSeq \in Seq(Tags) /\ ListsUpTo(CommonSeq, "common", node - 1)
      BY <2>1, TagKinds DEF ReadUpTo, CommonSeq, TypeOK
    <3>4. ListsUpTo(bodies, "body", node - 1)
      BY <2>1 DEF ReadUpTo
    <3>5. node - 1 \in Nat /\ node - 1 + 1 = node
      BY <2>1
    <3>6. CommonSeq' = IF t.kind = "common" THEN Append(CommonSeq, t) ELSE CommonSeq
      <4>1. CASE t.kind = "common"
        <5>1. common = NoCommon /\ common' = t /\ t # NoCommon
          BY <1>2, <2>1, <2>4, <4>1, TagKinds DEF LoadTag
        <5> QED BY <4>1, <5>1 DEF CommonSeq
      <4>2. CASE t.kind # "common"
        BY <1>2, <2>1, <2>4, <4>2 DEF LoadTag, CommonSeq
      <4> QED BY <4>1, <4>2
    <3>7. bodies' = IF t.kind = "body" THEN Append(bodies, t) ELSE bodies
      BY <1>2, <2>1, <2>4 DEF LoadTag, WithBody
    <3>8. ListsUpTo(CommonSeq', "common", node) /\ ListsUpTo(bodies', "body", node)
      BY <2>2, <3>3, <3>4, <3>5, <3>6, <3>7, ListNext
    <3> PICK m \in Nat : m = node
      BY <2>1
    <3>9. ReadUpTo(m)'
      BY <3>1, <3>8 DEF ReadUpTo, ListsUpTo, Before
    <3>10. node' - 1 = m /\ node' <= Len(files'[1]) + 1
      BY <2>1, <2>2, <3>1
    <3> QED BY <3>1, <3>2, <3>9, <3>10 DEF FileInv
  <2> QED BY <2>3, <2>4
<1>3. CASE LoadDone
  <2>1. file = 1 /\ node = Len(files[1]) + 1 /\ hpc = "load" /\ Quiet /\ ReadUpTo(Len(files[1]))
    <3>1. file = 1 /\ node \in Nat \ {0} /\ hpc = "load" /\ Len(files[1]) \in Nat
      BY <1>3, FilesType DEF LoadDone, TypeOK
    <3>2. node = Len(files[1]) + 1
      BY <1>3, <3>1 DEF LoadDone, FileInv
    <3> QED BY <3>1, <3>2 DEF FileInv
  <2>2. CASE Complete /\ Agrees
    <3>1. file' = 2 /\ node' = 0 /\ hpc' = "load" /\ UNCHANGED <<common, bodies, epilogue, ret, files, finalize>>
      BY <1>3, <2>1, <2>2 DEF LoadDone, inputVars
    <3>2. Quiet'
      BY <1>3, <1>q, <2>1, <3>1 DEF LoadDone
    <3>3. ReadUpTo(Len(files[1]))'
      BY <2>1, <3>1 DEF ReadUpTo, ListsUpTo, CommonSeq, Before
    <3> QED BY <3>1, <3>2, <3>3 DEF FileInv
  <2>3. CASE ~(Complete /\ Agrees)
    BY <1>3, <2>1, <2>3, <1>f DEF LoadDone
  <2> QED BY <2>2, <2>3
<1>4. CASE Start
  <2>1. file = 2 /\ Len(files) = 1 /\ Complete /\ Agrees
    <3>1. hpc = "load" /\ node = 0 /\ file = Len(files) + 1
      BY <1>4 DEF Start
    <3>2. Len(files) \in Nat \ {0}
      BY FilesType DEF TypeOK
    <3>3. file # 1
      BY <3>1, <3>2
    <3>4. file = 2 /\ Complete /\ Agrees
      BY <3>1, <3>3 DEF TypeOK
    <3>5. Len(files) = file - 1
      BY <3>1, <3>2
    <3>6. file - 1 = 1
      BY <3>4
    <3> QED BY <3>4, <3>5, <3>6, Zenon
  <2>2. Whole
    BY <1>4, <2>1 DEF Start, FileInv, Whole
  <2>3. Whole' /\ hpc' = "write"
    BY <1>4, <2>2, <1>w DEF Start, loadVars, inputVars
  <2> QED BY <2>3 DEF FileInv
<1>5. CASE Write \/ ReadOne \/ ReadDone
  <2>1. hpc \in {"write", "read"} /\ UNCHANGED <<loadVars, inputVars>>
    BY <1>5 DEF Write, ReadOne, ReadDone
  <2>2. Whole
    BY <2>1 DEF FileInv
  <2>3. Whole'
    BY <2>1, <2>2, <1>w DEF loadVars, inputVars
  <2>4. hpc' # "load"
    BY <1>5 DEF Write, ReadOne, ReadDone, AfterConfigure, AfterTag, Finish, Exit
  <2> QED BY <2>3, <2>4 DEF FileInv
<1>6. CASE DevTake
  <2>1. UNCHANGED <<hpc, loadVars, inputVars>> /\ toDev # <<>>
    BY <1>6 DEF DevTake
  <2>2. Whole /\ hpc # "load"
    BY <2>1 DEF FileInv, Quiet, TypeOK
  <2>3. Whole'
    BY <2>1, <2>2, <1>w DEF loadVars, inputVars
  <2> QED BY <2>1, <2>2, <2>3 DEF FileInv
<1>7. CASE Unplug \/ UNCHANGED vars
  <2>1. UNCHANGED <<hpc, loadVars, inputVars>>
    BY <1>7 DEF Unplug, vars
  <2>2. Whole => Whole'
    BY <2>1, <1>w DEF loadVars, inputVars
  <2>3. Quiet => Quiet'
    BY <1>7 DEF Unplug, vars, devVars, Quiet, TypeOK, EmptyDescr
  <2>4. \A n : ReadUpTo(n) => ReadUpTo(n)'
    BY <2>1, <1>u DEF loadVars, inputVars
  <2> QED BY <2>1, <2>2, <2>3, <2>4 DEF FileInv, loadVars, inputVars
<1> QED
  BY <1>1, <1>2, <1>3, <1>4, <1>5, <1>6, <1>7 DEF Next, Host, Load, Done

-----------------------------------------------------------------------------
(* The numbers of the commands.                                            *)

LEMMA Bodies ==
  ASSUME TypeOK, Complete
  PROVE  /\ Len(bodies) \in Nat \ {0} /\ bodies \in Seq(Tags)
         /\ common.kind = "common" /\ common # NoCommon /\ epilogue.kind = "epilogue"
         /\ \A i \in 1 .. Len(bodies) : bodies[i].kind = "body"
<1>1. bodies \in Seq(Tags) /\ bodies # <<>>
  BY DEF TypeOK, Complete
<1>2. Len(bodies) \in Nat \ {0} /\ DOMAIN bodies = 1 .. Len(bodies)
  BY <1>1, EmptySeq
<1> QED BY <1>1, <1>2 DEF TypeOK, Complete

LEMMA PrefixNext ==
  ASSUME TypeOK, Complete
  PROVE  /\ SubSeq(bodies, 1, 0) = <<>>
         /\ \A k \in 1 .. Len(bodies) :
              Append(SubSeq(bodies, 1, k - 1), bodies[k]) = SubSeq(bodies, 1, k)
         /\ SubSeq(bodies, 1, Len(bodies)) = bodies
<1>1. bodies \in Seq(Tags) /\ Len(bodies) \in Nat
  BY Bodies
<1>2. ASSUME NEW k \in 1 .. Len(bodies)
      PROVE  Append(SubSeq(bodies, 1, k - 1), bodies[k]) = SubSeq(bodies, 1, k)
  <2>1. 1 \in 1 .. Len(bodies) /\ k \in 1 .. Len(bodies) /\ bodies[k] \in Tags
    BY <1>1
  <2>2. SubSeq(bodies, 1, k) = SubSeq(bodies, 1, k - 1) \o <<bodies[k]>>
    BY <1>1, <2>1, SubSeqRecursiveSecond
  <2>3. \A i \in 1 .. k - 1 : bodies[i] \in Tags
    BY <1>1
  <2>4. SubSeq(bodies, 1, k - 1) \in Seq(Tags)
    BY <2>1, <2>3, SubSeqProperties
  <2> QED BY <2>1, <2>2, <2>4, AppendIsConcat
<1>3. SubSeq(bodies, 1, 0) = <<>>
  BY SubSeqEmpty
<1> QED BY <1>1, <1>2, <1>3, SubSeqFull

LEMMA ItemOf ==
  ASSUME TypeOK, Complete, NEW k \in Int, k <= 2 * Len(bodies) + 4
  PROVE  /\ k <= 0 => Item(k) = Cmd("configure", NoTag, FALSE)
         /\ k \in {1, Len(bodies) + 3} => Item(k) = Cmd("tag", common, FALSE)
         /\ k \in 2 .. Len(bodies) + 1 => Item(k) = Cmd("tag", bodies[k - 1], FALSE)
         /\ k \in Len(bodies) + 4 .. 2 * Len(bodies) + 3 =>
              Item(k) = Cmd("tag", bodies[k - Len(bodies) - 3], FALSE)
         /\ k = Len(bodies) + 2 => Item(k) = Cmd("tag", epilogue, FALSE)
         /\ k = 2 * Len(bodies) + 4 => Item(k) = Cmd("tag", epilogue, TRUE)
<1>1. Len(bodies) \in Nat \ {0}
  BY Bodies
<1> DEFINE n == Len(bodies)
<1>2. k <= 0 => Item(k) = Cmd("configure", NoTag, FALSE)
  BY DEF Item
<1>3. ASSUME k \in {1, n + 3}
      PROVE  Item(k) = Cmd("tag", common, FALSE)
  <2>1. ~(k <= 0)
    BY <1>1, <1>3
  <2> QED BY <1>3, <2>1, Zenon DEF Item
<1>4. ASSUME k \in 2 .. n + 1
      PROVE  Item(k) = Cmd("tag", bodies[k - 1], FALSE)
  <2>1. ~(k <= 0) /\ k \notin {1, n + 3} /\ k # n + 2 /\ k # n + n + 4 /\ k < n + 2
    BY <1>1, <1>4
  <2> QED BY <2>1, Zenon DEF Item
<1>5. ASSUME k \in n + 4 .. 2 * n + 3
      PROVE  Item(k) = Cmd("tag", bodies[k - n - 3], FALSE)
  <2>1. ~(k <= 0) /\ k \notin {1, n + 3} /\ k # n + 2 /\ k # n + n + 4 /\ ~(k < n + 2)
    BY <1>1, <1>5
  <2> QED BY <2>1, Zenon DEF Item
<1>6. ASSUME k = n + 2
      PROVE  Item(k) = Cmd("tag", epilogue, FALSE)
  <2>1. ~(k <= 0) /\ k \notin {1, n + 3}
    BY <1>1, <1>6
  <2> QED BY <1>6, <2>1, Zenon DEF Item
<1>7. ASSUME k = 2 * n + 4
      PROVE  Item(k) = Cmd("tag", epilogue, TRUE)
  <2>1. ~(k <= 0) /\ k \notin {1, n + 3} /\ k # n + 2 /\ k = n + n + 4
    BY <1>1, <1>7
  <2> QED BY <2>1, Zenon DEF Item
<1> QED BY <1>2, <1>3, <1>4, <1>5, <1>6, <1>7

LEMMA StepIndex ==
  ASSUME TypeOK, Complete, hpc \in {"write", "read"}, step.s # "reset"
  PROVE  /\ Index(step) \in 0 .. 2 * Len(bodies) + 4
         /\ step.s = "configure" <=> Index(step) = 0
         /\ step.s = "epilogue" /\ step.pass = 2 <=> Index(step) = 2 * Len(bodies) + 4
         /\ Index(step) < 2 * Len(bodies) + 4 =>
              /\ Then.s \notin {"reset", "configure"} /\ Index(Then) = Index(step) + 1
         /\ Command = Item(Index(step))
<1>1. step \in Steps /\ Len(bodies) \in Nat \ {0}
  BY Bodies DEF TypeOK
<1> DEFINE n == Len(bodies)
<1>2. CASE step = Step("configure", 1, 0)
  <2>1. Index(step) = 0 /\ Then = Step("common", 1, 0) /\ Index(Then) = 1
    BY <1>2 DEF Index, Place, Step, Then
  <2>2. Command = Item(0)
    BY <1>1, <1>2, ItemOf DEF Command, Cmd, Step
  <2> QED BY <1>1, <1>2, <2>1, <2>2 DEF Step
<1>3. CASE \E p \in {1, 2} : step = Step("common", p, 0)
  <2> PICK p \in {1, 2} : step = Step("common", p, 0)
    BY <1>3
  <2>1. /\ Index(step) = (IF p = 1 THEN 0 ELSE n + 2) + 1
        /\ Then = Step("body", p, 1) /\ Index(Then) = (IF p = 1 THEN 0 ELSE n + 2) + 2
    BY <1>1 DEF Index, Place, Step, Then
  <2>2. Command = Item(Index(step))
    <3>1. Index(step) \in {1, n + 3} /\ Index(step) \in Int /\ Index(step) <= 2 * n + 4
      BY <1>1, <2>1
    <3>2. Item(Index(step)) = Cmd("tag", common, FALSE)
      BY <3>1, ItemOf
    <3> QED BY <3>2 DEF Command, Cmd, Step
  <2> QED BY <1>1, <2>1, <2>2 DEF Step
<1>4. CASE \E p \in {1, 2} : step = Step("epilogue", p, 0)
  <2> PICK p \in {1, 2} : step = Step("epilogue", p, 0)
    BY <1>4
  <2>1. /\ Index(step) = (IF p = 1 THEN 0 ELSE n + 2) + n + 2
        /\ p = 1 => Then = Step("common", 2, 0) /\ Index(Then) = n + 3
    <3>1. Index(step) = (IF p = 1 THEN 0 ELSE n + 2) + n + 2
      <4>1. step.s = "epilogue" /\ step.pass = p
        BY DEF Step
      <4>2. Place(step) = n + 2
        BY <4>1, Zenon DEF Place
      <4> QED BY <1>1, <4>1, <4>2 DEF Index
    <3>2. p = 1 => Then = Step("common", 2, 0)
      BY DEF Step, Then
    <3>3. Index(Step("common", 2, 0)) = n + 3
      BY <1>1 DEF Index, Place, Step
    <3> QED BY <3>1, <3>2, <3>3
  <2>3. Command = Item(Index(step))
    <3>1. CASE p = 1
      <4>1. Index(step) = n + 2 /\ Index(step) \in Int /\ Index(step) <= 2 * n + 4
        BY <1>1, <2>1, <3>1
      <4>2. Item(Index(step)) = Cmd("tag", epilogue, FALSE)
        BY <4>1, ItemOf
      <4>3. Command = Cmd("tag", epilogue, FALSE)
        <5>1. step.s = "epilogue" /\ (step.pass = 2) = FALSE
          BY <3>1 DEF Step
        <5>2. Command = [cmd |-> "tag", tag |-> epilogue, commit |-> step.pass = 2]
          BY <5>1 DEF Command
        <5> QED BY <5>1, <5>2, Zenon DEF Cmd
      <4> QED BY <4>2, <4>3
    <3>2. CASE p = 2
      <4>1. Index(step) = 2 * n + 4 /\ Index(step) \in Int /\ Index(step) <= 2 * n + 4
        BY <1>1, <2>1, <3>2
      <4>2. Item(Index(step)) = Cmd("tag", epilogue, TRUE)
        BY <4>1, ItemOf
      <4>3. Command = Cmd("tag", epilogue, TRUE)
        BY <3>2 DEF Command, Cmd, Step
      <4> QED BY <4>2, <4>3
    <3> QED BY <3>1, <3>2
  <2> QED BY <1>1, <2>1, <2>3 DEF Step
<1>5. CASE \E p \in {1, 2}, i \in 1 .. Len(bodies) : step = Step("body", p, i)
  <2> PICK p \in {1, 2}, i \in 1 .. n : step = Step("body", p, i)
    BY <1>5
  <2>1. Index(step) = (IF p = 1 THEN 0 ELSE n + 2) + 1 + i
    BY <1>1 DEF Index, Place, Step
  <2>2. /\ Then = IF i < n THEN Step("body", p, i + 1) ELSE Step("epilogue", p, 0)
        /\ Then.s \notin {"configure", "reset"}
    <3>1. step.s = "body" /\ step.pass = p /\ step.i = i
      BY DEF Step
    <3>2. Then = IF i < n THEN Step("body", p, i + 1) ELSE Step("epilogue", p, 0)
      <4>1. CASE i < n
        BY <3>1, <4>1 DEF Then
      <4>2. CASE i = n
        BY <3>1, <4>2 DEF Then
      <4> QED BY <1>1, <4>1, <4>2
    <3> QED BY <3>2 DEF Step
  <2>3. Index(Then) = (IF p = 1 THEN 0 ELSE n + 2) + 2 + i
    <3>1. CASE i < n
      BY <1>1, <2>2, <3>1 DEF Index, Place, Step
    <3>2. CASE i = n
      <4>1. Then = Step("epilogue", p, 0)
        BY <1>1, <2>2, <3>2
      <4>2. Then.s = "epilogue" /\ Then.pass = p
        BY <4>1 DEF Step
      <4>3. Place(Then) = n + 2
        BY <4>2, Zenon DEF Place
      <4>4. Index(Then) = (IF p = 1 THEN 0 ELSE n + 2) + (n + 2)
        BY <4>2, <4>3, Zenon DEF Index
      <4>5. \A b \in Nat : b + (n + 2) = b + 2 + i
        BY <1>1, <3>2
      <4>6. (IF p = 1 THEN 0 ELSE n + 2) \in Nat
        BY <1>1
      <4> QED BY <4>4, <4>5, <4>6, Zenon
    <3> QED BY <1>1, <3>1, <3>2
  <2>4. Command = Item(Index(step))
    <3>1. Command = Cmd("tag", bodies[i], FALSE)
      BY DEF Command, Cmd, Step
    <3>2. CASE p = 1
      <4>1. /\ Index(step) \in 2 .. n + 1 /\ Index(step) - 1 = i
            /\ Index(step) \in Int /\ Index(step) <= 2 * n + 4
        BY <1>1, <2>1, <3>2
      <4>2. Item(Index(step)) = Cmd("tag", bodies[Index(step) - 1], FALSE)
        BY <4>1, ItemOf
      <4> QED BY <3>1, <4>1, <4>2
    <3>3. CASE p = 2
      <4>1. /\ Index(step) \in n + 4 .. 2 * n + 3 /\ Index(step) - n - 3 = i
            /\ Index(step) \in Int /\ Index(step) <= 2 * n + 4
        BY <1>1, <2>1, <3>3
      <4>2. Item(Index(step)) = Cmd("tag", bodies[Index(step) - n - 3], FALSE)
        BY <4>1, ItemOf
      <4> QED BY <3>1, <4>1, <4>2
    <3> QED BY <3>2, <3>3
  <2>5. step.s = "body"
    BY DEF Step
  <2> QED BY <1>1, <2>1, <2>2, <2>3, <2>4, <2>5
<1>6. step # Step("reset", 2, 0)
  BY DEF Step
<1> QED BY <1>1, <1>2, <1>3, <1>4, <1>5, <1>6 DEF Steps

-----------------------------------------------------------------------------
(* The run.                                                                *)

LEMMA InitRun == Init => RunInv
<1> SUFFICES ASSUME Init PROVE RunInv
  OBVIOUS
<1>1. /\ bodies = <<>> /\ toDev = <<>> /\ hpc = "load" /\ there /\ gone = 0 /\ late = 0
      /\ ret = "none" /\ received = EmptyDescr /\ applied = EmptyDescr
  BY DEF Init
<1>2. Len(bodies) = 0 /\ Len(toDev) = 0
  BY <1>1
<1>3. Device(0, 0)
  BY <1>1, <1>2 DEF Device, Sent, Received, Second, EmptyDescr
<1> QED BY <1>1, <1>3 DEF RunInv, Active

\* Nothing has been sent: there is nothing to say of the device.
LEMMA LoadRun ==
  ASSUME TypeOK', Quiet',
         Active' => hpc' = "write" /\ step' = Step("configure", 1, 0)
  PROVE  RunInv'
<1>1. /\ Len(bodies') \in Nat /\ toDev' = <<>> /\ toHost' = <<>> /\ late' = 0 /\ resets' = 0
      /\ ret' # "ok" /\ received'.common = NoCommon /\ applied' = EmptyDescr
      /\ (~there' => gone' > 0)
  BY DEF TypeOK, Quiet, EmptyDescr
<1>2. Len(toDev') = 0
  BY <1>1
<1>3. Device(0, 0)'
  BY <1>1, <1>2 DEF Device, Sent, Received, Second
<1>4. Active' => HostAt(0, 0)'
  <2> SUFFICES ASSUME Active' PROVE HostAt(0, 0)'
    OBVIOUS
  <2>1. hpc' = "write" /\ step'.s = "configure" /\ step'.pass = 1
    BY DEF Step
  <2>2. Index(step)' = 0
    BY <2>1 DEF Index, Place
  <2>3. Close(0)'
    BY <1>1, <2>1 DEF Close, Accepted
  <2> QED BY <1>1, <1>2, <2>1, <2>2, <2>3 DEF HostAt
<1>5. (~there /\ gone = 0 /\ InStep => applied # EmptyDescr \/ resets > 0)'
  BY <1>1
<1> QED BY <1>1, <1>3, <1>4, <1>5 DEF RunInv

\* A step of the host that sends nothing.
LEMMA DeviceKeeps ==
  ASSUME TypeOK, TypeOK', NEW q \in Nat, NEW l \in Nat, Device(q, l),
         UNCHANGED <<common, bodies, epilogue, toDev, received, applied, validated>>,
         late' >= late,
         Len(toDev) = l \/ hpc' \in {"read", "end"}
  PROVE  Device(q, l)'
<1>1. InStep' => InStep
  BY DEF InStep, TypeOK
<1>2. Sent(q, l)'
  BY DEF Device, Sent, Item, Cmd
<1>3. Received(q - l)'
  BY DEF Device, Received, Prefix
<1>4. Second(q, l) => Second(q, l)'
  BY DEF Second, Described
<1> QED BY <1>1, <1>2, <1>3, <1>4 DEF Device, Described

LEMMA WriteRun ==
  ASSUME TypeOK, TypeOK', Complete, RunInv, Write
  PROVE  RunInv'
<1> DEFINE n == Len(bodies)
<1> PICK q \in Nat, l \in Nat : Device(q, l) /\ (Active => HostAt(q, l))
  BY DEF RunInv
<1>1. /\ hpc = "write" /\ Len(toDev) = l /\ n \in Nat \ {0} /\ toDev \in Seq(Commands)
      /\ UNCHANGED <<loadVars, toHost, devVars, late, gone>>
  BY Bodies DEF Write, Device, Sent, TypeOK
<1>2. CASE ~there
  <2>1. toDev' = toDev /\ ~Active' /\ ret' \in {ret, "failed"}
    BY <1>1, <1>2 DEF Write, Exit, Finish, Active, Step
  <2>2. Device(q, l)'
    BY <1>1, <2>1, DeviceKeeps DEF loadVars, devVars, TypeOK
  <2> QED BY <1>1, <2>1, <2>2 DEF RunInv, loadVars, devVars, InStep, Described
<1>3. CASE there
  <2>1. /\ toDev' = Append(toDev, Command) /\ hpc' = "read" /\ resp' = "none"
        /\ UNCHANGED <<step, ret>>
    BY <1>1, <1>3 DEF Write
  <2>2. Command \in Commands
    BY <1>1, CommandType
  <2>3. /\ Len(toDev') = l + 1 /\ toDev'[l + 1] = Command
        /\ \A j \in 1 .. l : toDev'[j] = toDev[j]
    BY <1>1, <2>1, <2>2, AppendProperties
  <2>4. ~there' /\ gone' = 0 /\ InStep' => applied' # EmptyDescr \/ resets' > 0
    BY <1>1, <1>3 DEF devVars
  <2>5. (ret = "ok" /\ gone = 0 /\ InStep => applied = Described)'
    BY <1>1, <2>1 DEF RunInv, devVars, loadVars, InStep, Described
  <2>6. CASE step.s = "reset"
    <3>1. Command = Cmd("reset", NoTag, FALSE)
      BY <2>6 DEF Command, Cmd
    <3>2. \A k : Item(k)' = Item(k)
      BY <1>1 DEF loadVars, Item, Cmd
    <3>3. Sent(q, l)'
      BY <1>1, <2>1, <2>3, <3>1, <3>2 DEF Device, Sent, loadVars, Cmd
    <3>4. Device(q, l)'
      BY <1>1, <3>3 DEF Device, Received, Prefix, Second, Described, InStep, loadVars, devVars
    <3>5. ~Active'
      BY <2>1, <2>6 DEF Active
    <3> QED BY <2>4, <2>5, <3>4, <3>5 DEF RunInv
  <2>7. CASE step.s # "reset"
    <3>1. HostAt(q, l) /\ Active
      BY <1>1, <2>7 DEF Active
    <3>2. /\ Index(step) \in 0 .. 2 * n + 4 /\ Command = Item(Index(step))
          /\ (step.s = "configure" <=> Index(step) = 0)
      BY <1>1, <2>7, StepIndex
    <3> PICK r \in 0 .. 2 * n + 4 : r = Index(step)
      BY <3>2
    <3>3. IF r = 0 THEN q = 0 ELSE q = r - 1
      BY <1>1, <3>1, <3>2 DEF HostAt
    <3>4. \A k : Item(k)' = Item(k)
      BY <1>1 DEF loadVars, Item, Cmd
    <3>5. Sent(r, l + 1)'
      <4>1. \A j \in 1 .. l : Item(r - (l + 1) + j) = Item(q - l + j)
        <5>1. CASE r = 0
          <6>1. \A j \in 1 .. l : r - (l + 1) + j <= 0 /\ q - l + j <= 0
            BY <3>3, <5>1
          <6> QED BY <6>1 DEF Item
        <5>2. CASE r # 0
          <6>1. \A j \in 1 .. l : r - (l + 1) + j = q - l + j
            BY <3>3, <5>2
          <6> QED BY <6>1
        <5> QED BY <5>1, <5>2
      <4>2. r - (l + 1) + (l + 1) = r
        OBVIOUS
      <4>3. \A j \in 1 .. l + 1 : toDev'[j] = Item(r - (l + 1) + j)
        <5> TAKE j \in 1 .. l + 1
        <5>1. CASE j = l + 1
          BY <2>3, <3>2, <4>2, <5>1
        <5>2. CASE j \in 1 .. l
          BY <2>3, <4>1, <5>2 DEF Device, Sent
        <5> QED BY <5>1, <5>2
      <4> QED BY <1>1, <2>3, <3>4, <4>3 DEF Sent, loadVars
    <3>6. Received(r - (l + 1))
      <4>1. CASE r = 0
        <5>1. ~(q - l \in 1 .. n + 1) /\ ~(q - l \in n + 3 .. 2 * n + 3)
          BY <1>1, <3>3, <4>1
        <5> QED BY <5>1 DEF Device, Received
      <4>2. CASE r # 0
        <5>1. r - (l + 1) = q - l
          BY <3>3, <4>2
        <5> QED BY <5>1 DEF Device
      <4> QED BY <4>1, <4>2
    <3>7. ASSUME InStep, r >= n + 3
          PROVE  /\ Described \in validated /\ l = 0
                 /\ r > n + 3 => received.common # NoCommon
      <4>1. q = r - 1 /\ ~(late > Index(step))
        BY <1>1, <3>3, <3>7 DEF InStep, TypeOK
      <4>2. Close(q)
        BY <1>3, <3>1, <3>7, <4>1 DEF HostAt
      <4>3. Accepted(q) /\ l = 0
        BY <1>1, <4>2 DEF Close
      <4>4. CASE r = n + 3
        BY <1>1, <4>1, <4>3, <4>4 DEF Accepted
      <4>5. CASE r > n + 3
        <5>1. q >= n + 3 /\ q \in n + 3 .. 2 * n + 3
          BY <1>1, <4>1, <4>5
        <5> QED BY <3>7, <4>3, <5>1 DEF Accepted, Device, Second
      <4> QED BY <1>1, <3>7, <4>3, <4>4, <4>5
    <3>8. Device(r, l + 1)'
      <4>1. Received(r - (l + 1))'
        BY <1>1, <3>6 DEF Received, Prefix, loadVars, devVars
      <4>2. InStep' /\ r >= n + 3 => Second(r, l + 1)'
        BY <1>1, <3>7 DEF InStep, Second, Described, loadVars, devVars
      <4> QED BY <1>1, <3>5, <4>1, <4>2 DEF Device, Described, InStep, loadVars, devVars
    <3>9. HostAt(r, l + 1)'
      <4>1. Index(step)' = r
        BY <1>1, <2>1 DEF Index, Place, loadVars
      <4>2. there /\ InStep' => late' > r \/ Close(r)'
        <5>1. ASSUME Close(q)
              PROVE  Close(r)'
          BY <1>1, <2>1, <2>3, <5>1 DEF Close
        <5> QED BY <1>1, <3>1, <5>1 DEF HostAt, InStep, loadVars
      <4>3. toDev' # <<>>
        BY <1>1, <2>1, <2>2, AppendProperties
      <4> QED BY <1>1, <2>1, <2>3, <3>1, <4>1, <4>2, <4>3 DEF HostAt, devVars
    <3>10. r \in Nat /\ l + 1 \in Nat
      BY <1>1
    <3> QED BY <2>4, <2>5, <3>8, <3>9, <3>10 DEF RunInv
  <2> QED BY <2>6, <2>7
<1> QED BY <1>2, <1>3

LEMMA ReadOneRun ==
  ASSUME TypeOK, TypeOK', RunInv, ReadOne
  PROVE  RunInv'
<1> PICK q \in Nat, l \in Nat : Device(q, l) /\ (Active => HostAt(q, l))
  BY DEF RunInv
<1>1. /\ hpc = "read" /\ toHost # <<>> /\ toHost \in Seq({"ACK", "NAK"})
      /\ resp' = Head(toHost) /\ toHost' = Tail(toHost)
      /\ UNCHANGED <<hpc, step, tries, ret, loadVars, inputVars, toDev, devVars, late, gone>>
  BY DEF ReadOne, TypeOK
<1>2. Device(q, l)'
  BY <1>1, DeviceKeeps DEF loadVars, devVars, TypeOK
<1>3. LastAnswer' = LastAnswer
  <2>1. /\ Len(toHost) \in Nat \ {0} /\ Head(toHost) = toHost[1]
        /\ Tail(toHost) \in Seq({"ACK", "NAK"}) /\ Len(Tail(toHost)) = Len(toHost) - 1
        /\ \A i \in 1 .. Len(Tail(toHost)) : Tail(toHost)[i] = toHost[i + 1]
    BY <1>1, HeadTailProperties, EmptySeq
  <2>2. CASE Tail(toHost) = <<>>
    <3>1. Len(toHost) = 1
      <4>1. Len(toHost) \in Nat \ {0} /\ Len(Tail(toHost)) = Len(toHost) - 1
        BY <2>1
      <4>2. Len(<<>>) = 0
        OBVIOUS
      <4> HIDE <2>1
      <4> QED BY <2>2, <4>1, <4>2
    <3> QED BY <1>1, <2>1, <2>2, <3>1 DEF LastAnswer
  <2>3. CASE Tail(toHost) # <<>>
    <3>1. Len(Tail(toHost)) \in 1 .. Len(Tail(toHost)) /\ Len(Tail(toHost)) + 1 = Len(toHost)
      BY <2>1, <2>3, EmptySeq
    <3>2. Tail(toHost)[Len(Tail(toHost))] = toHost[Len(toHost)]
      BY <2>1, <3>1
    <3> QED BY <1>1, <2>3, <3>2 DEF LastAnswer
  <2> QED BY <2>2, <2>3
<1>4. Active' => HostAt(q, l)'
  <2> SUFFICES ASSUME Active' PROVE HostAt(q, l)'
    OBVIOUS
  <2>1. HostAt(q, l)
    BY <1>1 DEF Active
  <2>2. Close(q) => Close(q)'
    BY <1>1 DEF Close
  <2>3. Index(step)' = Index(step) /\ (Accepted(q) => Accepted(q)')
    BY <1>1 DEF Index, Place, Accepted, Described, loadVars, devVars
  <2> QED BY <1>1, <1>3, <2>1, <2>2, <2>3 DEF HostAt, InStep, loadVars, devVars
<1> QED BY <1>1, <1>2, <1>4 DEF RunInv, InStep, Described, loadVars, devVars

LEMMA ReadDoneRun ==
  ASSUME TypeOK, TypeOK', Complete, RunInv, ReadDone
  PROVE  RunInv'
<1> DEFINE n == Len(bodies)
<1> PICK q \in Nat, l \in Nat : Device(q, l) /\ (Active => HostAt(q, l))
  BY DEF RunInv
<1>1. /\ hpc = "read" /\ toHost = <<>> /\ late \in Nat /\ n \in Nat \ {0}
      /\ UNCHANGED <<resp, tries, loadVars, inputVars, toDev, toHost, devVars, gone>>
      /\ \/ (toDev = <<>> \/ ~there) /\ late' = late
         \/ late' = late + 1
  BY Bodies DEF ReadDone, Silent, TypeOK
<1>2. late' >= late /\ late' \in Nat
  BY <1>1
<1>3. InStep' => InStep
  BY <1>1, <1>2 DEF InStep, loadVars
<1>4. ~there' /\ gone' = 0 /\ InStep' => applied' # EmptyDescr \/ resets' > 0
  BY <1>1, <1>3 DEF RunInv, devVars
<1>5. Described' = Described /\ applied' = applied
  BY <1>1 DEF Described, loadVars, devVars
<1>6. CASE step.s = "reset"
  <2>1. hpc' = "end" /\ UNCHANGED <<step, ret>>
    BY <1>6 DEF ReadDone
  <2>2. Device(q, l)'
    BY <1>1, <1>2, <2>1, DeviceKeeps DEF loadVars, devVars
  <2> QED BY <1>1, <1>3, <1>4, <1>5, <2>1, <2>2 DEF RunInv, Active
<1>7. CASE step.s # "reset"
  <2>1. HostAt(q, l)
    BY <1>1, <1>7 DEF Active
  <2> PICK k \in 0 .. 2 * n + 4 : k = Index(step)
    BY <1>1, <1>7, StepIndex
  <2>2. /\ step.s = "configure" <=> k = 0
        /\ step.s = "epilogue" /\ step.pass = 2 <=> k = 2 * n + 4
        /\ k < 2 * n + 4 => Then.s \notin {"reset", "configure"} /\ Index(Then) = k + 1
    BY <1>1, <1>7, StepIndex
  <2>3. /\ Len(toDev) = l /\ resets = 0 /\ ret # "ok" /\ q = k
        /\ there /\ InStep => late > k \/ Close(q)
        /\ there /\ InStep /\ toDev = <<>> /\ resp = "ACK" => Accepted(q)
    BY <1>1, <2>1 DEF HostAt, LastAnswer
  <2>4. Device(q, l)'
    BY <1>1, <1>2, <2>3, DeviceKeeps DEF loadVars, devVars
  <2>5. there /\ InStep /\ toDev # <<>> /\ resp # "none" => late > k
    BY <1>1, <2>3 DEF Close
  <2>t. CASE hpc' = "write" /\ step' = Then /\ ret' = ret /\ Outcome \in {"ACK", "NAK"}
             /\ k < 2 * n + 4 /\ (Outcome = "ACK" \/ k = 0)
    <3>1. resp = Outcome \/ ~there
      BY <2>t DEF Outcome
    <3>2. Index(step)' = k + 1 /\ step'.s # "configure"
      BY <1>1, <2>2, <2>t DEF Index, Place, loadVars
    <3>3. ASSUME there', InStep'
          PROVE  late' > k + 1 \/ Close(q)'
      <4>1. there /\ InStep /\ resp = Outcome
        BY <1>1, <1>3, <3>1, <3>3 DEF devVars
      <4>2. CASE toDev # <<>>
        <5>1. late > k /\ late' = late + 1
          BY <1>1, <2>5, <2>t, <4>1, <4>2
        <5> QED BY <1>1, <5>1
      <4>3. CASE toDev = <<>>
        <5>1. Accepted(q)
          BY <1>1, <2>3, <2>t, <4>1, <4>3 DEF Accepted
        <5> QED BY <1>1, <2>t, <4>3, <5>1 DEF Close, Accepted, Described, loadVars, devVars
      <4> QED BY <4>2, <4>3
    <3>4. HostAt(q, l)'
      BY <1>1, <2>3, <2>t, <3>2, <3>3 DEF HostAt, devVars
    <3>5. (ret = "ok" /\ gone = 0 /\ InStep => applied = Described)'
      BY <2>3, <2>t
    <3> QED BY <1>4, <2>4, <3>4, <3>5 DEF RunInv
  <2>6. CASE step.s = "configure"
    <3>1. k = 0
      BY <2>2, <2>6
    <3>2. AfterConfigure
      BY <2>6 DEF ReadDone
    <3>3. CASE Outcome \in {"ACK", "NAK"}
      BY <1>1, <2>t, <3>1, <3>2, <3>3 DEF AfterConfigure
    <3>4. CASE Outcome \notin {"ACK", "NAK"} /\ hpc' = "write"
      <4>1. step' = step /\ ret' = ret
        BY <3>2, <3>4 DEF AfterConfigure, Exit
      <4>2. Index(step)' = 0
        BY <1>1, <3>1, <4>1 DEF Index, Place, loadVars
      <4>3. there' /\ InStep' => late' > 0 \/ Close(q)'
        BY <1>1, <2>3, <3>1, <3>4 DEF Close, Accepted, loadVars, devVars
      <4>4. HostAt(q, l)'
        BY <1>1, <2>3, <2>6, <3>1, <3>4, <4>1, <4>2, <4>3 DEF HostAt, devVars
      <4> QED BY <1>4, <2>3, <2>4, <4>1, <4>4 DEF RunInv
    <3>5. CASE hpc' # "write"
      <4>1. ret' # "ok" /\ ~Active'
        <5>1. hpc' = "end" /\ ret' # "ok"
          BY <2>3, <3>2, <3>5 DEF AfterConfigure, Exit
        <5> QED BY <5>1 DEF Active
      <4> QED BY <1>4, <2>4, <4>1 DEF RunInv
    <3> QED BY <3>3, <3>4, <3>5
  <2>7. CASE step.s # "configure"
    <3>1. AfterTag
      BY <1>7, <2>7 DEF ReadDone
    <3>2. CASE ResetItself \/ ~Acceptable \/ k = 2 * n + 4
      <4>1. ~Active' /\ (ret' = "ok" => ResetItself \/ (Acceptable /\ k = 2 * n + 4))
        BY <2>2, <2>3, <3>1, <3>2
           DEF AfterTag, Exit, Finish, Active, Step, ResetItself, Acceptable
      <4>2. ASSUME ret' = "ok", gone' = 0, InStep'
            PROVE  applied' = Described'
        <5>0. gone = 0 /\ InStep
          BY <1>1, <1>3, <4>2
        <5>1. applied # EmptyDescr => applied = Described
          BY <5>0 DEF Device
        <5>2. CASE ~there
          <6>1. ~(resets > 0)
            BY <2>3
          <6> QED BY <1>5, <5>0, <5>1, <5>2, <6>1 DEF RunInv
        <5>3. CASE there
          <6>1. resp = "ACK" /\ k = 2 * n + 4
            <7>1. resp \in {"none", "ACK", "NAK"}
              BY DEF TypeOK
            <7>2. ~ResetItself
              BY <5>3, <7>1 DEF ResetItself, Outcome
            <7> QED BY <4>1, <4>2, <5>3, <7>1, <7>2 DEF Acceptable, Outcome
          <6>2. late <= k
            BY <1>1, <5>0, <6>1 DEF InStep
          <6>3. Close(q)
            BY <1>1, <2>3, <5>0, <5>3, <6>2
          <6>4. Accepted(q)
            BY <1>1, <2>3, <5>0, <5>3, <6>1, <6>3 DEF Close
          <6> QED BY <1>5, <2>3, <6>1, <6>4 DEF Accepted
        <5> QED BY <5>2, <5>3
      <4> QED BY <1>4, <2>4, <4>1, <4>2 DEF RunInv
    <3>3. CASE ~ResetItself /\ Acceptable /\ k # 2 * n + 4
      <4>1. step' = Then /\ hpc' = "write" /\ ret' = ret
        BY <2>2, <3>1, <3>3 DEF AfterTag
      <4>2. k < 2 * n + 4
        BY <1>1, <3>3
      <4> QED BY <2>t, <3>3, <4>1, <4>2 DEF Acceptable
    <3> QED BY <3>2, <3>3
  <2> QED BY <2>6, <2>7
<1> QED BY <1>6, <1>7

\* The device goes through the commands in order; what it refuses it forgets.
LEMMA TakeItem ==
  ASSUME TypeOK, Complete, NEW m \in Int, m <= 2 * Len(bodies) + 4, Received(m - 1),
         UNCHANGED <<common, bodies, epilogue>>,
         Item(m).cmd = "configure" => received' = received,
         Item(m).cmd = "tag" => received' \in {EmptyDescr, Given(Item(m).tag)},
         m \in {Len(bodies) + 2, 2 * Len(bodies) + 4} => received' = EmptyDescr
  PROVE  Received(m)'
<1> DEFINE n == Len(bodies)
<1>1. n \in Nat \ {0} /\ bodies \in Seq(Tags) /\ common.kind = "common"
  BY Bodies
<1>2. CASE received'.common = NoCommon
  BY <1>2 DEF Received
<1>3. CASE received'.common # NoCommon
  <2>1. received' # EmptyDescr /\ m \notin {n + 2, 2 * n + 4}
    BY <1>3 DEF EmptyDescr
  <2>2. m \in Int /\ m <= 2 * n + 4
    OBVIOUS
  <2>3. CASE m <= 0
    <3>1. received' = received
      BY <2>2, <2>3, ItemOf DEF Cmd
    <3>2. m - 1 \notin 1 .. n + 1 /\ m - 1 \notin n + 3 .. 2 * n + 3
      BY <1>1, <2>3
    <3> QED BY <1>3, <3>1, <3>2 DEF Received
  <2>4. CASE m \in {1, n + 3}
    <3>1. Item(m).cmd = "tag" /\ Item(m).tag = common
      BY <2>2, <2>4, ItemOf DEF Cmd
    <3>2. received' = Prefix(0)
      BY <1>1, <2>1, <3>1, PrefixNext DEF Given, Prefix
    <3>3. \/ m \in 1 .. n + 1 /\ m - 1 = 0
          \/ m \in n + 3 .. 2 * n + 3 /\ m - n - 3 = 0
      BY <1>1, <2>4
    <3>4. Prefix(0)' = Prefix(0)
      BY DEF Prefix
    <3> QED BY <3>2, <3>3, <3>4 DEF Received
  <2>5. ASSUME NEW i \in 1 .. n, Item(m) = Cmd("tag", bodies[i], FALSE),
               received.common # NoCommon => received = Prefix(i - 1)
        PROVE  received' = Prefix(i)
    <3>1. bodies[i].kind = "body"
      BY Bodies
    <3>2. received' = [received EXCEPT !.bodies = Append(@, bodies[i])]
      BY <2>1, <2>5, <3>1 DEF Given, Cmd
    <3>3. received \in Descr
      BY DEF TypeOK
    <3>4. received'.common = received.common
      BY <3>2, <3>3 DEF Descr
    <3>5. received = Prefix(i - 1)
      BY <1>3, <2>5, <3>4
    <3>6. Append(SubSeq(bodies, 1, i - 1), bodies[i]) = SubSeq(bodies, 1, i)
      BY PrefixNext
    <3> QED BY <3>2, <3>5, <3>6 DEF Prefix
  <2>6. \A i : Prefix(i)' = Prefix(i)
    BY DEF Prefix
  <2>7. CASE m \in 2 .. n + 1
    <3>1. m - 1 \in 1 .. n /\ m - 1 \in Int /\ m - 1 \notin n + 3 .. 2 * n + 3
      BY <1>1, <2>7
    <3>2. Item(m) = Cmd("tag", bodies[m - 1], FALSE)
      BY <2>2, <2>7, ItemOf
    <3>3. received.common # NoCommon => received = Prefix(m - 1 - 1)
      BY <3>1 DEF Received
    <3>4. received' = Prefix(m - 1)
      BY <2>5, <3>1, <3>2, <3>3
    <3> QED BY <2>6, <2>7, <3>1, <3>4 DEF Received
  <2>8. CASE m \in n + 4 .. 2 * n + 3
    <3>1. /\ m - n - 3 \in 1 .. n /\ m - n - 3 \in Int /\ m - 1 \notin 1 .. n + 1
          /\ m - 1 - n - 3 = m - n - 3 - 1
      BY <1>1, <2>8
    <3>2. Item(m) = Cmd("tag", bodies[m - n - 3], FALSE)
      BY <2>2, <2>8, ItemOf
    <3>3. received.common # NoCommon => received = Prefix(m - n - 3 - 1)
      BY <3>1 DEF Received
    <3>4. received' = Prefix(m - n - 3)
      BY <2>5, <3>1, <3>2, <3>3
    <3>5. m \in n + 3 .. 2 * n + 3
      BY <1>1, <2>8
    <3> QED BY <2>6, <3>1, <3>4, <3>5 DEF Received
  <2> QED BY <1>1, <2>1, <2>2, <2>3, <2>4, <2>7, <2>8
<1> QED BY <1>2, <1>3

LEMMA DevTakeRun ==
  ASSUME TypeOK, TypeOK', Complete, RunInv, DevTake
  PROVE  RunInv'
<1> DEFINE n == Len(bodies)
           c == Head(toDev)
<1> PICK q \in Nat, l \in Nat : Device(q, l) /\ (Active => HostAt(q, l))
  BY DEF RunInv
<1>1. /\ there /\ toDev # <<>> /\ toDev \in Seq(Commands) /\ toDev' = Tail(toDev)
      /\ UNCHANGED <<hpc, step, resp, tries, ret, loadVars, inputVars, late, gone>>
      /\ UNCHANGED <<common, bodies, epilogue>>
  BY DEF DevTake, TypeOK, loadVars
<1>2. /\ n \in Nat \ {0} /\ common.kind = "common" /\ common # NoCommon
      /\ epilogue.kind = "epilogue" /\ \A i \in 1 .. n : bodies[i].kind = "body"
  BY Bodies
<1>3. /\ Len(toDev) \in Nat \ {0} /\ c = toDev[1] /\ Len(toDev') = Len(toDev) - 1
  BY <1>1, EmptySeq, HeadTailProperties
<1>t. \A j \in 1 .. Len(toDev) - 1 : toDev'[j] = toDev[j + 1]
  BY <1>1, HeadTailProperties
<1>4. /\ InStep' <=> InStep
      /\ Described' = Described /\ \A k : Item(k)' = Item(k)
      /\ Active' <=> Active
      /\ Index(step)' = Index(step)
  BY <1>1 DEF InStep, Described, Item, Cmd, Active, Index, Place
<1>5. Received(q - l) /\ q \in 0 .. 2 * n + 4 /\ Len(toDev) \in {l, l + 1}
  BY DEF Device, Sent
<1>r. Len(toDev) = l + 1 => toDev[l + 1] = Cmd("reset", NoTag, FALSE) /\ hpc \in {"read", "end"}
  <2>1. Len(toDev) = l \/ (toDev[l + 1] = Cmd("reset", NoTag, FALSE) /\ hpc \in {"read", "end"})
    BY DEF Device, Sent
  <2>2. l # l + 1
    OBVIOUS
  <2> QED BY <2>1, <2>2, Zenon
<1>s. \A j \in 1 .. l : toDev[j] = Item(q - l + j)
  BY DEF Device, Sent
\* The reset comes last, when the host waits for nothing else.
<1>6. CASE l = 0
  <2>1. /\ Len(toDev) = 1 /\ c = Cmd("reset", NoTag, FALSE) /\ hpc \in {"read", "end"}
    <3>1. Len(toDev) = 1 /\ Len(toDev) = l + 1 /\ l + 1 = 1
      BY <1>3, <1>5, <1>6
    <3> QED BY <1>3, <1>r, <3>1
  <2>2. /\ resets' = resets + 1 /\ resets \in Nat
        /\ UNCHANGED <<received, validated, applied, fails>>
    <3>1. c.cmd = "reset"
      BY <2>1 DEF Cmd
    <3>2. resets' = resets + 1 /\ UNCHANGED <<received, validated, applied, fails>>
      BY <3>1 DEF DevTake
    <3>3. resets \in Nat
      BY DEF TypeOK
    <3> QED BY <3>2, <3>3
  <2>3. ~Active
    BY <1>6, <2>1 DEF HostAt
  <2>4. Len(toDev') = 0
    BY <1>3, <2>1
  <2>5. Device(q, l)'
    BY <1>1, <1>4, <1>6, <2>2, <2>4 DEF Device, Sent, Received, Prefix, Second, Cmd
  <2> QED BY <1>1, <1>4, <2>2, <2>3, <2>5 DEF RunInv
<1>7. CASE l > 0
  <2> PICK m \in Int : m = q - l + 1
    BY <1>5
  <2>1. m <= 2 * n + 4 /\ q - (l - 1) = m /\ q - l = m - 1 /\ l - 1 \in Nat
    BY <1>2, <1>5, <1>7
  <2>2. c = Item(m)
    <3>1. 1 \in 1 .. l /\ q - l + 1 = m
      BY <1>7
    <3> QED BY <1>3, <1>s, <3>1
  <2>3. Sent(q, l - 1)'
    <3>1. \A j \in 1 .. l - 1 : toDev'[j] = Item(q - (l - 1) + j)
      <4> TAKE j \in 1 .. l - 1
      <4>1. j + 1 \in 1 .. l /\ q - l + (j + 1) = q - (l - 1) + j
        BY <1>5, <1>7
      <4>2. j \in 1 .. Len(toDev) - 1
        BY <1>3, <1>5, <1>7
      <4>3. toDev[j + 1] = Item(q - l + (j + 1))
        BY <1>s, <4>1
      <4> QED BY <1>t, <4>1, <4>2, <4>3
    <3>2. \/ Len(toDev') = l - 1
          \/ /\ Len(toDev') = l - 1 + 1 /\ toDev'[l - 1 + 1] = Cmd("reset", NoTag, FALSE)
             /\ hpc' \in {"read", "end"}
      <4>1. Len(toDev) = l => Len(toDev') = l - 1
        BY <1>3
      <4>2. CASE Len(toDev) = l + 1
        <5>1. Len(toDev') = l - 1 + 1 /\ l \in 1 .. Len(toDev) - 1 /\ l - 1 + 1 = l
          BY <1>3, <1>7, <4>2
        <5>2. toDev'[l] = toDev[l + 1]
          BY <1>t, <5>1
        <5> QED BY <1>1, <1>r, <4>2, <5>1, <5>2
      <4> QED BY <1>5, <4>1, <4>2
    <3> QED BY <1>1, <1>4, <1>5, <2>1, <3>1, <3>2 DEF Sent, Cmd
  <2>4. c.cmd \in {"configure", "tag"} /\ (c.cmd = "tag" <=> m >= 1)
        /\ (c.cmd = "tag" => IF m = 2 * n + 4 THEN c.commit = TRUE ELSE c.commit = FALSE)
        /\ (c.cmd = "tag" =>
             (c.tag.kind = "epilogue" <=> m \in {n + 2, 2 * n + 4}))
    <3>1. /\ m <= 0 => c = Cmd("configure", NoTag, FALSE)
          /\ m \in {1, n + 3} => c = Cmd("tag", common, FALSE)
          /\ m \in 2 .. n + 1 => c = Cmd("tag", bodies[m - 1], FALSE)
          /\ m \in n + 4 .. 2 * n + 3 => c = Cmd("tag", bodies[m - n - 3], FALSE)
          /\ m = n + 2 => c = Cmd("tag", epilogue, FALSE)
          /\ m = 2 * n + 4 => c = Cmd("tag", epilogue, TRUE)
      BY <2>1, <2>2, ItemOf
    <3>2. CASE m <= 0
      BY <1>2, <3>1, <3>2 DEF Cmd
    <3>3. CASE m \in {1, n + 3}
      BY <1>2, <3>1, <3>3 DEF Cmd
    <3>4. CASE m \in 2 .. n + 1
      <4>1. m - 1 \in 1 .. n /\ m # 2 * n + 4 /\ m \notin {n + 2, 2 * n + 4} /\ m >= 1
        BY <1>2, <3>4
      <4>2. bodies[m - 1].kind = "body"
        BY <1>2, <4>1
      <4> QED BY <3>1, <3>4, <4>1, <4>2 DEF Cmd
    <3>5. CASE m \in n + 4 .. 2 * n + 3
      <4>1. /\ m - n - 3 \in 1 .. n /\ m # 2 * n + 4
            /\ m \notin {n + 2, 2 * n + 4} /\ m >= 1
        BY <1>2, <3>5
      <4>2. bodies[m - n - 3].kind = "body"
        BY <1>2, <4>1
      <4> QED BY <3>1, <3>5, <4>1, <4>2 DEF Cmd
    <3>6. CASE m = n + 2
      BY <1>2, <3>1, <3>6 DEF Cmd
    <3>7. CASE m = 2 * n + 4
      BY <1>2, <3>1, <3>7 DEF Cmd
    <3>8. \/ m <= 0 \/ m \in {1, n + 3} \/ m \in 2 .. n + 1 \/ m \in n + 4 .. 2 * n + 3
          \/ m = n + 2 \/ m = 2 * n + 4
      <4>1. n \in Nat /\ m <= 2 * n + 4
        BY <1>2, <2>1
      <4> QED BY <4>1
    <3> QED BY <3>2, <3>3, <3>4, <3>5, <3>6, <3>7, <3>8
  <2>5. /\ c.cmd = "configure" =>
              UNCHANGED <<received, validated, applied, there, fails>> /\ toHost' = Append(toHost, "ACK")
        /\ c.cmd = "tag" => DevTag(c)
        /\ resets' = resets
    BY <2>4 DEF DevTake
  <2>6. Received(m)'
    <3>1. Received(m - 1) /\ (c.cmd = "configure" => received' = received)
      BY <1>5, <2>1, <2>5
    <3>2. c.cmd = "tag" => received' \in {EmptyDescr, Given(c.tag)}
      BY <2>5 DEF DevTag
    <3>3. m \in {n + 2, 2 * n + 4} => received' = EmptyDescr
      BY <1>2, <2>4, <2>5 DEF DevTag
    <3> QED BY <1>1, <2>1, <2>2, <3>1, <3>2, <3>3, TakeItem
  <2>7. /\ validated \subseteq validated'
        /\ m # 2 * n + 4 => applied' = applied /\ there' = there
        /\ m = 2 * n + 4 => \/ applied' = received /\ validated' = validated
                            \/ applied' = applied /\ there' = there
    BY <2>4, <2>5 DEF DevTag
  <2>8. ASSUME InStep, m = 2 * n + 4
        PROVE  q = 2 * n + 4 /\ l = 1 /\ Described \in validated /\ received = Described
    <3>1. q = 2 * n + 4 /\ l = 1 /\ q > n + 3 /\ q >= n + 3
      BY <1>2, <1>5, <1>7, <2>1, <2>8
    <3>2. Second(q, l)
      BY <2>8, <3>1 DEF Device
    <3>3. received = Prefix(q - l - n - 3)
      <4>1. q - l \notin 1 .. n + 1
        BY <1>2, <3>1
      <4> QED BY <1>5, <3>1, <3>2, <4>1 DEF Received, Second
    <3>4. q - l - n - 3 = n
      BY <1>2, <3>1
    <3> QED BY <3>1, <3>2, <3>3, <3>4, PrefixNext DEF Prefix, Second, Described
  <2>9. InStep => /\ applied' \in {EmptyDescr, Described}
                  /\ applied' # EmptyDescr => Described \in validated'
                  /\ ~there' => applied' = Described
                  /\ applied = Described => applied' = Described
    <3>1. InStep => /\ applied \in {EmptyDescr, Described}
                    /\ applied # EmptyDescr => Described \in validated
      BY DEF Device
    <3>2. CASE m # 2 * n + 4
      BY <1>1, <2>7, <3>1, <3>2
    <3>3. CASE m = 2 * n + 4
      BY <1>1, <2>7, <2>8, <3>1, <3>3
    <3> QED BY <3>2, <3>3
  <2>10. Device(q, l - 1)'
    <3>1. ASSUME InStep, q >= n + 3
          PROVE  Second(q, l - 1)'
      <4>1. Described \in validated /\ l = 1
        BY <1>7, <3>1 DEF Device, Second
      <4> QED BY <1>4, <2>7, <4>1 DEF Second
    <3> QED BY <1>1, <1>4, <2>1, <2>3, <2>6, <2>9, <3>1 DEF Device
  <2>11. ASSUME there', InStep
         PROVE  \/ toHost' = Append(toHost, "NAK")
                \/ toHost' = Append(toHost, "ACK") /\ (l = 1 => Accepted(q)')
    <3>1. \/ toHost' = Append(toHost, "NAK")
          \/ toHost' = Append(toHost, "ACK")
      BY <2>4, <2>5, <2>11 DEF DevTag
    <3>2. ASSUME toHost' # Append(toHost, "NAK"), l = 1
          PROVE  Accepted(q)'
      <4>1. m = q
        BY <2>1, <3>2
      <4>2. ASSUME q = n + 2
            PROVE  Described \in validated'
        <5>1. received \in validated' /\ Sound(received)
          BY <1>2, <2>4, <2>5, <3>2, <4>1, <4>2 DEF DevTag
        <5>2. received.common # NoCommon
          BY <5>1 DEF Sound
        <5>3. q - l = n + 1 /\ n + 1 \notin n + 3 .. 2 * n + 3 /\ n + 1 - 1 = n
          BY <1>2, <3>2, <4>2
        <5>4. received = Prefix(n)
          BY <1>5, <5>2, <5>3 DEF Received
        <5> QED BY <5>1, <5>4, PrefixNext DEF Prefix, Described
      <4>3. ASSUME q \in n + 3 .. 2 * n + 3
            PROVE  received'.common # NoCommon
        <5>1. c.cmd = "tag" /\ received' = Given(c.tag)
          <6>1. c.cmd = "tag" /\ c.tag.kind # "epilogue"
            BY <1>2, <2>4, <4>1, <4>3
          <6> QED BY <2>5, <3>2, <6>1 DEF DevTag
        <5>2. CASE q = n + 3
          <6>1. c.tag = common
            BY <2>1, <2>2, <4>1, <5>2, ItemOf DEF Cmd
          <6> QED BY <1>2, <5>1, <6>1 DEF Given
        <5>3. CASE q # n + 3
          <6>1. q > n + 3 /\ q >= n + 3 /\ q \in n + 4 .. 2 * n + 3 /\ q - n - 3 \in 1 .. n
            BY <1>2, <4>3, <5>3
          <6>2. received.common # NoCommon
            BY <2>11, <3>2, <6>1 DEF Device, Second
          <6>3. c = Cmd("tag", bodies[q - n - 3], FALSE)
            BY <2>1, <2>2, <4>1, <6>1, ItemOf
          <6>4. c.tag.kind = "body"
            BY <1>2, <6>1, <6>3 DEF Cmd
          <6>5. received \in Descr
            BY DEF TypeOK
          <6> QED BY <5>1, <6>2, <6>4, <6>5 DEF Given, Descr
        <5> QED BY <5>2, <5>3
      <4>4. ASSUME q = 2 * n + 4
            PROVE  applied' = Described
        <5>1. applied' = received
          BY <2>4, <2>5, <3>2, <4>1, <4>4 DEF DevTag
        <5> QED BY <2>8, <2>11, <4>1, <4>4, <5>1
      <4> QED BY <1>1, <1>4, <4>2, <4>3, <4>4 DEF Accepted
    <3> QED BY <3>1, <3>2
  <2>12. Active' => HostAt(q, l - 1)'
    <3> SUFFICES ASSUME Active' PROVE HostAt(q, l - 1)'
      OBVIOUS
    <3>1. HostAt(q, l) /\ Active /\ Len(toDev) = l
      BY <1>4 DEF HostAt
    <3>2. Len(toDev') = l - 1
      BY <1>3, <3>1
    <3>3. ASSUME there', InStep'
          PROVE  /\ late' > Index(step)' \/ Close(q)'
                 /\ hpc' = "read" /\ toDev' = <<>> /\ LastAnswer' = "ACK" => Accepted(q)'
      <4>1. ASSUME Close(q)
            PROVE  Close(q)'
        <5>1. hpc = "read" /\ Len(toDev) = 1
          BY <1>1, <3>1, <4>1 DEF Close, Active
        <5>2. toDev' = <<>>
          <6>1. Len(toDev') = 0 /\ toDev' \in Seq(Commands)
            BY <1>1, <3>1, <3>2, <5>1, HeadTailProperties
          <6> QED BY <6>1, EmptySeq
        <5> QED BY <1>1, <5>1, <5>2 DEF Close
      <4>2. ASSUME toDev' = <<>>, LastAnswer' = "ACK"
            PROVE  Accepted(q)'
        <5>1. l = 1
          <6>1. Len(toDev') = 0
            BY <4>2
          <6> QED BY <1>7, <3>2, <6>1
        <5>2. toHost \in Seq({"ACK", "NAK"})
          BY DEF TypeOK
        <5>3. \A a \in {"ACK", "NAK"} : /\ Append(toHost, a) # <<>>
                                      /\ Append(toHost, a)[Len(Append(toHost, a))] = a
          BY <5>2, AppendProperties
        <5>4. toHost' # Append(toHost, "NAK")
          BY <4>2, <5>3 DEF LastAnswer
        <5> QED BY <1>4, <2>11, <3>3, <5>1, <5>4
      <4> QED BY <1>1, <1>4, <3>1, <3>3, <4>1, <4>2, <2>7 DEF HostAt
    <3> QED BY <1>1, <1>4, <2>5, <3>1, <3>2, <3>3 DEF HostAt
  <2>13. ~there' /\ InStep' => applied' # EmptyDescr
    BY <1>2, <1>4, <2>9 DEF Described, EmptyDescr
  <2>14. (ret = "ok" /\ gone = 0 /\ InStep => applied = Described)'
    BY <1>1, <1>4, <2>9 DEF RunInv
  <2> QED BY <1>1, <2>1, <2>10, <2>12, <2>13, <2>14 DEF RunInv
<1> QED BY <1>3, <1>6, <1>7

LEMMA StepRun ==
  TypeOK /\ TypeOK' /\ FileInv /\ FileInv' /\ RunInv /\ [Next]_vars => RunInv'
<1> SUFFICES ASSUME TypeOK, TypeOK', FileInv, FileInv', RunInv, [Next]_vars PROVE RunInv'
  OBVIOUS
<1>1. CASE Load
  <2>1. hpc = "load" /\ hpc' \in {"load", "end"}
    BY <1>1 DEF Load, OpenFile, LoadTag, LoadDone, LoadFails, Exit
  <2>2. Quiet /\ ret' \in {ret, "failed"}
    BY <1>1, <2>1 DEF Load, OpenFile, LoadTag, LoadDone, LoadFails, Exit, FileInv
  <2>3. Quiet'
    BY <1>1, <2>2 DEF Load, OpenFile, LoadTag, LoadDone, Quiet, devVars, EmptyDescr
  <2> QED BY <2>1, <2>3, LoadRun DEF Active
<1>2. CASE Start
  <2>1. Quiet /\ hpc' = "write" /\ step' = Step("configure", 1, 0)
    BY <1>2 DEF Start, FileInv
  <2>2. Quiet'
    BY <1>2, <2>1 DEF Start, Quiet, devVars, EmptyDescr
  <2> QED BY <2>1, <2>2, LoadRun
<1>3. CASE Write
  BY <1>3, WriteRun DEF Write, FileInv, Whole
<1>4. CASE ReadOne
  BY <1>4, ReadOneRun
<1>5. CASE ReadDone
  BY <1>5, ReadDoneRun DEF ReadDone, FileInv, Whole
<1>6. CASE DevTake
  <2>1. Complete
    BY <1>6 DEF DevTake, FileInv, Quiet, Whole, TypeOK
  <2> QED BY <1>6, <2>1, DevTakeRun
<1>7. CASE Unplug \/ UNCHANGED vars
  <2> PICK q \in Nat, l \in Nat : Device(q, l) /\ (Active => HostAt(q, l))
    BY DEF RunInv
  <2>1. /\ UNCHANGED <<hpc, step, resp, ret, loadVars, toDev, toHost, received, validated, applied, resets, late>>
        /\ there' => there
        /\ gone' = 0 => there' = there /\ gone' = gone
    BY <1>7 DEF Unplug, vars, devVars, TypeOK
  <2>2. Device(q, l)'
    <3>1. Len(toDev) = l \/ hpc' \in {"read", "end"}
      BY <2>1 DEF Device, Sent
    <3>2. late' >= late
      BY <2>1 DEF TypeOK
    <3> QED BY <2>1, <3>1, <3>2, DeviceKeeps DEF loadVars
  <2>3. HostAt(q, l) => HostAt(q, l)'
    BY <2>1 DEF HostAt, Close, Accepted, LastAnswer, Index, Place, InStep, Described, loadVars
  <2>4. Active' <=> Active
    BY <2>1 DEF Active
  <2> QED BY <2>1, <2>2, <2>3, <2>4 DEF RunInv, InStep, Described, loadVars
<1> QED BY <1>1, <1>2, <1>3, <1>4, <1>5, <1>6, <1>7 DEF Next, Host, Done

-----------------------------------------------------------------------------
(* A good description, on a device that answers.                           *)

Smooth == FileGood /\ FileSound /\ late = 0 /\ fails = 0 /\ gone = 0

\* What is kept of the elements before one of the file: some element of each kind there is.
Kept(n) ==
  /\ IF common = NoCommon THEN Before(n, "common") = {}
                          ELSE \E j \in Before(n, "common") : common = files[1][j]
  /\ IF epilogue = NoTag THEN Before(n, "epilogue") = {}
                         ELSE \E j \in Before(n, "epilogue") : epilogue = files[1][j]
  /\ bodies = <<>> => Before(n, "body") = {}
  /\ \A i \in DOMAIN bodies : \E j \in Before(n, "body") : bodies[i] = files[1][j]

\* Host and device take turns, and every answer is an ACK.
Waiting  == toDev = <<>> /\ toHost = <<>> /\ there
Sending  == toDev = <<Command>> /\ toHost = <<>> /\ resp = "none" /\ there
Answered ==
  /\ toDev = <<>> /\ there
  /\ (toHost = <<"ACK">> /\ resp = "none") \/ (toHost = <<>> /\ resp = "ACK")
Left     == toDev = <<>> /\ toHost = <<>> /\ resp = "none" /\ ~there

Commits == step.s = "epilogue" /\ step.pass = 2

\* What the device was given before step s is sound.
SoundBefore(s) == s \in {"body", "epilogue"} => Sound(received)

\* Before the description is applied, and once it is.
Unapplied == ret = "none" /\ resets = 0
Applied   == ret = "ok" /\ applied # EmptyDescr

SmoothWrite ==
  /\ Waiting
  /\ IF step.s = "reset" THEN Applied /\ ~skip_reset
                         ELSE Unapplied /\ SoundBefore(step.s)

SmoothRead ==
  IF step.s = "reset"
    THEN Applied /\ ~skip_reset /\ (Sending \/ Left)
    ELSE /\ Unapplied
         /\ \/ Sending /\ SoundBefore(step.s)
            \/ Answered /\ SoundBefore(Then.s) /\ (Commits => applied # EmptyDescr)
            \/ Left /\ Commits /\ applied # EmptyDescr

SmoothInv ==
  Smooth =>
    /\ hpc = "load" => ret = "none"
    /\ hpc = "load" /\ node > 0 => Kept(node - 1)
    /\ (hpc = "load" /\ file = 2) \/ hpc \in {"write", "read"} => Sound(Described)
    /\ hpc = "write" => SmoothWrite
    /\ hpc = "read" => SmoothRead
    /\ hpc = "end" =>
         /\ Applied /\ toDev = <<>>
         /\ skip_reset => resets = 0
         /\ ~skip_reset => ~there

\* Nothing that went wrong is forgotten.
LEMMA SmoothBack ==
  ASSUME TypeOK, [Next]_vars, Smooth'
  PROVE  Smooth /\ UNCHANGED <<files, finalize, skip_reset, late, fails, gone>>
<1>1. late \in Nat /\ fails \in Nat /\ gone \in Nat
  BY DEF TypeOK
<1>2. late' = 0 /\ fails' = 0 /\ gone' = 0
  BY DEF Smooth
<1>3. UNCHANGED inputVars
  BY DEF Next, Host, Load, OpenFile, LoadTag, LoadDone, Start, Write, ReadOne, ReadDone,
         DevTake, Unplug, Done, vars
<1>4. late' \in {late, late + 1}
  BY DEF Next, Host, Load, OpenFile, LoadTag, LoadDone, Start, Write, ReadOne, ReadDone,
         DevTake, Unplug, Done, vars
<1>5. gone' \in {gone, gone + 1}
  BY DEF Next, Host, Load, OpenFile, LoadTag, LoadDone, Start, Write, ReadOne, ReadDone,
         DevTake, Unplug, Done, vars
<1>6. fails' \in {fails, fails + 1}
  <2>1. CASE DevTake
    BY <2>1, Zenon DEF DevTake, DevTag
  <2>2. CASE ~DevTake
    BY <2>2 DEF Next, Host, Load, OpenFile, LoadTag, LoadDone, Start, Write, ReadOne, ReadDone,
                Unplug, Done, vars, devVars
  <2> QED BY <2>1, <2>2
<1>7. UNCHANGED <<late, fails, gone>>
  BY <1>1, <1>2, <1>4, <1>5, <1>6
<1> QED BY <1>3, <1>7 DEF Smooth, FileGood, FileSound, Places, Before, inputVars

\* A good file is read to its end, and the description in it is sound.
LEMMA LoadSmooth ==
  ASSUME TypeOK, FileInv, SmoothInv, Smooth, Smooth', Load
  PROVE  /\ hpc' = "load" /\ ret' = "none"
         /\ \A n \in Nat : node' = n + 1 => Kept(n)'
         /\ file' = 2 => Sound(Described)'
<1>1. hpc = "load" /\ ret = "none" /\ files' = files /\ Len(files) = 1
  BY DEF Load, OpenFile, LoadTag, LoadDone, SmoothInv, Smooth, FileGood, inputVars
<1>2. files[1] \in Seq(Tags) /\ Len(files[1]) \in Nat /\ DOMAIN files[1] = 1 .. Len(files[1])
  BY <1>1, FilesType DEF TypeOK
<1>3. file <= 1 => file = 1
  BY <1>1 DEF TypeOK
<1>4. CASE OpenFile
  <2>1. file = 1 /\ node = 0 /\ common = NoCommon /\ bodies = <<>> /\ epilogue = NoTag
    BY <1>1, <1>3, <1>4 DEF OpenFile, TypeOK
  <2>2. /\ node' = 1 /\ UNCHANGED <<hpc, ret, file, common, bodies, epilogue>>
    BY <1>4, <2>1 DEF OpenFile
  <2>3. \A k : Before(0, k)' = {}
    BY DEF Before
  <2>4. Kept(0)'
    BY <2>1, <2>2, <2>3 DEF Kept
  <2>5. \A n \in Nat : node' = n + 1 => n = 0
    BY <2>2
  <2> QED BY <1>1, <2>1, <2>2, <2>4, <2>5
<1>5. CASE LoadTag
  <2> DEFINE t == files[1][node]
  <2>1. file = 1 /\ node \in 1 .. Len(files[1]) /\ Kept(node - 1)
    BY <1>1, <1>5 DEF LoadTag, TypeOK, SmoothInv
  <2>2. t.valid /\ t.kind # "unknown" /\ t \in Tags /\ t \in Elements
    BY <1>2, <2>1 DEF Smooth, FileGood, Elements
  <2>3. ASSUME NEW k \in {"common", "epilogue"}, t.kind = k
        PROVE  Before(node - 1, k) = {}
    <3>1. PICK i \in DOMAIN files[1] : Before(Len(files[1]), k) = {i}
      BY DEF Smooth, FileGood, Places
    <3>2. node \in Before(Len(files[1]), k)
      BY <1>2, <2>1, <2>3 DEF Before
    <3>3. ASSUME NEW j \in Before(node - 1, k)
          PROVE  FALSE
      <4>1. j \in Before(Len(files[1]), k) /\ j # node
        BY <1>2, <2>1 DEF Before
      <4> QED BY <3>1, <3>2, <4>1
    <3> QED BY <3>3
  <2>4. /\ t.kind = "common" => common = NoCommon
        /\ t.kind = "epilogue" => epilogue = NoTag
    BY <2>1, <2>3 DEF Kept
  <2>5. /\ node' = node + 1 /\ UNCHANGED <<file, hpc, ret>>
        /\ common' = IF t.kind = "common" THEN t ELSE common
        /\ epilogue' = IF t.kind = "epilogue" THEN t ELSE epilogue
        /\ bodies' = IF t.kind = "body" THEN Append(bodies, t) ELSE bodies
    BY <1>5, <2>1, <2>2, <2>4 DEF LoadTag, WithBody
  <2> PICK n \in Nat : n = node
    BY <2>1
  <2>6. /\ \A k : Before(n, k)' = Before(n, k)
        /\ \A k : Before(n, k) = Before(n - 1, k) \cup (IF t.kind = k THEN {n} ELSE {})
    BY <1>1, <2>1 DEF Before
  <2>7. t.kind = "common" => t # NoCommon
    BY TagKinds
  <2>8. t.kind = "epilogue" => t # NoTag
    BY TagKinds
  <2>9. IF common' = NoCommon THEN Before(n, "common") = {}
                              ELSE \E j \in Before(n, "common") : common' = files[1][j]
    <3>1. CASE t.kind = "common"
      BY <2>5, <2>6, <2>7, <3>1
    <3>2. CASE t.kind # "common"
      BY <2>1, <2>5, <2>6, <3>2 DEF Kept
    <3> QED BY <3>1, <3>2
  <2>10. IF epilogue' = NoTag THEN Before(n, "epilogue") = {}
                              ELSE \E j \in Before(n, "epilogue") : epilogue' = files[1][j]
    <3>1. CASE t.kind = "epilogue"
      BY <2>5, <2>6, <2>8, <3>1
    <3>2. CASE t.kind # "epilogue"
      BY <2>1, <2>5, <2>6, <3>2 DEF Kept
    <3> QED BY <3>1, <3>2
  <2>11. /\ bodies' = <<>> => Before(n, "body") = {}
         /\ \A i \in DOMAIN bodies' : \E j \in Before(n, "body") : bodies'[i] = files[1][j]
    <3>0. bodies \in Seq(Tags) /\ Len(bodies) \in Nat
      BY DEF TypeOK
    <3>1. CASE t.kind = "body"
      <4>1. /\ bodies' \in Seq(Tags) /\ Len(bodies') = Len(bodies) + 1
            /\ bodies'[Len(bodies) + 1] = t
            /\ \A i \in 1 .. Len(bodies) : bodies'[i] = bodies[i]
        BY <2>2, <2>5, <3>0, <3>1, AppendProperties
      <4>2. bodies' # <<>>
        BY <3>0, <4>1
      <4>3. ASSUME NEW i \in DOMAIN bodies'
            PROVE  \E j \in Before(n, "body") : bodies'[i] = files[1][j]
        <5>1. i = Len(bodies) + 1 \/ i \in DOMAIN bodies
          BY <3>0, <4>1, <4>3
        <5>2. CASE i = Len(bodies) + 1
          BY <2>6, <3>1, <4>1, <5>2
        <5>3. CASE i \in DOMAIN bodies
          BY <2>1, <2>6, <3>0, <4>1, <5>3 DEF Kept
        <5> QED BY <5>1, <5>2, <5>3
      <4> QED BY <4>2, <4>3
    <3>2. CASE t.kind # "body"
      BY <2>1, <2>5, <2>6, <3>2 DEF Kept
    <3> QED BY <3>1, <3>2
  <2>12. Kept(n)'
    BY <1>1, <2>6, <2>9, <2>10, <2>11 DEF Kept
  <2>13. \A m \in Nat : node' = m + 1 => m = n
    BY <2>5
  <2> QED BY <1>1, <2>1, <2>5, <2>12, <2>13
<1>6. CASE LoadDone
  <2>1. file = 1 /\ Kept(Len(files[1]))
    <3>1. file = 1 /\ node \in Nat \ {0} /\ node > Len(files[1])
      BY <1>1, <1>2, <1>3, <1>6 DEF LoadDone, TypeOK
    <3>2. node - 1 = Len(files[1])
      BY <1>1, <1>2, <3>1 DEF FileInv
    <3> QED BY <1>1, <3>1, <3>2 DEF SmoothInv
  <2>2. PICK i \in DOMAIN files[1] : Places("common") = {i} /\ files[1][i].lock = finalize
    BY DEF Smooth, FileGood
  <2>3. common # NoCommon /\ common = files[1][i] /\ common.kind = "common"
    BY <2>1, <2>2 DEF Kept, Places, TypeOK
  <2>4. bodies # <<>> /\ epilogue # NoTag
    BY <2>1 DEF Kept, Places, Smooth, FileGood
  <2>5. Complete /\ Agrees
    BY <2>2, <2>3, <2>4 DEF Complete, Agrees
  <2>6. file' = 2 /\ node' = 0 /\ UNCHANGED <<common, bodies, epilogue, hpc, ret>>
    BY <1>6, <2>1, <2>5 DEF LoadDone
  <2>7. common.good
    BY <2>3 DEF Smooth, FileSound
  <2>8. \A m \in DOMAIN bodies : bodies[m].good
    BY <1>2, <2>1 DEF Kept, Before, Smooth, FileSound
  <2>9. Sound(Described)'
    BY <2>3, <2>6, <2>7, <2>8 DEF Sound, Described
  <2> QED BY <1>1, <2>6, <2>9
<1> QED BY <1>4, <1>5, <1>6 DEF Load

LEMMA InitSmooth == Init => SmoothInv
<1> SUFFICES ASSUME Init PROVE SmoothInv
  OBVIOUS
<1> QED BY DEF Init, SmoothInv

\* The steps of the host that send and receive.
LEMMA WriteSmooth ==
  ASSUME TypeOK, SmoothInv, Smooth, Write
  PROVE  hpc' = "read" /\ SmoothRead' /\ UNCHANGED <<common, bodies>>
<1>1. hpc = "write" /\ SmoothWrite
  BY DEF Write, SmoothInv
<1>2. /\ toDev' = <<Command>> /\ hpc' = "read" /\ resp' = "none" /\ toHost' = <<>>
      /\ UNCHANGED <<step, ret, loadVars, inputVars, devVars>>
  BY <1>1 DEF Write, SmoothWrite, Waiting
<1>3. Command' = Command
  BY <1>2 DEF Command, loadVars
<1>4. Sending'
  BY <1>1, <1>2, <1>3 DEF Sending, SmoothWrite, Waiting, devVars
<1>5. SoundBefore(step.s)' = SoundBefore(step.s)
  BY <1>2 DEF SoundBefore, Sound, devVars
<1> QED BY <1>1, <1>2, <1>4, <1>5
        DEF SmoothWrite, SmoothRead, Unapplied, Applied, loadVars, inputVars, devVars

LEMMA ReadOneSmooth ==
  ASSUME TypeOK, SmoothInv, Smooth, ReadOne
  PROVE  hpc' = "read" /\ SmoothRead' /\ UNCHANGED <<common, bodies>>
<1>1. hpc = "read" /\ toHost # <<>> /\ SmoothRead
  BY DEF ReadOne, SmoothInv
<1>2. /\ resp' = Head(toHost) /\ toHost' = Tail(toHost)
      /\ UNCHANGED <<hpc, step, ret, loadVars, inputVars, toDev, devVars>>
  BY DEF ReadOne
<1>3. Answered /\ step.s # "reset"
  BY <1>1 DEF SmoothRead, Sending, Left
<1>4. toHost = <<"ACK">>
  BY <1>1, <1>3 DEF Answered
<1>5. Answered'
  BY <1>2, <1>3, <1>4 DEF Answered, devVars
<1>6. Then' = Then /\ (Commits' <=> Commits)
  BY <1>2 DEF Then, Commits, loadVars
<1>7. \A s : SoundBefore(s)' = SoundBefore(s)
  BY <1>2 DEF SoundBefore, Sound, devVars
<1>8. Unapplied /\ SoundBefore(Then.s) /\ (Commits => applied # EmptyDescr)
  BY <1>1, <1>3, <1>4 DEF SmoothRead, Sending, Left
<1> QED BY <1>1, <1>2, <1>3, <1>5, <1>6, <1>7, <1>8
        DEF SmoothRead, Unapplied, EmptyDescr, loadVars, devVars

LEMMA ReadDoneSmooth ==
  ASSUME TypeOK, FileInv, SmoothInv, Smooth, Smooth', ReadDone
  PROVE  /\ UNCHANGED <<common, bodies>>
         /\ \/ hpc' = "write" /\ SmoothWrite'
            \/ /\ hpc' = "end" /\ Applied' /\ toDev' = <<>>
               /\ skip_reset' => resets' = 0
               /\ ~skip_reset' => ~there'
<1>1. /\ hpc = "read" /\ toHost = <<>> /\ SmoothRead /\ late = 0 /\ late' = 0
      /\ UNCHANGED <<resp, loadVars, inputVars, toDev, toHost, devVars>>
  BY DEF ReadDone, SmoothInv, Smooth
<1>2. ~Sending
  <2>1. toDev = <<>> \/ ~there
    BY <1>1 DEF ReadDone, Silent
  <2>2. Sending => there /\ Len(toDev) = 1
    BY DEF Sending
  <2> QED BY <2>1, <2>2
<1>3. CASE step.s = "reset"
  <2>1. Applied /\ ~skip_reset /\ Left
    BY <1>1, <1>2, <1>3 DEF SmoothRead
  <2>2. hpc' = "end" /\ ret' = ret
    BY <1>3 DEF ReadDone
  <2> QED BY <1>1, <2>1, <2>2 DEF Applied, Left, EmptyDescr, loadVars, inputVars, devVars
<1>4. CASE step.s # "reset" /\ Left
  <2>1. Commits /\ applied # EmptyDescr /\ Unapplied
    BY <1>1, <1>2, <1>4 DEF SmoothRead, Answered, Left
  <2>2. Outcome = "gone" /\ ResetItself
    BY <1>4, <2>1 DEF Outcome, ResetItself, Left, Commits
  <2>3. AfterTag
    BY <2>1 DEF ReadDone, Commits
  <2>4. hpc' = "end" /\ ret' = "ok"
    BY <2>2, <2>3 DEF AfterTag, Acceptable, Exit
  <2> QED BY <1>1, <1>4, <2>1, <2>4
          DEF Left, Applied, Unapplied, EmptyDescr, loadVars, inputVars, devVars
<1>5. CASE step.s # "reset" /\ ~Left
  <2>1. /\ Answered /\ Unapplied /\ SoundBefore(Then.s)
        /\ Commits => applied # EmptyDescr
    BY <1>1, <1>2, <1>5 DEF SmoothRead
  <2>2. resp = "ACK" /\ Outcome = "ACK" /\ there /\ toDev = <<>>
    BY <1>1, <2>1 DEF Answered, Outcome
  <2>3. Waiting'
    BY <1>1, <2>2 DEF Waiting, devVars
  <2>4. \A s : SoundBefore(s)' = SoundBefore(s)
    BY <1>1 DEF SoundBefore, Sound, devVars
  <2>5. CASE ~Commits
    <3>1. hpc' = "write" /\ step' = Then /\ ret' = ret
      BY <1>5, <2>2, <2>5 DEF ReadDone, AfterConfigure, AfterTag, Acceptable, ResetItself, Commits
    <3>2. Then.s # "reset"
      <4>1. Complete
        BY <1>1 DEF TypeOK
      <4>2. /\ Index(step) \in 0 .. 2 * Len(bodies) + 4 /\ Len(bodies) \in Nat
            /\ Index(step) # 2 * Len(bodies) + 4
            /\ Index(step) < 2 * Len(bodies) + 4 => Then.s \notin {"reset", "configure"}
        BY <1>1, <1>5, <2>5, <4>1, StepIndex, Bodies DEF Commits
      <4> QED BY <4>2
    <3>3. SoundBefore(step.s)'
      BY <1>1, <2>1, <3>1 DEF SoundBefore, Sound, devVars
    <3> QED BY <1>1, <2>1, <2>3, <3>1, <3>2, <3>3
            DEF SmoothWrite, Unapplied, loadVars, devVars
  <2>6. CASE Commits
    <3>1. Finish("ok")
      BY <2>2, <2>6 DEF ReadDone, AfterTag, Acceptable, ResetItself, Commits
    <3>2. Applied'
      BY <1>1, <2>1, <2>6, <3>1 DEF Finish, Applied, EmptyDescr, devVars
    <3>3. CASE skip_reset
      BY <1>1, <2>1, <2>2, <3>1, <3>2, <3>3 DEF Finish, Unapplied, loadVars, inputVars, devVars
    <3>4. CASE ~skip_reset
      <4>1. hpc' = "write" /\ step'.s = "reset" /\ ~skip_reset'
        BY <1>1, <3>1, <3>4 DEF Finish, Step, inputVars
      <4> QED BY <1>1, <2>3, <3>2, <4>1 DEF SmoothWrite, loadVars
    <3> QED BY <3>3, <3>4
  <2> QED BY <2>5, <2>6
<1> QED BY <1>3, <1>4, <1>5

\* The device takes a command when the host waits for its answer.
LEMMA DevTakeSmooth ==
  ASSUME TypeOK, FileInv, SmoothInv, Smooth, Smooth', DevTake
  PROVE  hpc' = "read" /\ SmoothRead' /\ UNCHANGED <<common, bodies>>
<1>1. /\ there /\ toDev # <<>> /\ toDev' = Tail(toDev) /\ fails' = fails
      /\ UNCHANGED <<hpc, step, resp, ret, loadVars, inputVars>>
  BY DEF DevTake, Smooth
<1>2. hpc = "read" /\ SmoothRead
  BY <1>1 DEF SmoothInv, FileInv, Quiet, SmoothWrite, Waiting, TypeOK
<1>3. Sending
  BY <1>1, <1>2 DEF SmoothRead, Answered, Left
<1>4. Head(toDev) = Command /\ toDev' = <<>> /\ toHost = <<>> /\ resp = "none"
  BY <1>1, <1>3 DEF Sending
<1>a. Append(toHost, "ACK") = <<"ACK">>
  BY <1>4
<1>5. Complete /\ step \in Steps /\ fails \in Nat /\ Sound(Described)
  BY <1>2 DEF TypeOK, SmoothInv
<1>6. Then' = Then /\ (Commits' <=> Commits)
  BY <1>1 DEF Then, Commits, loadVars
<1>7. CASE step.s = "reset"
  <2>1. Command.cmd = "reset"
    BY <1>7 DEF Command
  <2>2. there' = FALSE /\ toHost' = <<>> /\ applied' = applied
    BY <1>4, <2>1 DEF DevTake
  <2>3. Left'
    BY <1>1, <1>4, <2>2 DEF Left
  <2> QED BY <1>1, <1>2, <1>7, <2>2, <2>3
          DEF SmoothRead, Applied, EmptyDescr, loadVars, inputVars
<1>8. CASE step.s = "configure"
  <2>1. Command.cmd = "configure" /\ Then.s = "common" /\ ~Commits
    BY <1>8 DEF Command, Then, Step, Commits
  <2>2. toHost' = <<"ACK">> /\ UNCHANGED <<there, resets>>
    BY <1>4, <1>a, <2>1 DEF DevTake
  <2>3. Answered' /\ Unapplied'
    BY <1>1, <1>2, <1>4, <1>8, <2>2 DEF Answered, SmoothRead, Unapplied
  <2>4. SoundBefore(Then.s)' /\ ~Commits'
    BY <1>6, <2>1 DEF SoundBefore
  <2> QED BY <1>1, <1>2, <1>8, <2>3, <2>4 DEF SmoothRead, loadVars
<1>9. CASE step.s \in {"common", "body", "epilogue"}
  <2>1. Command.cmd = "tag"
    BY <1>9 DEF Command
  <2>2. DevTag(Command) /\ resets' = resets
    BY <1>4, <2>1 DEF DevTake
  <2>3. Unapplied /\ Unapplied' /\ SoundBefore(step.s)
    BY <1>1, <1>2, <1>3, <1>4, <1>9, <2>2 DEF SmoothRead, Sending, Answered, Left, Unapplied
  <2>4. ~(fails' = fails + 1)
    BY <1>1, <1>5
  <2>t. \A k \in {"common", "body"} : step.s = k => Command.tag.kind = k /\ ~Commits
    BY <1>5, Bodies DEF Command, Commits, Steps, Step
  <2>5. CASE step.s \in {"common", "body"}
    <3>1. received' = Given(Command.tag) /\ toHost' = <<"ACK">> /\ there' = there
      BY <1>a, <2>2, <2>4, <2>5, <2>t DEF DevTag
    <3>2. Sound(received)'
      <4>1. CASE step.s = "common"
        <5>1. Command.tag = common
          BY <4>1 DEF Command
        <5> QED BY <1>5, <2>t, <3>1, <4>1, <5>1 DEF Given, Sound, Described
      <4>2. CASE step.s = "body"
        <5>1. Command.tag = bodies[step.i] /\ step.i \in DOMAIN bodies
          BY <1>5, <4>2 DEF Command, Steps, Step, TypeOK
        <5>2. Command.tag.good /\ Sound(received)
          BY <1>5, <2>3, <4>2, <5>1 DEF Sound, Described, SoundBefore
        <5>3. received' = [received EXCEPT !.bodies = Append(@, Command.tag)]
          BY <2>t, <3>1, <4>2 DEF Given
        <5>4. received \in Descr /\ Command.tag \in Tags
          BY <2>t, <4>2, <5>1 DEF TypeOK
        <5>5. /\ received'.common = received.common
              /\ received'.bodies = Append(received.bodies, Command.tag)
              /\ received.bodies \in Seq(Tags)
          BY <5>3, <5>4 DEF Descr
        <5>6. \A i \in DOMAIN received'.bodies : received'.bodies[i].good
          BY <5>2, <5>4, <5>5, AppendProperties DEF Sound
        <5> QED BY <5>2, <5>5, <5>6 DEF Sound
      <4> QED BY <2>5, <4>1, <4>2
    <3>3. Answered' /\ ~Commits'
      BY <1>1, <1>4, <1>6, <2>5, <2>t, <3>1 DEF Answered
    <3>4. SoundBefore(Then.s)'
      BY <3>2 DEF SoundBefore
    <3> QED BY <1>1, <1>2, <2>3, <2>5, <3>3, <3>4 DEF SmoothRead, loadVars
  <2>6. CASE step.s = "epilogue"
    <3>1. /\ Command.tag = epilogue /\ epilogue.kind = "epilogue"
          /\ Command.commit = (step.pass = 2) /\ Sound(received)
      BY <1>5, <2>3, <2>6, Bodies DEF Command, SoundBefore
    <3>2. CASE ~Commits
      <4>1. toHost' = <<"ACK">> /\ there' = there
        BY <1>a, <2>2, <2>4, <2>6, <3>1, <3>2 DEF DevTag, Commits
      <4>2. Then.s = "common"
        BY <1>5, <2>6, <3>2 DEF Then, Steps, Step, Commits
      <4>3. Answered' /\ SoundBefore(Then.s)' /\ ~Commits'
        BY <1>1, <1>4, <1>6, <3>2, <4>1, <4>2 DEF Answered, SoundBefore
      <4> QED BY <1>1, <1>2, <2>3, <2>6, <4>3 DEF SmoothRead, loadVars
    <3>3. CASE Commits
      <4>1. /\ applied' = received
            /\ \/ toHost' = <<"ACK">> /\ there' = there
               \/ toHost' = <<>> /\ there' = FALSE
        BY <1>a, <2>2, <2>4, <2>6, <3>1, <3>3 DEF DevTag, Commits
      <4>2. applied' # EmptyDescr
        BY <3>1, <4>1 DEF Sound, EmptyDescr
      <4>3. Then.s = "reset"
        BY <2>6, <3>3 DEF Then, Step, Commits
      <4>4. SoundBefore(Then.s)' /\ Commits'
        BY <1>6, <3>3, <4>3 DEF SoundBefore
      <4>5. Answered' \/ Left'
        BY <1>1, <1>4, <4>1 DEF Answered, Left
      <4> QED BY <1>1, <1>2, <2>3, <2>6, <4>2, <4>4, <4>5 DEF SmoothRead, EmptyDescr, loadVars
    <3> QED BY <3>2, <3>3
  <2> QED BY <1>9, <2>5, <2>6
<1> QED BY <1>5, <1>7, <1>8, <1>9 DEF Steps, Step

LEMMA StepSmooth ==
  TypeOK /\ TypeOK' /\ FileInv /\ SmoothInv /\ [Next]_vars => SmoothInv'
<1> SUFFICES ASSUME TypeOK, TypeOK', FileInv, SmoothInv, [Next]_vars, Smooth'
             PROVE  SmoothInv'
  BY DEF SmoothInv
<1>1. Smooth /\ UNCHANGED <<files, finalize, skip_reset, late, fails, gone>>
  BY SmoothBack
<1>2. CASE Load
  <2>1. hpc' = "load" /\ ret' = "none" /\ (file' = 2 => Sound(Described)')
        /\ \A n \in Nat : node' = n + 1 => Kept(n)'
    BY <1>1, <1>2, LoadSmooth
  <2>2. node' > 0 => node' - 1 \in Nat /\ node' = node' - 1 + 1
    BY <2>1 DEF TypeOK
  <2>3. ASSUME node' > 0
        PROVE  Kept(node - 1)'
    <3> PICK n \in Nat : n = node' - 1
      BY <2>2, <2>3
    <3>1. Kept(n)'
      BY <2>1, <2>2, <2>3
    <3> QED BY <3>1 DEF Kept
  <2> QED BY <2>1, <2>3 DEF SmoothInv
<1>3. CASE Start
  <2>1. hpc = "load" /\ Quiet /\ ret = "none" /\ file = Len(files) + 1 /\ Len(files) = 1
    BY <1>1, <1>3 DEF Start, FileInv, SmoothInv, Smooth, FileGood
  <2>2. /\ hpc' = "write" /\ step'.s = "configure"
        /\ UNCHANGED <<ret, toDev, toHost, there, resets, common, bodies>>
    BY <1>3 DEF Start, Step, devVars, loadVars
  <2>3. Waiting' /\ Unapplied'
    BY <1>1, <2>1, <2>2 DEF Quiet, Smooth, Waiting, Unapplied, TypeOK
  <2>4. SmoothWrite'
    BY <2>2, <2>3 DEF SmoothWrite, SoundBefore
  <2>5. Sound(Described)'
    BY <1>1, <2>1, <2>2 DEF SmoothInv, Sound, Described
  <2> QED BY <2>2, <2>4, <2>5 DEF SmoothInv
<1>s. ASSUME UNCHANGED <<common, bodies>>, Sound(Described)
      PROVE  Sound(Described)'
  BY <1>s DEF Sound, Described
<1>d. hpc \in {"write", "read"} => Sound(Described)
  BY <1>1 DEF SmoothInv
<1>4. CASE Write
  BY <1>1, <1>4, <1>s, <1>d, WriteSmooth DEF Write, SmoothInv
<1>5. CASE ReadOne
  BY <1>1, <1>5, <1>s, <1>d, ReadOneSmooth DEF ReadOne, SmoothInv
<1>6. CASE ReadDone
  BY <1>1, <1>6, <1>s, <1>d, ReadDoneSmooth DEF ReadDone, SmoothInv
<1>7. CASE DevTake
  <2>1. hpc' = "read" /\ hpc = "read" /\ SmoothRead' /\ UNCHANGED <<common, bodies>>
    BY <1>1, <1>7, DevTakeSmooth DEF DevTake
  <2> QED BY <2>1, <1>s, <1>d DEF SmoothInv
<1>8. CASE Unplug
  BY <1>1, <1>8 DEF Unplug, TypeOK
<1>9. CASE UNCHANGED vars
  BY <1>1, <1>9 DEF vars, inputVars, loadVars, devVars, SmoothInv, Kept, Before, Sound,
     Described, SmoothWrite, SmoothRead, Waiting, Sending, Command, Answered, Then, Left,
     Commits, SoundBefore, Unapplied, Applied, EmptyDescr
<1> QED
  BY <1>2, <1>3, <1>4, <1>5, <1>6, <1>7, <1>8, <1>9 DEF Next, Host, Done
-----------------------------------------------------------------------------

Inv == TypeOK /\ FileInv /\ RunInv /\ SmoothInv

LEMMA Inductive == Spec => []Inv
<1>1. Init => Inv
  BY InitType, InitFile, InitRun, InitSmooth DEF Inv
<1>2. Inv /\ [Next]_vars => Inv'
  BY StepType, StepFile, StepRun, StepSmooth DEF Inv
<1> QED BY <1>1, <1>2, PTL DEF Spec

\* The device applies nothing that it has not found good as a whole, though a response
\* may be taken for that to a later command (firehose_provision(), the first pass).
THEOREM CommittedIsValidated == Spec => []CommittedValidated
<1>1. Inv => CommittedValidated
  BY DEF Inv, RunInv, Device, CommittedValidated
<1> QED BY <1>1, Inductive, PTL

\* It applies exactly the elements of the one file, in their order, and the lock that
\* the command line asks for (ufs_load(), firehose_apply_ufs_*()).
THEOREM AppliedIsTheFile == Spec => []AppliedIsFile
<1>1. ASSUME Inv, applied # EmptyDescr, InStep
      PROVE  /\ Len(files) = 1
             /\ Lists(<<applied.common>>, "common") /\ Lists(applied.bodies, "body")
             /\ applied.common.lock = finalize
  <2>1. applied = Described
    BY <1>1 DEF Inv, RunInv, Device
  <2>2. Whole
    BY <1>1 DEF Inv, FileInv, Quiet, TypeOK
  <2>3. applied.common = common /\ applied.bodies = bodies
    BY <2>1 DEF Described
  <2>4. CommonSeq = <<applied.common>>
    BY <2>2, <2>3 DEF Whole, Complete, CommonSeq
  <2>5. Len(files) = 1 /\ applied.common.lock = finalize
    BY <2>2, <2>3 DEF Whole, Agrees
  <2>6. DOMAIN files[1] = 1 .. Len(files[1])
    BY <1>1, <2>5, FilesType DEF Inv, TypeOK
  <2> QED BY <2>2, <2>3, <2>4, <2>5, <2>6 DEF Whole, ReadUpTo, ListsUpTo, Lists
<1>2. Inv => AppliedIsFile
  BY <1>1 DEF AppliedIsFile
<1> QED BY <1>2, Inductive, PTL

\* A run that ends well, with the device on the bus throughout, has applied the
\* description (firehose_apply_ufs_epilogue()).
THEOREM SuccessIsApplied == Spec => []SuccessMeansApplied
<1>1. Inv => SuccessMeansApplied
  BY DEF Inv, RunInv, SuccessMeansApplied
<1> QED BY <1>1, Inductive, PTL

\* A file that is good is applied by a device that has nothing against it, if nothing
\* goes wrong on the way, and the device is reset unless told not to (ufs_load(),
\* firehose_provision(), firehose_apply_ufs_epilogue()).
THEOREM GoodFilesAreProvisioned == Spec => []ProvisionSucceeds
<1>1. Inv => ProvisionSucceeds
  BY DEF Inv, SmoothInv, Smooth, Applied, ProvisionSucceeds
<1> QED BY <1>1, Inductive, PTL
=============================================================================
