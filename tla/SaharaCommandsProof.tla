------------------------- MODULE SaharaCommandsProof -------------------------
(* What holds of the Sahara subcommands for every sequence of commands,    *)
(* device, transport, and number of late packets, bad answers and losses.  *)
EXTENDS SaharaCommands, SequenceTheorems, TLAPS

Version   == {d.version : d \in Devices} \cup {0, 2}
AllClient == {"serial", "hwid", "chipid", "pkhash"}

FromDevice ==
  [t : {"HELLO"}, v : Version, mode : {"image", "debug"}]
    \cup [t : {"READ_DATA", "MEM_DEBUG64", "END_OF_IMAGE", "RESET_RESP", "CMD_READY",
               "xml", "ack", "zlp"}]
    \cup [t : {"EXECUTE_RESP"}, c : AllClient, len : {0, 1}]
    \cup [t : {"data"}, c : AllClient]

ToDevice ==
  [t : {"HELLO_RESP"}, v : Version, mode : {"image", "command", "debug"}]
    \cup [t : {"RESET", "POWER", "SWITCH_MODE"}]
    \cup [t : {"EXECUTE", "EXECUTE_DATA"}, c : AllClient]

TypeOK ==
  /\ device \in Devices /\ run \in Runs
  /\ nth \in Nat \ {0} /\ (hpc # "end" => nth \in DOMAIN run)
  /\ hpc \in {"first", "prodded", "power", "ready", "exec", "payload", "resent", "verify",
              "end"}
  /\ version \in Version /\ tries \in Nat
  /\ item \in 0 .. 3 /\ (hpc \in {"exec", "payload"} => item # 0)
  /\ rets \in Seq({-1, 0}) /\ Len(rets) = nth - 1
  /\ toDev \in Seq(ToDevice) /\ toHost \in Seq(FromDevice)
  /\ late \in Nat /\ bad \in Nat /\ gone \in Nat

LEMMA InitType == Init => TypeOK
<1> SUFFICES ASSUME Init PROVE TypeOK
  OBVIOUS
<1>1. 1 \in DOMAIN run
  BY SaharaCommandsAssumption DEF Init
<1>2. <<[t |-> "xml"]>> \in Seq(FromDevice) /\ <<>> \in Seq(FromDevice)
  BY DEF FromDevice
<1>3. toHost \in Seq(FromDevice)
  BY <1>2 DEF Init
<1> QED
  BY <1>1, <1>3 DEF Init, TypeOK, Version

Sendable(s) == s \in Seq(ToDevice)

\* What the host sends.
LEMMA SentTypes ==
  /\ Sendable(<<Reset>>) /\ Sendable(<<[t |-> "POWER"]>>) /\ Sendable(<<SwitchMode>>)
  /\ \A v \in Version, m \in {"image", "command", "debug"} :
       Sendable(<<HelloResp(v, m)>>) /\ Sendable(<<HelloResp(v, m), Reset>>)
  /\ \A i \in 1 .. 3 :
       /\ ClientCmds[i] \in AllClient
       /\ Sendable(<<Execute(i)>>)
       /\ Sendable(<<[t |-> "EXECUTE_DATA", c |-> ClientCmds[i]]>>)
<1>1. \A i \in 1 .. 3 : ClientCmds[i] \in AllClient
  BY DEF ClientCmds, AllClient
<1>2. \A i \in 1 .. 3 :
        /\ Execute(i) \in ToDevice
        /\ [t |-> "EXECUTE_DATA", c |-> ClientCmds[i]] \in ToDevice
  BY <1>1 DEF Execute, ToDevice
<1>3. /\ Reset \in ToDevice /\ [t |-> "POWER"] \in ToDevice /\ SwitchMode \in ToDevice
      /\ \A v \in Version, m \in {"image", "command", "debug"} : HelloResp(v, m) \in ToDevice
  BY DEF Reset, SwitchMode, HelloResp, ToDevice
<1> QED
  BY <1>1, <1>2, <1>3 DEF Sendable

LEMMA GotType ==
  ASSUME TypeOK, Got
  PROVE  Read \in FromDevice /\ toHost' \in Seq(FromDevice)
BY DEF TypeOK, Got, Read

LEMMA SendType ==
  ASSUME TypeOK, NEW s, Sendable(s), SendAll(s)
  PROVE  toDev' \in Seq(ToDevice)
BY DEF TypeOK, SendAll, Sendable

\* The part of the type that a command's return changes.
NthOK ==
  /\ nth \in Nat \ {0} /\ (hpc # "end" => nth \in DOMAIN run)
  /\ rets \in Seq({-1, 0}) /\ Len(rets) = nth - 1
  /\ hpc \in {"first", "prodded", "power", "ready", "exec", "payload", "resent", "verify",
              "end"}

LEMMA ReturnType ==
  ASSUME TypeOK, NEW r \in {-1, 0}, hpc # "end", Return(r), UNCHANGED run
  PROVE  NthOK' /\ hpc' \in {"first", "end"} /\ rets' = Append(rets, r)
BY SaharaCommandsAssumption DEF TypeOK, NthOK, Return

LEMMA GotoType ==
  ASSUME TypeOK, NEW l \in {"prodded", "power", "ready", "exec", "payload", "resent", "verify"},
         hpc # "end", Goto(l), UNCHANGED run
  PROVE  NthOK' /\ hpc' = l /\ rets' = rets
BY DEF TypeOK, NthOK, Goto

\* The rest of it.
DataOK ==
  /\ device \in Devices /\ run \in Runs
  /\ version \in Version /\ tries \in Nat
  /\ item \in 0 .. 3
  /\ toDev \in Seq(ToDevice) /\ toHost \in Seq(FromDevice)
  /\ late \in Nat /\ bad \in Nat /\ gone \in Nat

LEMMA WaitType ==
  ASSUME TypeOK, TimesOut \/ ReadFails
  PROVE  late' \in Nat /\ toHost' = toHost /\ toHost = <<>>
BY DEF TypeOK, TimesOut, ReadFails

LEMMA FirstReadEmptyType == TypeOK /\ FirstReadEmpty => TypeOK'
<1> SUFFICES ASSUME TypeOK, FirstReadEmpty PROVE TypeOK'
  OBVIOUS
<1>1. UNCHANGED <<device, run, bad, gone, tries, item>> /\ version' = 2 /\ hpc = "first"
  BY DEF FirstReadEmpty, rest, setup
<1>2. late' \in Nat /\ toHost' = toHost
  BY WaitType DEF FirstReadEmpty
<1>3. NthOK' /\ hpc' \notin {"exec", "payload"}
  BY <1>1, ReturnType, GotoType DEF FirstReadEmpty
<1>4. toDev' \in Seq(ToDevice)
  <2>1. 2 \in Version
    BY DEF Version
  <2>2. toDev \in Seq(ToDevice)
    BY DEF TypeOK
  <2> QED
    BY <2>1, <2>2, SentTypes, SendType DEF FirstReadEmpty
<1> QED
  BY <1>1, <1>2, <1>3, <1>4 DEF TypeOK, NthOK, DataOK, Version

LEMMA FirstReadType == TypeOK /\ FirstRead => TypeOK'
<1> SUFFICES ASSUME TypeOK, FirstRead PROVE TypeOK'
  OBVIOUS
<1>1. UNCHANGED <<device, run, bad, gone, item, late>> /\ hpc = "first"
  BY DEF FirstRead, rest, setup, Got
<1>2. Read \in FromDevice /\ toHost' \in Seq(FromDevice)
  BY GotType DEF FirstRead
<1>3. toDev \in Seq(ToDevice) /\ tries \in Nat /\ version \in Version
  BY DEF TypeOK
<1>4. CASE Read.t = "HELLO"
  <2>1. Read.v \in Version
    BY <1>2, <1>4 DEF FromDevice
  <2>2. version' = Read.v /\ ModeFor(Read) \in {"debug", "command"}
    BY <1>4 DEF FirstRead, ModeFor
  <2>3. HelloResp(Read.v, ModeFor(Read)).mode = ModeFor(Read)
    BY DEF HelloResp
  <2>4. NthOK' /\ tries' \in Nat /\ hpc' \in {"resent", "ready"}
    BY <1>1, <1>3, <1>4, GotoType DEF FirstRead
  <2>5. toDev' \in Seq(ToDevice)
    BY <1>1, <1>4, <2>1, <2>2, SendType, SentTypes DEF FirstRead
  <2> QED
    BY <1>1, <1>2, <2>1, <2>2, <2>4, <2>5 DEF TypeOK, NthOK, DataOK
<1>5. CASE Read.t # "HELLO"
  <2>1. version' = version
    BY <1>5 DEF FirstRead
  <2>2. NthOK' /\ tries' \in Nat /\ hpc' \notin {"exec", "payload"}
    BY <1>1, <1>3, <1>5, ReturnType, GotoType DEF FirstRead, FallBack, ResetNow
  <2>3. toDev' \in Seq(ToDevice)
    BY <1>3, <1>5, SendType, SentTypes DEF FirstRead, FallBack, ResetNow
  <2> QED
    BY <1>1, <1>2, <1>3, <2>1, <2>2, <2>3 DEF TypeOK, NthOK, DataOK
<1> QED
  BY <1>4, <1>5

\* The steps that wait for one packet, or for the time to run out.
LEMMA WaitOrGot ==
  ASSUME TypeOK, Got \/ TimesOut \/ ReadFails
  PROVE  late' \in Nat /\ toHost' \in Seq(FromDevice)
<1>1. toHost \in Seq(FromDevice) /\ late \in Nat
  BY DEF TypeOK
<1>2. CASE Got
  BY <1>1, <1>2, GotType DEF Got
<1>3. CASE TimesOut \/ ReadFails
  BY <1>1, <1>3, WaitType
<1> QED
  BY <1>2, <1>3

LEMMA ProddedType == TypeOK /\ Prodded => TypeOK'
<1> SUFFICES ASSUME TypeOK, Prodded PROVE TypeOK'
  OBVIOUS
<1>1. UNCHANGED <<device, run, bad, gone, item, version>> /\ hpc = "prodded"
  BY DEF Prodded, rest, setup
<1>2. toHost' \in Seq(FromDevice) /\ late' \in Nat
  BY WaitOrGot DEF Prodded
<1>3. NthOK' /\ tries' \in Nat /\ hpc' \notin {"exec", "payload"}
  BY <1>1, GotoType DEF Prodded, FallBack, ResetNow, TypeOK
<1>4. toDev' \in Seq(ToDevice)
  BY SendType, SentTypes DEF Prodded, FallBack, ResetNow
<1> QED
  BY <1>1, <1>2, <1>3, <1>4 DEF TypeOK, NthOK, DataOK

LEMMA PowerType == TypeOK /\ Power => TypeOK'
<1> SUFFICES ASSUME TypeOK, Power PROVE TypeOK'
  OBVIOUS
<1>1. UNCHANGED <<device, run, bad, gone, item, version, tries, toDev>> /\ hpc = "power"
  BY DEF Power, rest, setup
<1>2. toHost' \in Seq(FromDevice) /\ late' \in Nat
  BY WaitOrGot DEF Power
<1>3. NthOK /\ DataOK
  BY DEF TypeOK, NthOK, DataOK
<1>4. NthOK' /\ hpc' \notin {"exec", "payload"}
  <2>1. CASE Return(0) \/ Return(-1)
    BY <1>1, <2>1, ReturnType
  <2>2. CASE UNCHANGED <<hpc, nth, rets>>
    BY <1>1, <1>3, <2>2 DEF NthOK
  <2> QED
    BY <2>1, <2>2 DEF Power
<1> QED
  BY <1>1, <1>2, <1>3, <1>4 DEF TypeOK, NthOK, DataOK

LEMMA ReadyType == TypeOK /\ Ready => TypeOK'
<1> SUFFICES ASSUME TypeOK, Ready PROVE TypeOK'
  OBVIOUS
<1>1. UNCHANGED <<device, run, bad, gone, version>> /\ hpc = "ready"
  BY DEF Ready, rest, setup
<1>2. toHost' \in Seq(FromDevice) /\ late' \in Nat
  BY WaitOrGot DEF Ready
<1>3. NthOK' /\ tries' \in Nat /\ item' \in 0 .. 3 /\ (hpc' \in {"exec", "payload"} => item' # 0)
  BY <1>1, GotoType, ReturnType DEF Ready, ResetNow, TypeOK
<1>4. toDev' \in Seq(ToDevice)
  <2>1. toDev \in Seq(ToDevice) /\ Sendable(<<Reset>>) /\ Sendable(<<Execute(1)>>)
    BY SentTypes DEF TypeOK
  <2> QED
    BY <2>1, SendType DEF Ready, ResetNow
<1> QED
  BY <1>1, <1>2, <1>3, <1>4 DEF TypeOK, NthOK, DataOK

LEMMA NextItemType ==
  ASSUME TypeOK, NEW g, NextItem(g), hpc \in {"exec", "payload"}, UNCHANGED run
  PROVE  /\ NthOK' /\ toDev' \in Seq(ToDevice)
         /\ item' \in 0 .. 3 /\ (hpc' \in {"exec", "payload"} => item' # 0)
<1>1. CASE item < 3
  <2>1. item + 1 \in 1 .. 3
    BY <1>1 DEF TypeOK
  <2> QED
    BY <1>1, <2>1, SentTypes, SendType, GotoType DEF NextItem
<1>2. CASE ~(item < 3)
  BY <1>2, SentTypes, SendType, ReturnType DEF NextItem
<1> QED
  BY <1>1, <1>2

LEMMA ExecRespType == TypeOK /\ ExecResp => TypeOK'
<1> SUFFICES ASSUME TypeOK, ExecResp PROVE TypeOK'
  OBVIOUS
<1>1. UNCHANGED <<device, run, bad, gone, version, tries>> /\ hpc = "exec"
  BY DEF ExecResp, rest, setup
<1>2. toHost' \in Seq(FromDevice) /\ late' \in Nat
  BY WaitOrGot DEF ExecResp
<1>3. item \in 1 .. 3
  BY <1>1 DEF TypeOK
<1>4. /\ NthOK' /\ toDev' \in Seq(ToDevice)
      /\ item' \in 0 .. 3 /\ (hpc' \in {"exec", "payload"} => item' # 0)
  <2>1. CASE NextItem(got)
    BY <1>1, <2>1, NextItemType
  <2>2. CASE /\ SendAll(<<[t |-> "EXECUTE_DATA", c |-> ClientCmds[item]]>>)
             /\ Goto("payload") /\ UNCHANGED item
    BY <1>1, <1>3, <2>2, SentTypes, SendType, GotoType
  <2>3. \/ NextItem(got)
        \/ /\ SendAll(<<[t |-> "EXECUTE_DATA", c |-> ClientCmds[item]]>>)
           /\ Goto("payload") /\ UNCHANGED item
    BY DEF ExecResp
  <2> QED
    BY <2>1, <2>2, <2>3
<1> QED
  BY <1>1, <1>2, <1>4 DEF TypeOK, NthOK, DataOK

LEMMA ExecDataType == TypeOK /\ ExecData => TypeOK'
<1> SUFFICES ASSUME TypeOK, ExecData PROVE TypeOK'
  OBVIOUS
<1>1. UNCHANGED <<device, run, bad, gone, version, tries>> /\ hpc = "payload"
  BY DEF ExecData, rest, setup
<1>2. toHost' \in Seq(FromDevice) /\ late' \in Nat
  BY WaitOrGot DEF ExecData
<1>3. \E g : NextItem(g)
  BY DEF ExecData
<1>4. /\ NthOK' /\ toDev' \in Seq(ToDevice)
      /\ item' \in 0 .. 3 /\ (hpc' \in {"exec", "payload"} => item' # 0)
  BY <1>1, <1>3, NextItemType
<1> QED
  BY <1>1, <1>2, <1>4 DEF TypeOK, NthOK, DataOK

LEMMA ResetSentType == TypeOK /\ ResetSent => TypeOK'
<1> SUFFICES ASSUME TypeOK, ResetSent PROVE TypeOK'
  OBVIOUS
<1>1. UNCHANGED <<device, run, bad, gone, item, version>> /\ hpc = "resent"
  BY DEF ResetSent, rest, setup
<1>2. toHost' \in Seq(FromDevice) /\ late' \in Nat
  BY WaitOrGot DEF ResetSent
<1>3. NthOK /\ DataOK
  BY DEF TypeOK, NthOK, DataOK
<1>4. Resend => NthOK' /\ tries' \in Nat /\ hpc' \notin {"exec", "payload"} /\ toDev' \in Seq(ToDevice)
  <2>1. ASSUME tries < Retries, Resend
        PROVE  NthOK' /\ tries' \in Nat /\ hpc' \notin {"exec", "payload"} /\ toDev' \in Seq(ToDevice)
    <3>1. toDev' \in Seq(ToDevice)
      BY <2>1, SendType, SentTypes DEF Resend
    <3>2. UNCHANGED <<nth, rets, hpc, run>> /\ tries' = tries + 1
      BY <1>1, <2>1 DEF Resend
    <3> QED
      BY <1>1, <1>3, <3>1, <3>2 DEF NthOK, DataOK
  <2>2. CASE ~(tries < Retries)
    <3>1. Resend => Return(-1) /\ UNCHANGED <<tries, toDev>>
      BY <2>2 DEF Resend
    <3> QED
      BY <1>1, <1>3, <3>1, ReturnType DEF DataOK
  <2> QED
    BY <2>1, <2>2
<1>5. NthOK' /\ tries' \in Nat /\ hpc' \notin {"exec", "payload"} /\ toDev' \in Seq(ToDevice)
  BY <1>1, <1>3, <1>4, ReturnType, GotoType DEF ResetSent, DataOK
<1> QED
  BY <1>1, <1>2, <1>3, <1>5 DEF TypeOK, NthOK, DataOK

LEMMA VerifyType == TypeOK /\ Verify => TypeOK'
<1> SUFFICES ASSUME TypeOK, Verify PROVE TypeOK'
  OBVIOUS
<1>1. UNCHANGED <<device, run, bad, gone, item, version, tries, toDev>> /\ hpc = "verify"
  BY DEF Verify, rest, setup
<1>2. toHost' \in Seq(FromDevice) /\ late' \in Nat
  BY WaitOrGot DEF Verify
<1>3. NthOK' /\ hpc' \notin {"exec", "payload"}
  BY <1>1, ReturnType DEF Verify
<1> QED
  BY <1>1, <1>2, <1>3 DEF TypeOK, NthOK, DataOK

-----------------------------------------------------------------------------
(* The device's steps.                                                     *)

LEMMA SayType ==
  ASSUME TypeOK, NEW m, m \in FromDevice, Say(m)
  PROVE  toHost' \in Seq(FromDevice)
BY DEF TypeOK, Say

\* What the device says.
LEMMA SaidTypes ==
  ASSUME device \in Devices
  PROVE  /\ \A m \in {"image", "debug"} :
              [t |-> "HELLO", v |-> device.version, mode |-> m] \in FromDevice
         /\ \A t \in {"READ_DATA", "MEM_DEBUG64", "END_OF_IMAGE", "RESET_RESP", "CMD_READY",
                      "xml", "ack", "zlp"} : [t |-> t] \in FromDevice
         /\ \A c \in AllClient : /\ [t |-> "data", c |-> c] \in FromDevice
                                 /\ [t |-> "EXECUTE_RESP", c |-> c, len |-> 0] \in FromDevice
                                 /\ [t |-> "EXECUTE_RESP", c |-> c, len |-> 1] \in FromDevice
BY DEF FromDevice, Version

LEMMA DevTakeType == TypeOK /\ DevTake => TypeOK'
<1> SUFFICES ASSUME TypeOK, DevTake PROVE TypeOK'
  OBVIOUS
<1>1. UNCHANGED <<device, run, hostVars, late, gone>>
  BY DEF DevTake, devRest, setup
<1>2. device \in Devices /\ toHost \in Seq(FromDevice) /\ toDev \in Seq(ToDevice) /\ bad \in Nat
  BY DEF TypeOK
<1>3. toDev' \in Seq(ToDevice) /\ Head(toDev) \in ToDevice
  BY <1>2 DEF DevTake
<1>4. ASSUME DevExecute(Head(toDev)) PROVE toHost' \in Seq(FromDevice) /\ bad' \in Nat
  <2>1. Head(toDev).c \in AllClient
    BY <1>3, <1>4 DEF DevExecute, ToDevice
  <2>2. [t |-> "zlp"] \in FromDevice /\ [t |-> "END_OF_IMAGE"] \in FromDevice
    BY <1>2, SaidTypes
  <2>3. CASE Head(toDev).t = "EXECUTE"
    BY <1>2, <1>4, <2>1, <2>2, <2>3, SaidTypes, SayType DEF DevExecute
  <2>4. CASE Head(toDev).t = "EXECUTE_DATA"
    <3>1. [t |-> "data", c |-> Head(toDev).c] \in FromDevice
      BY <1>2, <2>1, SaidTypes
    <3>2. Append(toHost, [t |-> "zlp"]) \in Seq(FromDevice)
      BY <1>2, <2>2
    <3> QED
      <4>1. CASE Say([t |-> "data", c |-> Head(toDev).c]) /\ UNCHANGED bad
        BY <1>2, <3>1, <4>1, SayType
      <4>2. CASE bad' = bad + 1 /\ toHost' \in {toHost, Append(toHost, [t |-> "zlp"])}
        BY <1>2, <3>2, <4>2
      <4> QED
        BY <1>4, <2>4, <4>1, <4>2 DEF DevExecute
  <2> QED
    BY <1>4, <2>3, <2>4 DEF DevExecute
<1>5. ASSUME DevReset PROVE toHost' \in Seq(FromDevice)
  BY <1>2, <1>5, SaidTypes, SayType DEF DevReset
<1>6. toHost' \in Seq(FromDevice) /\ bad' \in Nat
  <2>1. [t |-> "ack"] \in FromDevice /\ [t |-> "xml"] \in FromDevice
        /\ [t |-> "CMD_READY"] \in FromDevice /\ [t |-> "END_OF_IMAGE"] \in FromDevice
    BY <1>2, SaidTypes
  <2> QED
    BY <1>2, <1>4, <1>5, <2>1, SayType DEF DevTake
<1> QED
  BY <1>1, <1>2, <1>3, <1>6 DEF TypeOK, hostVars

LEMMA DeviceType == TypeOK /\ (Device \/ DevGone \/ DevHang) => TypeOK'
<1> SUFFICES ASSUME TypeOK, Device \/ DevGone \/ DevHang PROVE TypeOK'
  OBVIOUS
<1>1. CASE DevTake
  BY <1>1, DevTakeType
<1>2. CASE DevHello \/ DevAsk \/ DevDown \/ DevGone \/ DevHang
  <2>1. UNCHANGED <<device, run, hostVars, late>>
    BY <1>2 DEF DevHello, DevAsk, DevDown, DevGone, DevHang, devRest, setup
  <2>2. device \in Devices /\ toHost \in Seq(FromDevice) /\ toDev \in Seq(ToDevice)
        /\ bad \in Nat /\ gone \in Nat
    BY DEF TypeOK
  <2>3. /\ [t |-> "READ_DATA"] \in FromDevice /\ [t |-> "MEM_DEBUG64"] \in FromDevice
        /\ \A m \in {"image", "debug"} :
              [t |-> "HELLO", v |-> device.version, mode |-> m] \in FromDevice
    BY <2>2, SaidTypes
  <2>4. toHost' \in Seq(FromDevice)
    <3>1. CASE DevHello
      BY <2>2, <2>3, <3>1, SayType DEF DevHello
    <3>2. CASE DevAsk
      BY <2>2, <2>3, <3>2, SayType DEF DevAsk
    <3>3. CASE DevDown \/ DevGone \/ DevHang
      <4>1. toHost' \in {toHost, <<>>}
        BY <3>3 DEF DevDown, DevGone, DevHang
      <4>2. <<>> \in Seq(FromDevice)
        OBVIOUS
      <4> QED
        BY <2>2, <4>1, <4>2
    <3> QED
      BY <1>2, <3>1, <3>2, <3>3
  <2>5. toDev' \in Seq(ToDevice) /\ bad' \in Nat /\ gone' \in Nat
    <3>1. toDev' \in {toDev, <<>>} /\ bad' = bad /\ gone' \in {gone, gone + 1}
      BY <1>2 DEF DevHello, DevAsk, DevDown, DevGone, DevHang
    <3>2. <<>> \in Seq(ToDevice)
      OBVIOUS
    <3>3. toDev' \in Seq(ToDevice)
      BY <2>2, <3>1, <3>2
    <3> QED
      BY <2>2, <3>1, <3>3
  <2> QED
    BY <2>1, <2>4, <2>5 DEF TypeOK, hostVars
<1> QED
  BY <1>1, <1>2 DEF Device

LEMMA NextType == TypeOK /\ [Next]_vars => TypeOK'
<1> SUFFICES ASSUME TypeOK, [Next]_vars PROVE TypeOK'
  OBVIOUS
<1>1. CASE Host
  BY <1>1, FirstReadEmptyType, FirstReadType, ProddedType, PowerType, ReadyType,
     ExecRespType, ExecDataType, ResetSentType, VerifyType DEF Host
<1>2. CASE Device \/ DevGone \/ DevHang
  BY <1>2, DeviceType
<1>3. CASE Done \/ UNCHANGED vars
  BY <1>3 DEF Done, vars, setup, hostVars, counters, TypeOK
<1> QED
  BY <1>1, <1>2, <1>3 DEF Next

\* Every variable keeps its type, and a command's result is recorded when it returns.
THEOREM TypeCorrect == Spec => []TypeOK
BY InitType, NextType, PTL DEF Spec

-----------------------------------------------------------------------------
(* Who is reset how.  The host may take a device for a programmer only by  *)
(* what it has read, so what is on its way to it counts as well: XML comes *)
(* from a programmer, and the answer to the power command from one that    *)
(* has taken it.                                                           *)

ProgInv ==
  /\ dpc = "firehose" => device.kind = "firehose"
  /\ \A m \in Range(toHost) :
       /\ m.t \in {"xml", "ack"} => device.kind = "firehose"
       /\ m.t = "ack" => dpc \in {"powered", "down"}
  /\ hpc = "power" => device.kind = "firehose"
  /\ hpc \in {"exec", "payload"} => Cmd # "reset"

LEMMA GotRange ==
  ASSUME TypeOK, Got
  PROVE  Range(toHost') \subseteq Range(toHost) /\ Read \in Range(toHost)
BY DEF TypeOK, Got, Read, Range

LEMMA SayRange ==
  ASSUME TypeOK, NEW m, m \in FromDevice, Say(m)
  PROVE  Range(toHost') = Range(toHost) \cup {m}
<1>1. toHost \in Seq(FromDevice) /\ toHost' = Append(toHost, m)
  BY DEF TypeOK, Say
<1>2. Len(toHost') = Len(toHost) + 1 /\ toHost'[Len(toHost) + 1] = m
  BY <1>1
<1> QED
  BY <1>1, <1>2 DEF Range

\* What a step of the host leaves alone.
LEMMA HostRest ==
  ASSUME TypeOK, Host
  PROVE  /\ UNCHANGED <<setup, dpc, bad, gone>>
         /\ Range(toHost') \subseteq Range(toHost)
         /\ late' \in {late, late + 1}
<1>1. UNCHANGED <<setup, dpc, bad, gone>>
  BY DEF Host, FirstReadEmpty, FirstRead, Prodded, Power, Ready, ExecResp, ExecData, ResetSent,
         Verify, rest
<1>2. Got \/ TimesOut \/ ReadFails
  BY DEF Host, FirstReadEmpty, FirstRead, Prodded, Power, Ready, ExecResp, ExecData, ResetSent,
         Verify
<1>3. CASE Got
  BY <1>1, <1>3, GotRange DEF Got
<1>4. CASE TimesOut \/ ReadFails
  BY <1>1, <1>4 DEF TimesOut, ReadFails
<1> QED
  BY <1>2, <1>3, <1>4

\* Where the host goes from where.
LEMMA HostGoes ==
  ASSUME TypeOK, ProgInv, Host
  PROVE  /\ hpc' = "power" => device.kind = "firehose"
         /\ hpc' \in {"exec", "payload"} => Cmd # "reset" /\ nth' = nth
<1>1. Got => Read \in Range(toHost)
  BY GotRange
<1>2. \A r : Return(r) => hpc' \in {"first", "end"}
  BY DEF Return
<1>3. \A l : Goto(l) => hpc' = l /\ nth' = nth
  BY DEF Goto
<1>4. CASE FirstReadEmpty
  BY <1>2, <1>3, <1>4 DEF FirstReadEmpty
<1>5. CASE FirstRead
  BY <1>1, <1>2, <1>3, <1>5 DEF FirstRead, ResetNow, FallBack, ProgInv
<1>6. CASE Prodded
  BY <1>1, <1>3, <1>6 DEF Prodded, ResetNow, FallBack, ProgInv
<1>7. CASE Power
  BY <1>2, <1>7 DEF Power, ProgInv
<1>8. CASE Ready
  BY <1>2, <1>3, <1>8 DEF Ready, ResetNow
<1>9. ASSUME NEW g, NextItem(g), hpc \in {"exec", "payload"}
      PROVE  hpc' # "power" /\ (hpc' \in {"exec", "payload"} => Cmd # "reset" /\ nth' = nth)
  BY <1>2, <1>3, <1>9 DEF NextItem, ProgInv
<1>10. CASE ExecResp
  BY <1>3, <1>9, <1>10 DEF ExecResp, ProgInv
<1>11. CASE ExecData
  BY <1>9, <1>11 DEF ExecData
<1>12. CASE ResetSent
  BY <1>2, <1>3, <1>12 DEF ResetSent, Resend
<1>13. CASE Verify
  BY <1>2, <1>13 DEF Verify
<1> QED
  BY <1>4, <1>5, <1>6, <1>7, <1>8, <1>10, <1>11, <1>12, <1>13 DEF Host

LEMMA ProgStep == TypeOK /\ ProgInv /\ [Next]_vars => ProgInv'
<1> SUFFICES ASSUME TypeOK, ProgInv, [Next]_vars PROVE ProgInv'
  OBVIOUS
<1>1. CASE Host
  <2>1. UNCHANGED <<device, run, dpc>> /\ Range(toHost') \subseteq Range(toHost)
    BY <1>1, HostRest DEF setup
  <2>2. /\ hpc' = "power" => device.kind = "firehose"
        /\ hpc' \in {"exec", "payload"} => Cmd' # "reset"
    BY <1>1, <2>1, HostGoes DEF Cmd
  <2> QED
    BY <2>1, <2>2 DEF ProgInv
<1>2. CASE DevHello \/ DevAsk \/ DevDown \/ DevGone \/ DevHang
  <2>1. UNCHANGED <<device, run, hpc, nth>>
    BY <1>2 DEF DevHello, DevAsk, DevDown, DevGone, DevHang, devRest, setup, hostVars
  <2>2. dpc' # "firehose" /\ (dpc \in {"powered", "down"} => dpc' \in {"powered", "down"})
    BY <1>2 DEF DevHello, DevAsk, DevDown, DevGone, DevHang
  <2>3. \A m \in Range(toHost') : m \in Range(toHost) \/ m.t \notin {"xml", "ack"}
    <3>1. device \in Devices /\ Range(<<>>) = {}
      BY DEF TypeOK, Range
    <3>2. CASE DevHello
      BY <3>1, <3>2, SaidTypes, SayRange DEF DevHello
    <3>3. CASE DevAsk
      BY <3>1, <3>3, SaidTypes, SayRange DEF DevAsk
    <3>4. CASE DevDown \/ DevGone \/ DevHang
      BY <3>1, <3>4 DEF DevDown, DevGone, DevHang
    <3> QED
      BY <1>2, <3>2, <3>3, <3>4
  <2> QED
    BY <2>1, <2>2, <2>3 DEF ProgInv, Cmd
<1>3. CASE DevTake
  <2>1. UNCHANGED <<device, run, hpc, nth>> /\ device \in Devices
    BY <1>3 DEF DevTake, devRest, setup, hostVars, TypeOK
  <2>2. /\ [t |-> "ack"] \in FromDevice /\ [t |-> "xml"] \in FromDevice
        /\ [t |-> "CMD_READY"] \in FromDevice /\ [t |-> "END_OF_IMAGE"] \in FromDevice
        /\ [t |-> "RESET_RESP"] \in FromDevice /\ [t |-> "zlp"] \in FromDevice
    BY <2>1, SaidTypes
  <2>3. CASE dpc = "firehose"
    BY <1>3, <2>1, <2>2, <2>3, SayRange DEF DevTake, ProgInv, Cmd
  <2>4. CASE dpc # "firehose"
    <3>1. ASSUME DevExecute(Head(toDev))
          PROVE  \A m \in Range(toHost') : m \in Range(toHost) \/ m.t \notin {"xml", "ack"}
      <4>1. Head(toDev) \in ToDevice
        BY <1>3 DEF TypeOK, DevTake
      <4>2. Head(toDev).c \in AllClient
        BY <3>1, <4>1 DEF DevExecute, ToDevice
      <4>3. \E m \in FromDevice : /\ m.t \notin {"xml", "ack"}
                                  /\ Say(m) \/ toHost' = toHost
        BY <2>1, <2>2, <3>1, <4>2, SaidTypes DEF DevExecute, Say
      <4> QED
        BY <4>3, SayRange
    <3>2. \A m \in Range(toHost') : m \in Range(toHost) \/ m.t \notin {"xml", "ack"}
      <4>1. \/ DevExecute(Head(toDev))
            \/ toHost' = toHost
            \/ Say([t |-> "CMD_READY"]) \/ Say([t |-> "END_OF_IMAGE"]) \/ Say([t |-> "RESET_RESP"])
        BY <1>3, <2>4 DEF DevTake, DevReset
      <4> QED
        BY <2>2, <3>1, <4>1, SayRange
    <3>3. dpc' # "firehose" /\ (dpc \in {"powered", "down"} => dpc' \in {"powered", "down"})
      BY <1>3, <2>4 DEF DevTake, DevReset
    <3> QED
      BY <2>1, <3>2, <3>3 DEF ProgInv, Cmd
  <2> QED
    BY <2>3, <2>4
<1>4. CASE Done \/ UNCHANGED vars
  BY <1>4 DEF Done, vars, setup, hostVars, counters, ProgInv, Cmd
<1> QED
  BY <1>1, <1>2, <1>3, <1>4 DEF Next, Device

LEMMA ProgInit == Init => ProgInv
BY DEF Init, ProgInv, Range

\* TypeOK and ProgInv hold throughout.
LEMMA ProgInvariant == Spec => [](TypeOK /\ ProgInv)
BY InitType, NextType, ProgInit, ProgStep, PTL DEF Spec

\* The Firehose power command goes to programmers only, whatever was late or lost.
THEOREM PowersOnlyProgrammers == Spec => PowerOnlyToProgrammer
<1>1. TypeOK /\ ProgInv /\ [Next]_vars => [hpc' = "power" => device.kind = "firehose"]_vars
  <2> SUFFICES ASSUME TypeOK, ProgInv, Next, hpc' = "power"
               PROVE  device.kind = "firehose"
    OBVIOUS
  <2>1. CASE Host
    BY <2>1, HostGoes
  <2>2. CASE ~Host
    BY <2>2 DEF Next, Device, DevHello, DevAsk, DevTake, DevDown, DevGone, DevHang, devRest,
                hostVars, Done, vars, ProgInv
  <2> QED
    BY <2>1, <2>2
<1> QED
  BY <1>1, ProgInvariant, PTL DEF Spec, PowerOnlyToProgrammer

\* A reset reported as done has happened.
THEOREM ResetsAreReal == Spec => ResetIsReal
<1>1. TypeOK /\ ProgInv /\ [Next]_vars =>
        [rets' # rets /\ Cmd = "reset" /\ rets'[nth] = 0 => dpc \in {"down", "powered"}]_vars
  <2> SUFFICES ASSUME TypeOK, ProgInv, Next, rets' # rets, Cmd = "reset", rets'[nth] = 0
               PROVE  dpc \in {"down", "powered"}
    OBVIOUS
  <2>1. Host
    BY DEF Next, Device, DevHello, DevAsk, DevTake, DevDown, DevGone, DevHang, devRest,
           hostVars, Done, vars
  <2>2. \A r \in {-1, 0} : Return(r) => r = 0
    BY DEF TypeOK, Return
  <2>3. \A l : ~Goto(l)
    BY DEF Goto
  <2>4. hpc \notin {"exec", "payload"}
    BY DEF ProgInv
  <2>5. CASE Power
    <3>1. Got /\ Read.t = "ack"
      BY <2>2, <2>5 DEF Power
    <3> QED
      BY <3>1, GotRange DEF ProgInv
  <2>6. CASE Verify
    BY <2>2, <2>6 DEF Verify, ReadFails, Up
  <2>7. CASE FirstReadEmpty \/ FirstRead \/ Prodded \/ Ready \/ ResetSent
    BY <2>2, <2>3, <2>7 DEF FirstReadEmpty, FirstRead, Prodded, Ready, ResetSent, Resend,
                            ResetNow, FallBack
  <2> QED
    BY <2>1, <2>4, <2>5, <2>6, <2>7 DEF Host, ExecResp, ExecData
<1> QED
  BY <1>1, ProgInvariant, PTL DEF Spec, ResetIsReal

-----------------------------------------------------------------------------
(* Questions and answers.  As long as the host never stops waiting too     *)
(* early, at most one packet is on its way while it reads chip             *)
(* information, and nothing else is when the device says HELLO or is told  *)
(* to go back to it.                                                       *)

Busy == {"start", "load", "table"}

\* One packet at most is on its way.
OneOut == dpc \notin Busy /\ Len(toDev) + Len(toHost) <= 1

IsCommandMode(m) == m.t = "HELLO_RESP" /\ m.mode = "command"
IsExecute(m)     == m.t = "EXECUTE"
IsDataRequest(m) == m.t = "EXECUTE_DATA" /\ m.c = ClientCmds[item]

Calm ==
  /\ dpc = "start" => toDev = <<>> /\ toHost = <<>> /\ hpc \in {"first", "end"}
  /\ \A m \in Range(toHost) : m.t = "HELLO" =>
       /\ toDev = <<>> /\ Len(toHost) = 1
       /\ hpc \in {"first", "end"} /\ dpc \in {"hello", "dead", "down"}
  /\ \A m \in Range(toDev) : m.t = "SWITCH_MODE" =>
       Len(toDev) = 1 /\ toHost = <<>> /\ hpc \in {"first", "end"} /\ dpc \notin Busy
  /\ hpc = "ready" /\ Cmd # "reset" =>
       OneOut /\ \A m \in Range(toDev) : IsCommandMode(m)
  /\ hpc = "exec" => OneOut /\ \A m \in Range(toDev) : IsExecute(m)
  /\ hpc = "payload" =>
       /\ OneOut /\ device.kind # "firehose"
       /\ \A m \in Range(toDev) : IsDataRequest(m)
       /\ \A m \in Range(toHost) : m.t = "zlp" \/ (m.t = "data" /\ m.c = ClientCmds[item])
  /\ \A c \in DOMAIN got : got[c].t = "data" /\ got[c].c = c

LockInv ==
  /\ dpc = "down" => toDev = <<>>
  /\ device.kind = "firehose" => dpc \in {"firehose", "powered", "dead", "down"}
  /\ \A m \in Range(toHost) : m.t = "EXECUTE_RESP" => device.kind # "firehose"
  /\ late = 0 => Calm

LEMMA LockInit == Init => LockInv
<1> SUFFICES ASSUME Init PROVE LockInv
  OBVIOUS
<1>1. \A m \in Range(toHost) : m.t = "xml" /\ device.kind = "firehose"
  BY DEF Init, Range
<1>2. Range(toDev) = {} /\ toDev = <<>> /\ hpc = "first" /\ DOMAIN got = {}
  BY DEF Init, Range
<1>3. toHost # <<>> => device.kind = "firehose"
  BY DEF Init
<1> QED
  BY <1>1, <1>2, <1>3 DEF Init, LockInv, Calm

\* What the host's waiting tells as long as it is never too short.
LEMMA WaitCalm ==
  ASSUME TypeOK, late' = 0, Got \/ TimesOut \/ ReadFails
  PROVE  /\ late = 0
         /\ Got => /\ Read \in Range(toHost) /\ Range(toHost') \subseteq Range(toHost)
                   /\ Len(toHost') = Len(toHost) - 1 /\ Len(toHost) > 0
         /\ TimesOut => toHost = <<>> /\ toHost' = <<>> /\ Up /\ DeviceWaits
         /\ ReadFails => toHost = <<>> /\ toHost' = <<>> /\ ~Up
<1>1. late = 0 /\ (TimesOut => DeviceWaits)
  BY DEF Got, TimesOut, ReadFails, TypeOK
<1>2. Got => /\ Read \in Range(toHost) /\ Range(toHost') \subseteq Range(toHost)
             /\ Len(toHost') = Len(toHost) - 1 /\ Len(toHost) > 0
  BY GotRange DEF Got, TypeOK
<1> QED
  BY <1>1, <1>2 DEF TimesOut, ReadFails

\* A packet sent when nothing is on its way to the device.
LEMMA SendAlone ==
  ASSUME NEW m, SendAll(<<m>>), toDev = <<>>
  PROVE  /\ Len(toDev') <= 1 /\ Range(toDev') \subseteq {m}
         /\ toDev' \in {<<>>, <<m>>}
BY DEF SendAll, Range

\* Packets sent behind others.
LEMMA SendRange ==
  ASSUME TypeOK, NEW m, Sendable(<<m>>), SendAll(<<m>>)
  PROVE  Range(toDev') \subseteq Range(toDev) \cup {m}
BY DEF SendAll, Range, TypeOK, Sendable

LEMMA TakeRange ==
  ASSUME TypeOK, DevTake
  PROVE  /\ Head(toDev) \in Range(toDev) /\ Range(toDev') \subseteq Range(toDev)
         /\ Len(toDev') = Len(toDev) - 1 /\ Len(toDev) > 0
         /\ Head(toDev) \in ToDevice
<1>1. toDev \in Seq(ToDevice) /\ toDev # <<>> /\ toDev' = Tail(toDev)
  BY DEF TypeOK, DevTake
<1> QED
  BY <1>1 DEF Range

\* When the host leaves a question behind, it is back at its first read or done.
LEMMA CalmReturn ==
  ASSUME TypeOK, Calm, NEW r, Return(r), hpc \notin {"first", "end"},
         UNCHANGED <<dpc, toDev, got>>, Range(toHost') \subseteq Range(toHost)
  PROVE  Calm'
<1>1. hpc' \in {"first", "end"}
  BY DEF Return
<1>2. dpc # "start" /\ (\A m \in Range(toHost) : m.t # "HELLO")
      /\ (\A m \in Range(toDev) : m.t # "SWITCH_MODE")
  BY DEF Calm
<1> QED
  BY <1>1, <1>2 DEF Calm

\* A packet that is sent, and the read it leads to, from anywhere but the first one.
LEMMA CalmGoto ==
  ASSUME TypeOK, Calm, NEW m, Sendable(<<m>>), SendAll(<<m>>), m.t # "SWITCH_MODE",
         hpc \notin {"first", "end"}, hpc' \in {"prodded", "power", "resent", "verify"},
         UNCHANGED <<dpc, got>>, Range(toHost') \subseteq Range(toHost)
  PROVE  Calm'
<1>1. dpc # "start" /\ (\A x \in Range(toHost) : x.t # "HELLO")
      /\ (\A x \in Range(toDev) : x.t # "SWITCH_MODE")
  BY DEF Calm
<1>2. Range(toDev') \subseteq Range(toDev) \cup {m}
  BY SendRange
<1> QED
  BY <1>1, <1>2 DEF Calm

LEMMA CalmFirstReadEmpty ==
  ASSUME TypeOK, LockInv, FirstReadEmpty, late' = 0
  PROVE  Calm'
<1>1. late = 0 /\ Calm /\ toHost = <<>> /\ toHost' = <<>> /\ UNCHANGED <<dpc, got, device, run>>
  BY WaitCalm DEF FirstReadEmpty, LockInv, rest, setup
<1>2. Range(toHost') = {}
  BY <1>1 DEF Range
<1>3. CASE ReadFails
  <2>1. toDev' = <<>> /\ dpc = "down" /\ hpc' \in {"first", "end"}
    BY <1>3, <1>1 DEF FirstReadEmpty, ReadFails, TimesOut, Up, LockInv, Return
  <2>2. Range(toDev') = {}
    BY <2>1 DEF Range
  <2> QED
    BY <1>1, <1>2, <2>1, <2>2 DEF Calm
<1>4. CASE TimesOut
  <2>1. toDev = <<>> /\ dpc \notin Busy /\ Up
    BY <1>4, WaitCalm DEF DeviceWaits, Busy
  <2>2. CASE Return(-1) /\ UNCHANGED toDev
    <3>1. hpc' \in {"first", "end"} /\ Range(toDev') = {}
      BY <2>1, <2>2 DEF Return, Range
    <3> QED
      BY <1>1, <1>2, <2>1, <2>2, <3>1 DEF Calm, Busy
  <2>3. ASSUME NEW l \in {"prodded", "ready"}, Goto(l), l = "prodded" <=> Cmd = "reset",
               NEW mode, mode = "command" <=> Cmd # "reset",
               SendAll(<<HelloResp(2, mode)>>)
        PROVE  Calm'
    <3>1. hpc' = l /\ Cmd' = Cmd
      BY <1>1, <2>3 DEF Goto, Cmd
    <3>2. Len(toDev') <= 1 /\ Range(toDev') \subseteq {HelloResp(2, mode)}
      BY <2>1, <2>3, SendAlone
    <3>3. Len(toHost') = 0 /\ Len(toDev') \in Nat
      BY <1>1, <2>1, <2>3 DEF SendAll
    <3> QED
      BY <1>1, <1>2, <2>1, <2>3, <3>1, <3>2, <3>3
         DEF Calm, OneOut, IsCommandMode, HelloResp, Busy
  <2> QED
    BY <1>4, <2>1, <2>2, <2>3 DEF FirstReadEmpty, ReadFails
<1> QED
  BY <1>3, <1>4 DEF FirstReadEmpty

LEMMA CalmFirstRead ==
  ASSUME TypeOK, LockInv, FirstRead, late' = 0
  PROVE  Calm'
<1>1. /\ late = 0 /\ Calm /\ UNCHANGED <<dpc, got, device, run>> /\ hpc = "first"
      /\ Read \in Range(toHost) /\ Range(toHost') \subseteq Range(toHost)
      /\ Len(toHost') = Len(toHost) - 1 /\ Len(toHost) > 0
  BY WaitCalm DEF FirstRead, LockInv, rest, setup
<1>2. dpc # "start" /\ \A m \in Range(toDev) : m.t # "SWITCH_MODE"
  BY <1>1 DEF Calm
<1>3. Sendable(<<Reset>>) /\ Sendable(<<[t |-> "POWER"]>>)
  BY SentTypes
<1>4. CASE Read.t = "HELLO"
  <2>1. toDev = <<>> /\ Len(toHost) = 1 /\ dpc \in {"hello", "dead", "down"}
    BY <1>1, <1>4 DEF Calm
  <2>2. Range(toHost') = {} /\ Len(toHost') = 0
    BY <1>1, <2>1, GotType DEF Range, FirstRead
  <2>3. CASE /\ SendAll(<<HelloResp(Read.v, ModeFor(Read)), Reset>>) /\ Goto("resent")
    <3>1. Range(toDev') \subseteq {HelloResp(Read.v, ModeFor(Read)), Reset}
      BY <2>1, <2>3 DEF SendAll, Range
    <3> QED
      BY <1>1, <2>1, <2>2, <2>3, <3>1 DEF Calm, HelloResp, Reset, Goto
  <2>4. CASE /\ SendAll(<<HelloResp(Read.v, ModeFor(Read))>>) /\ Goto("ready")
             /\ ModeFor(Read) # "debug"
    <3>1. Range(toDev') \subseteq {HelloResp(Read.v, ModeFor(Read))} /\ Len(toDev') <= 1
      BY <2>1, <2>4, SendAlone
    <3>2. Len(toDev') \in Nat
      BY <2>1, <2>4 DEF SendAll
    <3> QED
      BY <1>1, <2>1, <2>2, <2>4, <3>1, <3>2
         DEF Calm, HelloResp, Goto, OneOut, IsCommandMode, ModeFor, Busy
  <2> QED
    BY <1>4, <2>3, <2>4 DEF FirstRead, HelloResp
<1>5. CASE Read.t # "HELLO"
  <2>1. \A m \in Range(toHost') : m.t # "HELLO"
    <3>1. Len(toHost) = 1 => Range(toHost') = {}
      BY <1>1, GotType DEF FirstRead, Range
    <3> QED
      BY <1>1, <3>1 DEF Calm
  <2>2. CASE UNCHANGED toDev /\ hpc' \in {"first", "end"}
    BY <1>1, <1>2, <2>1, <2>2 DEF Calm
  <2>3. CASE ResetNow
    <3>1. Range(toDev') \subseteq Range(toDev) \cup {Reset}
      BY <1>3, <2>3, SendRange DEF ResetNow
    <3> QED
      BY <1>1, <1>2, <2>1, <2>3, <3>1 DEF Calm, ResetNow, Goto, Reset
  <2>4. CASE FallBack
    <3>1. Range(toDev') \subseteq Range(toDev) \cup {[t |-> "POWER"]}
      BY <1>3, <2>4, SendRange DEF FallBack
    <3> QED
      BY <1>1, <1>2, <2>1, <2>4, <3>1 DEF Calm, FallBack, Goto
  <2> QED
    BY <1>5, <2>2, <2>3, <2>4 DEF FirstRead, Return
<1> QED
  BY <1>4, <1>5

LEMMA CalmReady ==
  ASSUME TypeOK, LockInv, Ready, late' = 0
  PROVE  Calm'
<1>1. /\ late = 0 /\ Calm /\ UNCHANGED <<dpc, device, run, version>> /\ hpc = "ready"
      /\ Range(toHost') \subseteq Range(toHost)
  BY WaitCalm DEF Ready, LockInv, rest, setup, TimesOut, ReadFails
<1>2. CASE ResetNow /\ UNCHANGED got
  BY <1>1, <1>2, CalmGoto, SentTypes DEF ResetNow, Goto, Reset
<1>3. CASE Return(-1) /\ UNCHANGED <<got, toDev>>
  BY <1>1, <1>3, CalmReturn
<1>4. CASE /\ Got /\ Cmd # "reset" /\ item' = 1 /\ got' = [c \in {} |-> ""]
           /\ SendAll(<<Execute(1)>>) /\ Goto("exec")
  <2>1. OneOut /\ Len(toHost') = Len(toHost) - 1 /\ Len(toHost) > 0
    BY <1>1, <1>4, WaitCalm DEF Calm
  <2>2. Len(toHost) \in Nat /\ Len(toDev) \in Nat /\ toHost \in Seq(FromDevice)
        /\ toDev \in Seq(ToDevice) /\ toHost' \in Seq(FromDevice)
    BY <1>4, GotType DEF TypeOK
  <2>3. toDev = <<>> /\ toHost' = <<>> /\ Range(toHost') = {} /\ Len(toHost') = 0
    BY <2>1, <2>2 DEF OneOut, Range
  <2>4. Range(toDev') \subseteq {Execute(1)} /\ Len(toDev') <= 1 /\ Len(toDev') \in Nat
    BY <1>4, <2>3, SendAlone DEF SendAll
  <2> QED
    BY <1>1, <1>4, <2>1, <2>3, <2>4 DEF Calm, OneOut, IsExecute, Execute, Goto, Busy
<1> QED
  BY <1>2, <1>3, <1>4 DEF Ready

\* A client command has been answered, or never will be.
LEMMA CalmNextItem ==
  ASSUME TypeOK, LockInv, Calm, NEW g, NextItem(g), hpc \in {"exec", "payload"},
         UNCHANGED <<dpc, device, run, version>>, toDev = <<>>, toHost' = <<>>,
         \A c \in DOMAIN got' : got'[c].t = "data" /\ got'[c].c = c
  PROVE  Calm'
<1>1. Range(toHost') = {} /\ Len(toHost') = 0 /\ dpc \notin Busy
  BY DEF Range, Calm, OneOut
<1>2. CASE item < 3
  <2>1. Range(toDev') \subseteq {Execute(item + 1)} /\ Len(toDev') <= 1 /\ Len(toDev') \in Nat
    <3>1. SendAll(<<Execute(item + 1)>>)
      BY <1>2 DEF NextItem
    <3>2. Len(<<Execute(item + 1)>>) = 1 /\ Len(<<>>) = 0
      OBVIOUS
    <3> QED
      BY <3>1, <3>2, SendAlone
  <2>2. hpc' = "exec"
    BY <1>2 DEF NextItem, Goto
  <2>3. \A m \in Range(toDev') : m.t = "EXECUTE"
    BY <2>1 DEF Execute
  <2>4. OneOut'
    BY <1>1, <2>1 DEF OneOut
  <2> QED
    BY <1>1, <2>2, <2>3, <2>4 DEF Calm, IsExecute, Busy
<1>3. CASE ~(item < 3)
  <2>1. Range(toDev') \subseteq {SwitchMode} /\ toDev' \in {<<>>, <<SwitchMode>>}
    BY <1>3, SendAlone DEF NextItem
  <2>2. hpc' \in {"first", "end"} /\ dpc # "start"
    BY <1>1, <1>3 DEF NextItem, Return, Busy
  <2> QED
    BY <1>1, <2>1, <2>2 DEF Calm, SwitchMode, Busy
<1> QED
  BY <1>2, <1>3

\* A read of an answer empties the link.
LEMMA AnswerRead ==
  ASSUME TypeOK, LockInv, Calm, OneOut, late' = 0, Got \/ TimesOut \/ ReadFails
  PROVE  toDev = <<>> /\ toHost' = <<>>
<1>1. Len(toHost) \in Nat /\ Len(toDev) \in Nat /\ toHost \in Seq(FromDevice)
      /\ toDev \in Seq(ToDevice) /\ toHost' \in Seq(FromDevice)
  BY WaitOrGot DEF TypeOK
<1>2. CASE Got
  <2>1. Len(toHost') = Len(toHost) - 1 /\ Len(toHost) > 0
    BY <1>2, WaitCalm
  <2> QED
    BY <1>1, <2>1 DEF OneOut
<1>3. CASE TimesOut \/ ReadFails
  BY <1>3, WaitCalm DEF DeviceWaits, LockInv, Up
<1> QED
  BY <1>2, <1>3

LEMMA CalmExecResp ==
  ASSUME TypeOK, LockInv, ExecResp, late' = 0
  PROVE  Calm'
<1>1. /\ late = 0 /\ Calm /\ UNCHANGED <<dpc, device, run, version, got>> /\ hpc = "exec"
      /\ OneOut
  BY WaitCalm DEF ExecResp, LockInv, rest, setup, Calm
<1>2. toDev = <<>> /\ toHost' = <<>> /\ Len(toHost') = 0 /\ Range(toHost') = {}
  BY <1>1, AnswerRead DEF ExecResp, Range
<1>3. CASE NextItem(got)
  BY <1>1, <1>2, <1>3, CalmNextItem DEF Calm
<1>4. CASE /\ Got /\ GoodLength(Read)
           /\ SendAll(<<[t |-> "EXECUTE_DATA", c |-> ClientCmds[item]]>>)
           /\ Goto("payload") /\ UNCHANGED item
  <2>1. device.kind # "firehose"
    BY <1>4, GotRange DEF GoodLength, LockInv
  <2>2. /\ Range(toDev') \subseteq {[t |-> "EXECUTE_DATA", c |-> ClientCmds[item]]}
        /\ Len(toDev') <= 1 /\ Len(toDev') \in Nat
    BY <1>2, <1>4, SendAlone DEF SendAll
  <2>3. ClientCmds' = ClientCmds /\ item' = item /\ hpc' = "payload"
    BY <1>1, <1>4 DEF ClientCmds, Goto
  <2> QED
    BY <1>1, <1>2, <2>1, <2>2, <2>3 DEF Calm, OneOut, IsDataRequest, Busy
<1> QED
  BY <1>3, <1>4 DEF ExecResp

LEMMA CalmExecData ==
  ASSUME TypeOK, LockInv, ExecData, late' = 0
  PROVE  Calm'
<1>1. /\ late = 0 /\ Calm /\ UNCHANGED <<dpc, device, run, version>> /\ hpc = "payload"
      /\ OneOut
  BY WaitCalm DEF ExecData, LockInv, rest, setup, Calm
<1>2. toDev = <<>> /\ toHost' = <<>>
  BY <1>1, AnswerRead DEF ExecData
<1>3. \A c \in DOMAIN got : got[c].t = "data" /\ got[c].c = c
  BY <1>1 DEF Calm
<1>4. \A c \in DOMAIN got' : got'[c].t = "data" /\ got'[c].c = c
  <2>1. CASE Got /\ Read.t # "zlp"
    <3>1. Read.t = "data" /\ Read.c = ClientCmds[item]
      BY <1>1, <2>1, GotRange DEF Calm
    <3>2. got' = [x \in DOMAIN got \cup {ClientCmds[item]} |->
                    IF x = ClientCmds[item] THEN Read ELSE got[x]]
      BY <2>1 DEF ExecData, TimesOut, ReadFails, Got
    <3> QED
      BY <1>3, <3>1, <3>2
  <2>2. CASE ~(Got /\ Read.t # "zlp")
    BY <1>3, <2>2 DEF ExecData
  <2> QED
    BY <2>1, <2>2
<1>5. \E g : NextItem(g)
  BY DEF ExecData
<1> QED
  BY <1>1, <1>2, <1>4, <1>5, CalmNextItem

LEMMA CalmHost ==
  ASSUME TypeOK, LockInv, Host, late' = 0
  PROVE  Calm'
<1>1. /\ late = 0 /\ Calm /\ UNCHANGED <<dpc, device, run>>
      /\ Range(toHost') \subseteq Range(toHost)
  BY HostRest DEF LockInv, TypeOK, setup
<1>2. Sendable(<<Reset>>) /\ Sendable(<<[t |-> "POWER"]>>)
  BY SentTypes
<1>3. CASE Prodded
  BY <1>1, <1>2, <1>3, CalmGoto DEF Prodded, ResetNow, FallBack, Goto, Reset
<1>4. CASE Power
  <2>1. CASE Return(0) \/ Return(-1)
    BY <1>1, <1>4, <2>1, CalmReturn DEF Power
  <2>2. CASE UNCHANGED <<hpc, nth, rets>>
    BY <1>1, <1>4, <2>2 DEF Power, Calm
  <2> QED
    BY <1>4, <2>1, <2>2 DEF Power
<1>5. CASE ResetSent
  <2>1. hpc = "resent" /\ UNCHANGED got
    BY <1>5 DEF ResetSent
  <2>2. CASE Goto("verify") /\ UNCHANGED toDev
    BY <1>1, <2>1, <2>2 DEF Calm, Goto
  <2>3. CASE Return(-1) /\ UNCHANGED toDev
    BY <1>1, <2>1, <2>3, CalmReturn
  <2>4. CASE SendAll(<<Reset>>) /\ UNCHANGED <<nth, rets, hpc>>
    BY <1>1, <1>2, <2>1, <2>4, CalmGoto DEF Reset
  <2> QED
    BY <1>5, <2>2, <2>3, <2>4 DEF ResetSent, Resend
<1>6. CASE Verify
  BY <1>1, <1>6, CalmReturn DEF Verify
<1> QED
  BY <1>3, <1>4, <1>5, <1>6, CalmFirstReadEmpty, CalmFirstRead, CalmReady, CalmExecResp,
     CalmExecData DEF Host

\* The first three conjuncts of LockInv.
LinkInv ==
  /\ dpc = "down" => toDev = <<>>
  /\ device.kind = "firehose" => dpc \in {"firehose", "powered", "dead", "down"}
  /\ \A m \in Range(toHost) : m.t = "EXECUTE_RESP" => device.kind # "firehose"

\* Nothing is sent to a device that has left the bus.
LEMMA SendDown ==
  ASSUME NEW s, SendAll(s), dpc = "down", toDev = <<>>
  PROVE  toDev' = <<>>
BY DEF SendAll, Up

LEMMA LinkHost == TypeOK /\ LockInv /\ Host => LinkInv'
<1> SUFFICES ASSUME TypeOK, LockInv, Host PROVE LinkInv'
  OBVIOUS
<1>1. UNCHANGED <<dpc, device>> /\ Range(toHost') \subseteq Range(toHost)
  BY HostRest DEF setup
<1>2. (\E s : SendAll(s)) \/ toDev' = toDev
  BY DEF Host, FirstReadEmpty, FirstRead, Prodded, Power, Ready, ExecResp, ExecData, ResetSent,
         Verify, ResetNow, FallBack, NextItem, Resend
<1>3. dpc = "down" => toDev' = <<>>
  BY <1>2, SendDown DEF LockInv
<1> QED
  BY <1>1, <1>3 DEF LockInv, LinkInv

\* What DevTake says, in the cases that matter.
LEMMA TakeSays ==
  ASSUME TypeOK, DevTake
  PROVE  /\ UNCHANGED <<device, run, hpc, nth, item, version, got, late>>
         /\ dpc \notin {"start", "load", "table", "down"}
         /\ \/ toHost' = toHost
            \/ \E m \in FromDevice :
                 /\ Say(m) /\ m.t # "HELLO" /\ dpc \notin {"dead", "resetting", "powered"}
                 /\ m.t = "EXECUTE_RESP" => dpc = "command"
                 /\ Head(toDev).t = "EXECUTE_DATA" /\ dpc # "firehose" =>
                      m.t = "zlp" \/ (m.t = "data" /\ m.c = Head(toDev).c)
         /\ \/ dpc' = dpc
            \/ dpc = "firehose" /\ dpc' = "powered"
            \/ dpc # "firehose" /\ Head(toDev).t = "RESET" /\ dpc' \in {"dead", "resetting"}
            \/ dpc = "hello" /\ Head(toDev).t = "HELLO_RESP" /\ dpc' \in {"command", "failed"}
            \/ /\ dpc = "hello" /\ Head(toDev).t = "HELLO_RESP" /\ Head(toDev).mode # "command"
               /\ dpc' \in {"table", "load"}
            \/ dpc = "command" /\ Head(toDev).t = "SWITCH_MODE" /\ dpc' = "start"
<1>1. UNCHANGED <<device, run, hpc, nth, item, version, got, late>> /\ device \in Devices
      /\ dpc \notin {"start", "load", "table", "down"}
  BY DEF DevTake, devRest, setup, hostVars, TypeOK
<1>2. /\ [t |-> "ack"] \in FromDevice /\ [t |-> "xml"] \in FromDevice
      /\ [t |-> "CMD_READY"] \in FromDevice /\ [t |-> "END_OF_IMAGE"] \in FromDevice
      /\ [t |-> "RESET_RESP"] \in FromDevice /\ [t |-> "zlp"] \in FromDevice
  BY <1>1, SaidTypes
<1>3. Head(toDev) \in ToDevice
  BY TakeRange
<1>4. CASE dpc \in {"dead", "resetting", "powered", "firehose"}
  BY <1>1, <1>2, <1>4 DEF DevTake
<1>5. CASE dpc \notin {"dead", "resetting", "powered", "firehose"}
  <2>1. CASE Head(toDev).t = "RESET"
    BY <1>1, <1>2, <1>5, <2>1 DEF DevTake, DevReset
  <2>2. CASE Head(toDev).t = "HELLO_RESP"
    BY <1>1, <1>2, <1>5, <2>2 DEF DevTake
  <2>3. CASE Head(toDev).t \in {"EXECUTE", "EXECUTE_DATA"}
    <3>1. Head(toDev).c \in AllClient
      BY <1>3, <2>3 DEF ToDevice
    <3>2. dpc' = dpc
      BY <1>5, <2>3 DEF DevTake
    <3>3. /\ [t |-> "data", c |-> Head(toDev).c] \in FromDevice
          /\ [t |-> "EXECUTE_RESP", c |-> Head(toDev).c, len |-> 0] \in FromDevice
          /\ [t |-> "EXECUTE_RESP", c |-> Head(toDev).c, len |-> 1] \in FromDevice
      BY <1>1, <3>1, SaidTypes
    <3>4. CASE dpc # "command"
      BY <1>1, <1>5, <2>3, <3>4 DEF DevTake
    <3>5. CASE dpc = "command" /\ Head(toDev).t = "EXECUTE"
      BY <1>1, <1>2, <1>5, <3>2, <3>3, <3>5 DEF DevTake, DevExecute
    <3>6. CASE dpc = "command" /\ Head(toDev).t = "EXECUTE_DATA"
      <4>1. DevExecute(Head(toDev))
        BY <1>5, <3>6 DEF DevTake
      <4>2. \/ Say([t |-> "data", c |-> Head(toDev).c])
            \/ toHost' = toHost
            \/ Say([t |-> "zlp"])
        BY <3>6, <4>1 DEF DevExecute, Say
      <4> QED
        BY <1>1, <1>2, <3>2, <3>3, <3>6, <4>2
    <3> QED
      BY <2>3, <3>4, <3>5, <3>6
  <2>4. CASE Head(toDev).t \notin {"RESET", "HELLO_RESP", "EXECUTE", "EXECUTE_DATA"}
    BY <1>1, <1>5, <2>4 DEF DevTake
  <2> QED
    BY <2>1, <2>2, <2>3, <2>4
<1> QED
  BY <1>4, <1>5

LEMMA LockTake == TypeOK /\ ProgInv /\ LockInv /\ DevTake => LockInv'
<1> SUFFICES ASSUME TypeOK, ProgInv, LockInv, DevTake PROVE LockInv'
  OBVIOUS
<1>1. /\ Head(toDev) \in Range(toDev) /\ Range(toDev') \subseteq Range(toDev)
      /\ Len(toDev') = Len(toDev) - 1 /\ Len(toDev) > 0 /\ Len(toDev) \in Nat
      /\ toDev # <<>> /\ (Len(toDev') = 0 => toDev' = <<>>)
      /\ toHost \in Seq(FromDevice) /\ Len(toHost) \in Nat
  <2>1. toDev \in Seq(ToDevice) /\ toDev # <<>> /\ toDev' = Tail(toDev) /\ toHost \in Seq(FromDevice)
    BY DEF TypeOK, DevTake
  <2>2. Len(toDev') = 0 => toDev' = <<>>
    BY <2>1
  <2> QED
    BY <2>1, <2>2, TakeRange
<1>2. /\ UNCHANGED <<device, run, hpc, nth, item, version, got, late, Cmd, ClientCmds>>
      /\ dpc # "down" /\ dpc \notin Busy
  BY TakeSays DEF Busy, Cmd, ClientCmds
<1>3. \A m \in FromDevice : Say(m) =>
         Range(toHost') = Range(toHost) \cup {m} /\ Len(toHost') = Len(toHost) + 1
  BY <1>1, SayRange DEF Say
<1>4. LinkInv'
  <2>1. \A m \in Range(toHost') : m.t = "EXECUTE_RESP" => device.kind # "firehose"
    BY <1>3, TakeSays DEF LockInv
  <2>2. dpc' # "down" /\ (device.kind = "firehose" => dpc' \in {"firehose", "powered", "dead"})
    <3>1. dpc' = dpc \/ dpc' \in {"powered", "dead", "resetting", "command", "failed", "table",
                                    "load", "start"}
      BY TakeSays
    <3>2. dpc = "firehose" => dpc' \in {"firehose", "powered"}
      BY TakeSays
    <3>3. dpc \in {"powered", "dead"} => dpc' \in {"powered", "dead"}
      BY DEF DevTake
    <3> QED
      BY <1>2, <3>1, <3>2, <3>3 DEF LockInv
  <2> QED
    BY <1>2, <2>1, <2>2 DEF LinkInv
<1>5. ASSUME late' = 0 PROVE Calm'
  <2>1. Calm
    BY <1>2, <1>5 DEF LockInv
  <2>2. \A m \in Range(toHost') : m.t # "HELLO"
    BY <1>1, <1>3, <2>1, TakeSays DEF Calm
  <2>3. CASE Head(toDev).t = "SWITCH_MODE"
    <3>1. Len(toDev) = 1 /\ toHost = <<>> /\ hpc \in {"first", "end"}
      BY <1>1, <2>1, <2>3 DEF Calm
    <3>2. toDev' = <<>> /\ Range(toDev') = {}
      BY <1>1, <3>1 DEF Range
    <3>3. dpc' = "start" => toHost' = <<>>
      BY <1>2, <2>3, <3>1 DEF DevTake, Busy
    <3> QED
      BY <1>2, <2>1, <2>2, <3>1, <3>2, <3>3 DEF Calm
  <2>4. CASE Head(toDev).t # "SWITCH_MODE"
    <3>1. dpc' # "start"
      BY <1>2, <2>4, TakeSays DEF Busy
    <3>2. \A m \in Range(toDev) : m.t # "SWITCH_MODE"
      <4>1. toDev \in Seq(ToDevice)
        BY DEF TypeOK
      <4>2. Len(toDev) = 1 => Range(toDev) = {Head(toDev)}
        BY <1>1, <4>1 DEF Range
      <4> QED
        BY <2>1, <2>4, <4>2 DEF Calm
    <3>3. ASSUME OneOut,
                 Head(toDev).t = "HELLO_RESP" => Head(toDev).mode = "command"
          PROVE  OneOut'
      <4>1. Len(toDev) = 1 /\ Len(toHost) = 0 /\ Len(toDev') = 0
        BY <1>1, <3>3 DEF OneOut
      <4>2. Len(toHost') \in {0, 1}
        BY <1>3, <4>1, TakeSays
      <4>3. dpc' \notin Busy
        BY <1>2, <2>4, <3>3, TakeSays DEF Busy
      <4> QED
        BY <4>1, <4>2, <4>3 DEF OneOut
    <3>4. hpc = "ready" /\ Cmd # "reset" => OneOut' /\ \A m \in Range(toDev') : IsCommandMode(m)
      BY <1>1, <2>1, <3>3 DEF Calm, IsCommandMode
    <3>5. hpc = "exec" => OneOut' /\ \A m \in Range(toDev') : IsExecute(m)
      BY <1>1, <2>1, <3>3 DEF Calm, IsExecute
    <3>6. ASSUME hpc = "payload"
          PROVE  /\ OneOut' /\ \A m \in Range(toDev') : IsDataRequest(m)
                 /\ device.kind # "firehose"
                 /\ \A m \in Range(toHost') :
                      m.t = "zlp" \/ (m.t = "data" /\ m.c = ClientCmds[item])
      <4>1. OneOut /\ IsDataRequest(Head(toDev)) /\ device.kind # "firehose"
        BY <1>1, <2>1, <3>6 DEF Calm
      <4>2. dpc # "firehose"
        BY <4>1 DEF ProgInv
      <4>3. \A m \in Range(toHost') :
              m.t = "zlp" \/ (m.t = "data" /\ m.c = ClientCmds[item])
        BY <1>3, <2>1, <3>6, <4>1, <4>2, TakeSays DEF Calm, IsDataRequest
      <4> QED
        BY <1>1, <2>1, <3>3, <3>6, <4>1, <4>3 DEF Calm, IsDataRequest
    <3> QED
      BY <1>1, <1>2, <2>1, <2>2, <3>1, <3>2, <3>4, <3>5, <3>6
         DEF Calm, IsCommandMode, IsExecute, IsDataRequest
  <2> QED
    BY <2>3, <2>4
<1> QED
  BY <1>4, <1>5 DEF LinkInv, LockInv

LEMMA LockDevice == TypeOK /\ LockInv /\ (DevHello \/ DevAsk \/ DevDown \/ DevGone \/ DevHang) => LockInv'
<1> SUFFICES ASSUME TypeOK, LockInv, DevHello \/ DevAsk \/ DevDown \/ DevGone \/ DevHang
             PROVE  LockInv'
  OBVIOUS
<1>1. UNCHANGED <<device, run, hpc, nth, item, version, got, late, Cmd, ClientCmds>>
  <2>1. UNCHANGED <<device, run, hpc, nth, item, version, got, late>>
    BY DEF DevHello, DevAsk, DevDown, DevGone, DevHang, devRest, setup, hostVars
  <2> QED
    BY <2>1 DEF Cmd, ClientCmds
<1>2. device \in Devices /\ toHost \in Seq(FromDevice) /\ toDev \in Seq(ToDevice)
      /\ Range(<<>>) = {} /\ Len(<<>>) = 0
  BY DEF TypeOK, Range
<1>3. CASE DevHello
  <2>1. \E m \in FromDevice : m.t = "HELLO" /\ (Say(m) \/ toHost' = toHost)
    BY <1>2, <1>3, SaidTypes DEF DevHello
  <2>2. \A m \in FromDevice : m.t = "HELLO" /\ Say(m) => Range(toHost') = Range(toHost) \cup {m}
    BY SayRange
  <2>3. dpc = "start" /\ dpc' = "hello" /\ toDev' = toDev
    BY <1>3 DEF DevHello
  <2>4. toHost = <<>> /\ (\E m \in FromDevice : Say(m)) => Len(toHost') = 1
    BY DEF Say
  <2>5. Calm => Calm'
    <3>1. ASSUME Calm PROVE toDev = <<>> /\ toHost = <<>> /\ hpc \in {"first", "end"}
                            /\ Range(toDev') = {}
      BY <1>2, <2>3, <3>1 DEF Calm
    <3>2. toHost = <<>> => \A m \in Range(toHost') : m.t = "HELLO" /\ Len(toHost') = 1
      BY <1>2, <2>1, <2>2, <2>4
    <3> QED
      BY <1>1, <2>3, <3>1, <3>2 DEF Calm
  <2>6. LinkInv'
    BY <1>1, <2>1, <2>2, <2>3 DEF LockInv, LinkInv
  <2> QED
    BY <1>1, <2>5, <2>6 DEF LockInv, LinkInv
<1>4. CASE DevAsk
  <2>1. \E m \in FromDevice : m.t \in {"READ_DATA", "MEM_DEBUG64"} /\ Say(m)
    BY <1>2, <1>4, SaidTypes DEF DevAsk
  <2>2. \A m \in FromDevice : Say(m) => Range(toHost') = Range(toHost) \cup {m}
    BY SayRange
  <2>3. dpc \in {"load", "table"} /\ dpc' \in {"image", "debug"} /\ toDev' = toDev
    BY <1>4 DEF DevAsk
  <2> QED
    BY <1>1, <1>2, <2>1, <2>2, <2>3 DEF LockInv, Calm, OneOut, Busy
<1>5. CASE DevDown \/ DevGone
  <2>1. dpc' = "down" /\ toDev' = <<>> /\ toHost' \in {toHost, <<>>} /\ Range(toHost') \subseteq Range(toHost)
    BY <1>2, <1>5 DEF DevDown, DevGone
  <2>2. Range(toDev') = {} /\ Len(toDev') = 0 /\ Len(toHost') <= Len(toHost) /\ Len(toHost) \in Nat
        /\ Len(toDev) \in Nat /\ Len(toHost') \in Nat
    BY <1>2, <2>1
  <2>3. OneOut => OneOut'
    BY <2>1, <2>2 DEF OneOut, Busy
  <2>4. \A m \in Range(toHost') : toHost' = toHost
    BY <1>2, <2>1
  <2> QED
    BY <1>1, <2>1, <2>2, <2>3, <2>4 DEF LockInv, Calm
<1>6. CASE DevHang
  <2>1. dpc' = "dead" /\ UNCHANGED <<toDev, toHost>> /\ dpc # "down"
    BY <1>6 DEF DevHang
  <2>2. OneOut => OneOut'
    BY <2>1 DEF OneOut, Busy
  <2> QED
    BY <1>1, <2>1, <2>2 DEF LockInv, Calm, Busy, IsDataRequest
<1> QED
  BY <1>3, <1>4, <1>5, <1>6

LEMMA LockStep == TypeOK /\ ProgInv /\ LockInv /\ [Next]_vars => LockInv'
<1> SUFFICES ASSUME TypeOK, ProgInv, LockInv, [Next]_vars PROVE LockInv'
  OBVIOUS
<1>1. CASE Host
  BY <1>1, LinkHost, CalmHost DEF LockInv, LinkInv
<1>2. CASE Device \/ DevGone \/ DevHang
  BY <1>2, LockTake, LockDevice DEF Device
<1>3. CASE Done \/ UNCHANGED vars
  BY <1>3 DEF Done, vars, setup, hostVars, counters, LockInv, Calm, OneOut, IsDataRequest,
              ClientCmds, Cmd
<1> QED
  BY <1>1, <1>2, <1>3 DEF Next

LEMMA LockInvariant == Spec => []LockInv
BY LockInit, LockStep, ProgInvariant, PTL DEF Spec

\* What is shown as the answer to a client command is the device's answer to it.
THEOREM IdentitiesMatch == Spec => []IdentityMatches
<1>1. LockInv => IdentityMatches
  BY DEF LockInv, Calm, IdentityMatches
<1> QED
  BY <1>1, LockInvariant, PTL

-----------------------------------------------------------------------------
(* Success.  Undisturbed, the host and a device that can serve it pass     *)
(* through few states together; they are listed here, per kind of device.  *)

Hello(m)   == [t |-> "HELLO", v |-> device.version, mode |-> m]
Packet(t)  == [t |-> t]

\* The state of the link: where the device is, what is on its way to it and back.
LinkIs(d, out, in) == dpc = d /\ toDev = out /\ toHost = in

\* A device in EDL mode that knows command mode.
EdlStates ==
  \/ /\ hpc = "first"
     /\ \/ LinkIs("start", <<>>, <<>>)
        \/ LinkIs("hello", <<>>, <<Hello("image")>>)
        \/ LinkIs("command", <<SwitchMode>>, <<>>)
  \/ /\ hpc = "ready"
     /\ \/ LinkIs("hello", <<HelloResp(version, "command")>>, <<>>)
        \/ LinkIs("command", <<>>, <<Packet("CMD_READY")>>)
  \/ /\ hpc = "exec" /\ Cmd = "chipinfo" /\ (item > 1 => DOMAIN got # {})
     /\ \/ LinkIs("command", <<Execute(item)>>, <<>>)
        \/ LinkIs("command", <<>>, <<[t |-> "EXECUTE_RESP", c |-> ClientCmds[item], len |-> 1]>>)
  \/ /\ hpc = "payload" /\ Cmd = "chipinfo"
     /\ \/ LinkIs("command", <<[t |-> "EXECUTE_DATA", c |-> ClientCmds[item]]>>, <<>>)
        \/ LinkIs("command", <<>>, <<[t |-> "data", c |-> ClientCmds[item]]>>)
  \/ /\ hpc = "resent" /\ Cmd = "reset"
     /\ \/ LinkIs("command", <<Reset>>, <<>>)
        \/ LinkIs("resetting", <<>>, <<Packet("RESET_RESP")>>)
        \/ LinkIs("down", <<>>, <<>>) \/ LinkIs("down", <<>>, <<Packet("RESET_RESP")>>)
  \/ /\ hpc = "verify" /\ Cmd = "reset"
     /\ LinkIs("resetting", <<>>, <<>>) \/ LinkIs("down", <<>>, <<>>)
  \/ hpc = "end"

EdlInv ==
  /\ hpc \in {"ready", "exec", "payload"} => version = device.version
  /\ EdlStates

\* A crashed device, whose first packet may cross a reset.
CrashedStates ==
  \/ /\ hpc = "first"
     /\ LinkIs("start", <<>>, <<>>) \/ LinkIs("hello", <<>>, <<Hello("debug")>>)
  \/ /\ hpc = "resent" /\ tries = 1
     /\ \/ LinkIs("hello", <<HelloResp(device.version, "debug"), Reset>>, <<>>)
        \/ LinkIs("table", <<Reset>>, <<>>)
        \/ LinkIs("debug", <<Reset>>, <<Packet("MEM_DEBUG64")>>)
        \/ LinkIs("resetting", <<>>, <<Packet("MEM_DEBUG64"), Packet("RESET_RESP")>>)
        \/ LinkIs("down", <<>>, <<Packet("MEM_DEBUG64"), Packet("RESET_RESP")>>)
        \/ LinkIs("down", <<>>, <<>>)
  \/ /\ hpc = "resent" /\ tries = 2
     /\ \/ LinkIs("debug", <<Reset, Reset>>, <<>>)
        \/ LinkIs("resetting", <<Reset>>, <<Packet("RESET_RESP")>>)
        \/ LinkIs("resetting", <<>>, <<Packet("RESET_RESP")>>)
        \/ LinkIs("down", <<>>, <<Packet("RESET_RESP")>>)
        \/ LinkIs("down", <<>>, <<>>)
  \/ hpc = "verify" /\ dpc \in {"resetting", "down"} /\ toHost = <<>>
  \/ hpc = "end"

\* A programmer, which may have said something before.
ProgrammerStates ==
  \/ /\ hpc = "first"
     /\ LinkIs("firehose", <<>>, <<>>) \/ LinkIs("firehose", <<>>, <<Packet("xml")>>)
  \/ /\ hpc = "prodded" /\ Cmd = "reset"
     /\ \/ LinkIs("firehose", <<HelloResp(2, "image")>>, <<>>)
        \/ LinkIs("firehose", <<>>, <<Packet("xml")>>)
  \/ /\ hpc = "power" /\ Cmd = "reset"
     /\ \/ LinkIs("firehose", <<Packet("POWER")>>, <<>>)
        \/ LinkIs("powered", <<>>, <<Packet("ack")>>)
  \/ hpc = "end"

Expected(i) == IF run[i] = "chipinfo" /\ device.kind = "firehose" THEN -1 ELSE 0

AllRight == \A i \in DOMAIN rets : rets[i] = Expected(i)

Fit ==
  /\ Undisturbed /\ transport = "usb" /\ ~device.tears
  /\ \/ device.kind = "edl" /\ device.command
     \/ device.kind = "crashed" /\ run = <<"reset">>
     \/ device.kind = "firehose"

SuccInv ==
  Fit =>
    /\ device.kind = "edl" => EdlInv
    /\ device.kind = "crashed" => CrashedStates
    /\ device.kind = "firehose" => ProgrammerStates
    /\ AllRight

\* Queues of one or two packets.
LEMMA One ==
  ASSUME NEW a
  PROVE  /\ <<a>> # <<>> /\ Head(<<a>>) = a /\ Tail(<<a>>) = <<>>
         /\ Append(<<>>, a) = <<a>> /\ <<>> \o <<a>> = <<a>>
<1>1. <<a>> \in Seq({a}) /\ <<>> \in Seq({a})
  OBVIOUS
<1>2. Tail(<<a>>) = <<>>
  BY <1>1
<1>3. Append(<<>>, a) = <<a>>
  BY <1>1
<1>4. <<>> \o <<a>> = <<a>>
  BY <1>1
<1>5. <<a>> # <<>> /\ Head(<<a>>) = a
  OBVIOUS
<1> QED
  BY <1>2, <1>3, <1>4, <1>5

LEMMA Two ==
  ASSUME NEW a, NEW b
  PROVE  /\ <<a, b>> # <<>> /\ Head(<<a, b>>) = a /\ Tail(<<a, b>>) = <<b>>
         /\ Append(<<a>>, b) = <<a, b>> /\ <<>> \o <<a, b>> = <<a, b>>
         /\ <<a>> \o <<b>> = <<a, b>>
<1>1. <<a>> \in Seq({a, b}) /\ <<>> \in Seq({a, b}) /\ <<a, b>> \in Seq({a, b}) /\ <<b>> \in Seq({a, b})
  OBVIOUS
<1>2. Tail(<<a, b>>) = <<b>>
  BY <1>1
<1>3. Append(<<a>>, b) = <<a, b>>
  <2>1. /\ Append(<<a>>, b) \in Seq({a, b}) /\ Len(Append(<<a>>, b)) = 2
        /\ Append(<<a>>, b)[1] = a /\ Append(<<a>>, b)[2] = b
    BY <1>1
  <2>2. Len(<<a, b>>) = 2 /\ <<a, b>>[1] = a /\ <<a, b>>[2] = b
    OBVIOUS
  <2>3. \A i \in 1 .. 2 : Append(<<a>>, b)[i] = <<a, b>>[i]
    BY <2>1, <2>2
  <2> QED
    BY <1>1, <2>1, <2>2, <2>3, SeqEqual
<1>4. <<>> \o <<a, b>> = <<a, b>>
  BY <1>1
<1>5. <<a, b>> # <<>> /\ Head(<<a, b>>) = a
  OBVIOUS
<1>6. <<a>> \o <<b>> = <<a, b>>
  BY <1>1, <1>3, AppendIsConcat
<1> QED
  BY <1>2, <1>3, <1>4, <1>5, <1>6

LEMMA SuccInit == Init => SuccInv
<1> SUFFICES ASSUME Init, Fit PROVE SuccInv
  BY DEF SuccInv
<1> QED
  BY DEF Init, SuccInv, EdlInv, EdlStates, CrashedStates, ProgrammerStates, LinkIs, Packet,
         AllRight

\* A result that is as expected.
LEMMA RightResult ==
  ASSUME TypeOK, NEW r \in {-1, 0}, Return(r), r = Expected(nth), UNCHANGED <<run, device>>,
         AllRight
  PROVE  AllRight'
<1>1. rets' = Append(rets, r) /\ rets \in Seq({-1, 0}) /\ Len(rets) = nth - 1 /\ nth \in Nat
  BY DEF Return, TypeOK
<1>2. \A i \in DOMAIN rets' : i \in DOMAIN rets \/ i = nth
  BY <1>1
<1>3. rets'[nth] = r /\ \A i \in DOMAIN rets : rets'[i] = rets[i]
  BY <1>1
<1>4. \A i : Expected(i)' = Expected(i)
  BY DEF Expected
<1> QED
  BY <1>2, <1>3, <1>4 DEF AllRight

\* No result, or none yet.
LEMMA SameResults ==
  ASSUME AllRight, UNCHANGED <<rets, run, device>>
  PROVE  AllRight'
BY DEF AllRight, Expected

\* Reading from a link with one packet, or two; sending on an idle one.
LEMMA GotOne ==
  ASSUME NEW a, toHost = <<a>>, Got
  PROVE  Read = a /\ toHost' = <<>>
BY One DEF Got, Read

LEMMA GotTwo ==
  ASSUME NEW a, NEW b, toHost = <<a, b>>, Got
  PROVE  Read = a /\ toHost' = <<b>>
BY Two DEF Got, Read

LEMMA SendOne ==
  ASSUME NEW a, toDev = <<>>, SendAll(<<a>>)
  PROVE  toDev' = IF Up THEN <<a>> ELSE <<>>
BY One DEF SendAll

\* A step of the host in a fit state: what it can read, and when it cannot but read.
LEMMA FitHost ==
  ASSUME TypeOK, Host, Fit'
  PROVE  /\ Fit /\ UNCHANGED <<setup, dpc, bad, gone>>
         /\ Got \/ TimesOut \/ ReadFails
         /\ TimesOut => toHost = <<>> /\ DeviceWaits /\ Up /\ UNCHANGED <<toHost>>
         /\ ReadFails => toHost = <<>> /\ ~Up /\ UNCHANGED <<toHost>>
<1>1. UNCHANGED <<setup, dpc, bad, gone>> /\ late' \in {late, late + 1}
  BY HostRest
<1>2. late = 0 /\ late' = 0
  BY <1>1 DEF Fit, Undisturbed, TypeOK
<1>3. Fit
  BY <1>1, <1>2 DEF Fit, Undisturbed, setup
<1>4. Got \/ TimesOut \/ ReadFails
  BY DEF Host, FirstReadEmpty, FirstRead, Prodded, Power, Ready, ExecResp, ExecData, ResetSent,
         Verify
<1> QED
  BY <1>1, <1>2, <1>3, <1>4 DEF TimesOut, ReadFails

LEMMA EdlHost ==
  ASSUME TypeOK, SuccInv, Host, Fit', device.kind = "edl"
  PROVE  EdlInv' /\ AllRight'
<1>1. /\ Fit /\ UNCHANGED <<device, run, dpc, bad, gone>>
      /\ Got \/ TimesOut \/ ReadFails
      /\ TimesOut => toHost = <<>> /\ DeviceWaits /\ Up /\ UNCHANGED <<toHost>>
      /\ ReadFails => toHost = <<>> /\ ~Up /\ UNCHANGED <<toHost>>
  BY FitHost DEF setup
<1>2. EdlInv /\ AllRight
  BY <1>1 DEF SuccInv
<1>3. rets' = rets => AllRight'
  BY <1>1, <1>2, SameResults
<1>4. Got => toHost # <<>>
  BY DEF Got
<1>5. (ReadFails => dpc = "down") /\ (dpc = "down" <=> ~Up)
  BY DEF ReadFails, Up
<1>6. CASE hpc = "first"
  <2>1. ~TimesOut /\ ~ReadFails
    BY <1>1, <1>2, <1>5, <1>6, One DEF EdlInv, EdlStates, LinkIs, DeviceWaits
  <2>2. FirstRead
    BY <1>6, <2>1 DEF Host, FirstReadEmpty, Prodded, Power, Ready, ExecResp, ExecData, ResetSent,
                      Verify
  <2>3. LinkIs("hello", <<>>, <<Hello("image")>>) /\ Got
    BY <1>1, <1>2, <1>4, <1>6, <2>1 DEF EdlInv, EdlStates, LinkIs
  <2>4. Read = Hello("image") /\ toHost' = <<>>
    BY <2>3, GotOne DEF LinkIs
  <2>5. Read.t = "HELLO" /\ Read.v = device.version /\ Read.mode = "image"
    BY <2>4 DEF Hello
  <2>6. /\ version' = device.version /\ SendAll(<<HelloResp(device.version, "command")>>)
        /\ Goto("ready")
    BY <2>2, <2>5 DEF FirstRead, ModeFor, HelloResp
  <2>7. toDev' = <<HelloResp(device.version, "command")>>
    BY <2>3, <2>6, SendOne DEF LinkIs, Up
  <2>8. HelloResp(version, "command")' = HelloResp(device.version, "command")
    BY <1>1, <2>6 DEF HelloResp
  <2> QED
    BY <1>1, <1>3, <2>3, <2>4, <2>6, <2>7, <2>8 DEF EdlInv, EdlStates, LinkIs, Goto
<1>7. CASE hpc = "ready"
  <2>1. ~TimesOut /\ ~ReadFails
    BY <1>1, <1>2, <1>5, <1>7, One DEF EdlInv, EdlStates, LinkIs, DeviceWaits
  <2>2. Ready
    BY <1>7 DEF Host, FirstReadEmpty, FirstRead, Prodded, Power, ExecResp, ExecData, ResetSent,
                Verify
  <2>3. LinkIs("command", <<>>, <<Packet("CMD_READY")>>) /\ Got
    BY <1>1, <1>2, <1>4, <1>7, <2>1 DEF EdlInv, EdlStates, LinkIs
  <2>4. Read = Packet("CMD_READY") /\ toHost' = <<>> /\ Read.t = "CMD_READY"
    BY <2>3, GotOne DEF LinkIs, Packet
  <2>5. version' = version /\ version = device.version
    BY <1>2, <1>7, <2>2 DEF Ready, EdlInv
  <2>6. CASE Cmd = "reset"
    <3>1. ResetNow /\ Cmd' = Cmd
      BY <1>1, <2>1, <2>2, <2>6 DEF Ready, ResetNow, Goto, Cmd
    <3>2. toDev' = <<Reset>> /\ hpc' = "resent" /\ rets' = rets
      BY <2>3, <3>1, SendOne DEF LinkIs, Up, ResetNow, Goto
    <3> QED
      BY <1>1, <1>3, <2>3, <2>4, <2>6, <3>1, <3>2 DEF EdlInv, EdlStates, LinkIs, Reset
  <2>7. CASE Cmd # "reset"
    <3>1. item' = 1 /\ SendAll(<<Execute(1)>>) /\ Goto("exec")
      BY <2>1, <2>2, <2>4, <2>7 DEF Ready
    <3>2. Cmd' = "chipinfo"
      BY <1>1, <1>7, <2>7, <3>1, SaharaCommandsAssumption DEF TypeOK, Cmd, Goto
    <3>3. toDev' = <<Execute(1)>> /\ hpc' = "exec" /\ rets' = rets
      BY <2>3, <3>1, SendOne DEF LinkIs, Up, Goto
    <3>4. Execute(item)' = Execute(1)
      BY <2>5, <3>1 DEF Execute, ClientCmds
    <3> QED
      BY <1>1, <1>3, <2>3, <2>4, <2>5, <3>1, <3>2, <3>3, <3>4 DEF EdlInv, EdlStates, LinkIs
  <2> QED
    BY <2>6, <2>7
<1>8. ASSUME NEW g, NextItem(g), DOMAIN g # {}, hpc \in {"exec", "payload"}, toHost' = <<>>,
             UNCHANGED version, toDev = <<>>, dpc = "command", got' = g
      PROVE  EdlInv' /\ AllRight'
  <2>1. Cmd = "chipinfo" /\ version = device.version /\ item \in 1 .. 3
    BY <1>2, <1>8 DEF EdlInv, EdlStates, TypeOK
  <2>2. CASE item < 3
    <3>1. toDev' = <<Execute(item + 1)>> /\ item' = item + 1 /\ hpc' = "exec" /\ rets' = rets
          /\ nth' = nth
      BY <1>8, <2>2, SendOne DEF NextItem, Goto, Up
    <3>2. Execute(item)' = Execute(item + 1) /\ Cmd' = Cmd
      BY <1>1, <1>8, <3>1 DEF Execute, ClientCmds, Cmd
    <3> QED
      BY <1>1, <1>3, <1>8, <2>1, <3>1, <3>2 DEF EdlInv, EdlStates, LinkIs
  <2>3. CASE ~(item < 3)
    <3>1. SendAll(<<SwitchMode>>) /\ Return(0)
      BY <1>8, <2>3 DEF NextItem
    <3>2. toDev' = <<SwitchMode>>
      BY <1>8, <3>1, SendOne DEF Up
    <3>3. Expected(nth) = 0 /\ hpc' \in {"first", "end"}
      BY <1>1, <2>1, <3>1 DEF Expected, Cmd, Return
    <3>4. AllRight'
      BY <1>1, <1>2, <3>1, <3>3, RightResult
    <3> QED
      BY <1>1, <1>8, <3>2, <3>3, <3>4 DEF EdlInv, EdlStates, LinkIs, SwitchMode
  <2> QED
    BY <2>2, <2>3
<1>9. CASE hpc = "exec"
  <2>1. ~TimesOut /\ ~ReadFails
    BY <1>1, <1>2, <1>5, <1>9, One DEF EdlInv, EdlStates, LinkIs, DeviceWaits
  <2>2. ExecResp
    BY <1>9 DEF Host, FirstReadEmpty, FirstRead, Prodded, Power, Ready, ExecData, ResetSent,
                Verify
  <2>3. /\ LinkIs("command", <<>>, <<[t |-> "EXECUTE_RESP", c |-> ClientCmds[item], len |-> 1]>>)
        /\ Got
    BY <1>1, <1>2, <1>4, <1>9, <2>1 DEF EdlInv, EdlStates, LinkIs
  <2>4. Read = [t |-> "EXECUTE_RESP", c |-> ClientCmds[item], len |-> 1] /\ toHost' = <<>>
    BY <2>3, GotOne DEF LinkIs
  <2>5. GoodLength(Read) /\ Up /\ UNCHANGED <<version, got>> /\ version = device.version
        /\ Cmd = "chipinfo"
    BY <1>2, <1>9, <2>2, <2>3, <2>4 DEF GoodLength, LinkIs, Up, ExecResp, EdlInv, EdlStates
  <2>6. /\ SendAll(<<[t |-> "EXECUTE_DATA", c |-> ClientCmds[item]]>>)
        /\ Goto("payload") /\ UNCHANGED item
    BY <2>1, <2>2, <2>5 DEF ExecResp
  <2>7. toDev' = <<[t |-> "EXECUTE_DATA", c |-> ClientCmds[item]]>>
    BY <2>3, <2>5, <2>6, SendOne DEF LinkIs
  <2>8. ClientCmds' = ClientCmds /\ Cmd' = Cmd
    BY <1>1, <2>5, <2>6 DEF ClientCmds, Cmd, Goto
  <2> QED
    BY <1>1, <1>3, <2>3, <2>4, <2>5, <2>6, <2>7, <2>8 DEF EdlInv, EdlStates, LinkIs, Goto
<1>10. CASE hpc = "payload"
  <2>1. ~TimesOut /\ ~ReadFails
    BY <1>1, <1>2, <1>5, <1>10, One DEF EdlInv, EdlStates, LinkIs, DeviceWaits
  <2>2. ExecData
    BY <1>10 DEF Host, FirstReadEmpty, FirstRead, Prodded, Power, Ready, ExecResp, ResetSent,
                 Verify
  <2>3. LinkIs("command", <<>>, <<[t |-> "data", c |-> ClientCmds[item]]>>) /\ Got
    BY <1>1, <1>2, <1>4, <1>10, <2>1 DEF EdlInv, EdlStates, LinkIs
  <2>4. Read.t # "zlp" /\ toHost' = <<>>
    BY <2>3, GotOne DEF LinkIs
  <2>5. \E g : NextItem(g) /\ DOMAIN g # {} /\ got' = g
    BY <2>1, <2>2, <2>4 DEF ExecData
  <2>6. UNCHANGED version /\ toDev = <<>> /\ dpc = "command"
    BY <2>2, <2>3 DEF ExecData, LinkIs
  <2> QED
    BY <1>8, <1>10, <2>4, <2>5, <2>6
<1>11. CASE hpc = "resent"
  <2>1. ResetSent /\ Cmd = "reset" /\ ~TimesOut
    BY <1>1, <1>2, <1>11, One DEF Host, FirstReadEmpty, FirstRead, Prodded, Power, Ready, ExecResp,
                ExecData, Verify, EdlInv, EdlStates, LinkIs, DeviceWaits, Up
  <2>2. Got => Read = Packet("RESET_RESP") /\ toHost' = <<>> /\ dpc \in {"resetting", "down"}
               /\ toDev = <<>>
    BY <1>2, <1>4, <1>11, GotOne DEF EdlInv, EdlStates, LinkIs
  <2>3. ReadFails => toHost' = <<>> /\ dpc = "down" /\ toDev = <<>>
    BY <1>1, <1>2, <1>5, <1>11 DEF EdlInv, EdlStates, LinkIs
  <2>4. Goto("verify") /\ UNCHANGED toDev
    BY <2>1, <2>2 DEF ResetSent, Packet
  <2>5. Cmd' = "reset"
    BY <1>1, <2>1, <2>4 DEF Cmd, Goto
  <2> QED
    BY <1>1, <1>3, <2>1, <2>2, <2>3, <2>4, <2>5 DEF EdlInv, EdlStates, LinkIs, Goto
<1>12. CASE hpc = "verify"
  <2>1. Verify /\ Cmd = "reset" /\ ~TimesOut /\ ~Got
    BY <1>1, <1>2, <1>4, <1>12, One DEF Host, FirstReadEmpty, FirstRead, Prodded, Power, Ready, ExecResp,
                ExecData, ResetSent, EdlInv, EdlStates, LinkIs, DeviceWaits, Up
  <2>2. Return(0)
    BY <2>1 DEF Verify
  <2>3. Expected(nth) = 0 /\ hpc' = "end"
    BY <1>1, <2>1, <2>2 DEF Expected, Cmd, Return
  <2>4. AllRight'
    BY <1>1, <1>2, <2>2, <2>3, RightResult
  <2> QED
    BY <2>3, <2>4 DEF EdlInv, EdlStates
<1>13. CASE hpc \in {"prodded", "power", "end"}
  BY <1>2, <1>13 DEF EdlInv, EdlStates, Host, FirstReadEmpty, FirstRead, Prodded, Power, Ready,
                     ExecResp, ExecData, ResetSent, Verify
<1> QED
  BY <1>6, <1>7, <1>9, <1>10, <1>11, <1>12, <1>13 DEF TypeOK

\* A step of the device in a fit state: nothing goes wrong.
LEMMA FitDevice ==
  ASSUME TypeOK, Device \/ DevGone \/ DevHang, Fit'
  PROVE  /\ Fit /\ UNCHANGED <<setup, hostVars, late, bad, gone>>
         /\ UNCHANGED <<Cmd, ClientCmds>>
         /\ DevHello \/ DevAsk \/ DevTake \/ DevDown
<1>1. UNCHANGED <<setup, hostVars, late>>
  BY DEF Device, DevHello, DevAsk, DevTake, DevDown, DevGone, DevHang, devRest
<1>2. bad' = 0 /\ gone' = 0 /\ late' = 0
  BY DEF Fit, Undisturbed
<1>3. gone = 0 /\ Device
  <2>1. gone \in Nat
    BY DEF TypeOK
  <2>2. CASE Device
    BY <1>2, <2>2 DEF Device, DevHello, DevAsk, DevTake, DevDown
  <2>3. CASE DevGone \/ DevHang
    BY <1>2, <2>1, <2>3 DEF DevGone, DevHang
  <2> QED
    BY <2>2, <2>3
<1>4. bad = 0
  <2>1. bad \in Nat
    BY DEF TypeOK
  <2>2. bad' \in {bad, bad + 1}
    <3>1. CASE DevTake
      BY <3>1 DEF DevTake, DevExecute
    <3>2. CASE ~DevTake
      BY <1>3, <3>2 DEF Device, DevHello, DevAsk, DevDown
    <3> QED
      BY <3>1, <3>2
  <2> QED
    BY <1>2, <2>1, <2>2
<1>5. Fit
  BY <1>1, <1>2, <1>3, <1>4 DEF Fit, Undisturbed, setup
<1>6. UNCHANGED <<Cmd, ClientCmds>>
  BY <1>1 DEF Cmd, ClientCmds, setup, hostVars
<1> QED
  BY <1>1, <1>2, <1>3, <1>4, <1>5, <1>6 DEF Device

\* The device takes the only packet there is.
LEMMA TakeOne ==
  ASSUME NEW a, toDev = <<a>>, DevTake
  PROVE  Head(toDev) = a /\ toDev' = <<>>
BY One DEF DevTake

LEMMA SayOne ==
  ASSUME NEW a, toHost = <<>>, Say(a)
  PROVE  toHost' = <<a>>
BY One DEF Say

LEMMA EdlDevice ==
  ASSUME TypeOK, SuccInv, Device \/ DevGone \/ DevHang, Fit', device.kind = "edl"
  PROVE  EdlInv'
<1>1. /\ Fit /\ UNCHANGED <<hpc, version, item, got, tries, nth, device, bad>>
      /\ UNCHANGED <<Cmd, ClientCmds>>
      /\ DevHello \/ DevAsk \/ DevTake \/ DevDown
      /\ transport = "usb" /\ ~device.tears /\ device.command
  BY FitDevice DEF setup, hostVars, Fit
<1>2. EdlInv
  BY <1>1 DEF SuccInv
<1>3. /\ Execute(item)' = Execute(item)
      /\ HelloResp(version, "command")' = HelloResp(version, "command")
      /\ Hello("image")' = Hello("image")
  BY <1>1 DEF Execute, HelloResp, Hello
<1>4. CASE hpc = "end"
  BY <1>1, <1>2, <1>4 DEF EdlInv, EdlStates
<1>5. CASE hpc # "end" /\ DevHello
  <2>1. dpc = "start" /\ dpc' = "hello" /\ toDev' = toDev /\ Say(Hello("image"))
    BY <1>1, <1>5 DEF DevHello, Hello
  <2>2. hpc = "first" /\ toDev = <<>> /\ toHost = <<>>
    BY <1>2, <1>5, <2>1 DEF EdlInv, EdlStates, LinkIs
  <2> QED
    BY <1>1, <1>3, <2>1, <2>2, SayOne DEF EdlInv, EdlStates, LinkIs
<1>6. CASE hpc # "end" /\ DevAsk
  BY <1>2, <1>6 DEF EdlInv, EdlStates, LinkIs, DevAsk
<1>7. CASE hpc # "end" /\ DevDown
  <2>1. dpc = "resetting" /\ dpc' = "down" /\ toDev' = <<>> /\ toHost' \in {toHost, <<>>}
    BY <1>2, <1>7 DEF EdlInv, EdlStates, LinkIs, DevDown
  <2> QED
    BY <1>1, <1>2, <1>7, <2>1 DEF EdlInv, EdlStates, LinkIs
<1>8. CASE hpc # "end" /\ DevTake
  <2>1. CASE hpc = "first"
    <3>1. LinkIs("command", <<SwitchMode>>, <<>>)
      BY <1>2, <1>8, <2>1 DEF EdlInv, EdlStates, LinkIs, DevTake
    <3>2. Head(toDev) = SwitchMode /\ toDev' = <<>>
      BY <1>8, <3>1, TakeOne DEF LinkIs
    <3>3. dpc' = "start" /\ toHost' = toHost
      BY <1>8, <3>1, <3>2 DEF DevTake, LinkIs, SwitchMode
    <3> QED
      BY <1>1, <2>1, <3>1, <3>2, <3>3 DEF EdlInv, EdlStates, LinkIs
  <2>2. CASE hpc = "ready"
    <3>1. LinkIs("hello", <<HelloResp(version, "command")>>, <<>>)
      BY <1>2, <1>8, <2>2 DEF EdlInv, EdlStates, LinkIs, DevTake
    <3>2. Head(toDev) = HelloResp(version, "command") /\ toDev' = <<>>
      BY <1>8, <3>1, TakeOne DEF LinkIs
    <3>3. dpc' = "command" /\ Say(Packet("CMD_READY"))
      BY <1>1, <1>8, <3>1, <3>2 DEF DevTake, LinkIs, HelloResp, Packet
    <3> QED
      BY <1>1, <1>2, <2>2, <3>1, <3>2, <3>3, SayOne DEF EdlInv, EdlStates, LinkIs, Packet
  <2>3. CASE hpc \in {"exec", "payload"}
    <3>1. /\ version = device.version /\ item \in 1 .. 3
      BY <1>2, <2>3 DEF EdlInv, TypeOK
    <3>2. ClientCmds[item] \in Supported
      BY <3>1 DEF ClientCmds, Supported
    <3>3. ASSUME hpc = "exec"
          PROVE  LinkIs("command", <<>>, <<[t |-> "EXECUTE_RESP", c |-> ClientCmds[item], len |-> 1]>>)'
      <4>1. LinkIs("command", <<Execute(item)>>, <<>>)
        BY <1>2, <1>8, <3>3 DEF EdlInv, EdlStates, LinkIs, DevTake
      <4>2. Head(toDev) = Execute(item) /\ toDev' = <<>>
        BY <1>8, <4>1, TakeOne DEF LinkIs
      <4>3. Head(toDev).t = "EXECUTE" /\ Head(toDev).c = ClientCmds[item]
        BY <4>2 DEF Execute
      <4>4. DevExecute(Head(toDev)) /\ dpc' = dpc
        BY <1>8, <4>1, <4>3 DEF DevTake, LinkIs
      <4>5. Say([t |-> "EXECUTE_RESP", c |-> ClientCmds[item], len |-> 1])
        <5>1. bad \in Nat /\ bad' = bad
          BY <1>1 DEF TypeOK
        <5> QED
          BY <3>2, <4>3, <4>4, <5>1 DEF DevExecute
      <4> QED
        BY <1>1, <4>1, <4>2, <4>4, <4>5, SayOne DEF LinkIs
    <3>4. ASSUME hpc = "payload"
          PROVE  LinkIs("command", <<>>, <<[t |-> "data", c |-> ClientCmds[item]]>>)'
      <4>1. LinkIs("command", <<[t |-> "EXECUTE_DATA", c |-> ClientCmds[item]]>>, <<>>)
        BY <1>2, <1>8, <3>4 DEF EdlInv, EdlStates, LinkIs, DevTake
      <4>2. Head(toDev) = [t |-> "EXECUTE_DATA", c |-> ClientCmds[item]] /\ toDev' = <<>>
        BY <1>8, <4>1, TakeOne DEF LinkIs
      <4>3. Head(toDev).t = "EXECUTE_DATA" /\ Head(toDev).c = ClientCmds[item]
        BY <4>2
      <4>4. DevExecute(Head(toDev)) /\ dpc' = dpc
        BY <1>8, <4>1, <4>3 DEF DevTake, LinkIs
      <4>5. Say([t |-> "data", c |-> ClientCmds[item]])
        <5>1. bad \in Nat /\ bad' = bad
          BY <1>1 DEF TypeOK
        <5> QED
          BY <4>3, <4>4, <5>1 DEF DevExecute
      <4> QED
        BY <1>1, <4>1, <4>2, <4>4, <4>5, SayOne DEF LinkIs
    <3>5. Cmd = "chipinfo" /\ (item > 1 => hpc = "payload" \/ DOMAIN got # {})
      BY <1>2, <2>3 DEF EdlInv, EdlStates
    <3> QED
      BY <1>1, <2>3, <3>1, <3>3, <3>4, <3>5 DEF EdlInv, EdlStates
  <2>4. CASE hpc = "resent"
    <3>1. LinkIs("command", <<Reset>>, <<>>) /\ Cmd = "reset"
      BY <1>2, <1>8, <2>4 DEF EdlInv, EdlStates, LinkIs, DevTake
    <3>2. Head(toDev) = Reset /\ toDev' = <<>>
      BY <1>8, <3>1, TakeOne DEF LinkIs
    <3>3. DevReset
      BY <1>8, <3>1, <3>2 DEF DevTake, LinkIs, Reset
    <3>4. dpc' = "resetting" /\ Say(Packet("RESET_RESP"))
      BY <1>1, <3>1, <3>3 DEF DevReset, LinkIs, Packet
    <3> QED
      BY <1>1, <2>4, <3>1, <3>2, <3>4, SayOne DEF EdlInv, EdlStates, LinkIs, Packet
  <2>5. CASE hpc = "verify"
    BY <1>2, <1>8, <2>5 DEF EdlInv, EdlStates, LinkIs, DevTake
  <2> QED
    BY <1>2, <1>8, <2>1, <2>2, <2>3, <2>4, <2>5 DEF EdlInv, EdlStates
<1> QED
  BY <1>1, <1>4, <1>5, <1>6, <1>7, <1>8

LEMMA CrashedHost ==
  ASSUME TypeOK, SuccInv, Host, Fit', device.kind = "crashed"
  PROVE  CrashedStates' /\ AllRight'
<1>1. /\ Fit /\ UNCHANGED <<device, run, dpc, bad, gone>>
      /\ Got \/ TimesOut \/ ReadFails
      /\ TimesOut => toHost = <<>> /\ DeviceWaits /\ Up /\ UNCHANGED <<toHost>>
      /\ ReadFails => toHost = <<>> /\ ~Up /\ UNCHANGED <<toHost>>
  BY FitHost DEF setup
<1>2. CrashedStates /\ AllRight /\ run = <<"reset">>
  BY <1>1 DEF SuccInv, Fit
<1>3. rets' = rets => AllRight'
  BY <1>1, <1>2, SameResults
<1>4. Got => toHost # <<>>
  BY DEF Got
<1>5. (ReadFails => dpc = "down") /\ (dpc = "down" <=> ~Up)
  BY DEF ReadFails, Up
<1>6. hpc # "end" => nth = 1 /\ Cmd = "reset"
  BY <1>2 DEF TypeOK, Cmd
<1>7. CASE hpc = "first"
  <2>1. ~TimesOut /\ ~ReadFails
    BY <1>1, <1>2, <1>5, <1>7, One DEF CrashedStates, LinkIs, DeviceWaits
  <2>2. FirstRead
    BY <1>7, <2>1 DEF Host, FirstReadEmpty, Prodded, Power, Ready, ExecResp, ExecData, ResetSent,
                      Verify
  <2>3. LinkIs("hello", <<>>, <<Hello("debug")>>) /\ Got
    BY <1>1, <1>2, <1>4, <1>7, <2>1 DEF CrashedStates, LinkIs
  <2>4. Read = Hello("debug") /\ toHost' = <<>>
    BY <2>3, GotOne DEF LinkIs
  <2>5. Read.t = "HELLO" /\ Read.v = device.version /\ Read.mode = "debug"
    BY <2>4 DEF Hello
  <2>6. /\ SendAll(<<HelloResp(device.version, "debug"), Reset>>) /\ tries' = 1
        /\ Goto("resent")
    BY <1>6, <1>7, <2>2, <2>5 DEF FirstRead, ModeFor, HelloResp
  <2>7. toDev' = <<HelloResp(device.version, "debug"), Reset>>
    BY <2>3, <2>6, Two DEF LinkIs, Up, SendAll
  <2>8. (HelloResp(device.version, "debug"))' = HelloResp(device.version, "debug") /\ Reset' = Reset
    BY <1>1 DEF HelloResp, Reset
  <2> QED
    BY <1>1, <1>3, <2>3, <2>4, <2>6, <2>7, <2>8 DEF CrashedStates, LinkIs, Goto
<1>8. CASE hpc = "resent" /\ tries = 1
  <2>1. ResetSent /\ ~TimesOut
    BY <1>1, <1>2, <1>8, One, Two DEF Host, FirstReadEmpty, FirstRead, Prodded, Power, Ready,
          ExecResp, ExecData, Verify, CrashedStates, LinkIs, DeviceWaits, Up
  <2>2. CASE Got
    <3>1. CASE LinkIs("debug", <<Reset>>, <<Packet("MEM_DEBUG64")>>)
      <4>1. Read.t = "MEM_DEBUG64" /\ toHost' = <<>>
        BY <2>2, <3>1, GotOne DEF LinkIs, Packet
      <4>2. SendAll(<<Reset>>) /\ tries' = 2 /\ UNCHANGED <<nth, rets, hpc>>
        <5>1. Resend
          BY <2>1, <2>2, <1>4, <4>1 DEF ResetSent, TimesOut, ReadFails
        <5>2. tries < Retries
          BY <1>8, SaharaCommandsAssumption
        <5> QED
          BY <1>8, <5>1, <5>2 DEF Resend
      <4>3. toDev' = <<Reset, Reset>>
        BY <3>1, <4>2, Two DEF LinkIs, Up, SendAll
      <4> QED
        BY <1>1, <1>3, <1>8, <3>1, <4>1, <4>2, <4>3 DEF CrashedStates, LinkIs, Reset
    <3>2. CASE \/ LinkIs("resetting", <<>>, <<Packet("MEM_DEBUG64"), Packet("RESET_RESP")>>)
               \/ LinkIs("down", <<>>, <<Packet("MEM_DEBUG64"), Packet("RESET_RESP")>>)
      <4>1. Read.t = "MEM_DEBUG64" /\ toHost' = <<Packet("RESET_RESP")>>
        BY <2>2, <3>2, GotTwo DEF LinkIs, Packet
      <4>2. SendAll(<<Reset>>) /\ tries' = 2 /\ UNCHANGED <<nth, rets, hpc>>
        <5>1. Resend
          BY <2>1, <2>2, <1>4, <4>1 DEF ResetSent, TimesOut, ReadFails
        <5>2. tries < Retries
          BY <1>8, SaharaCommandsAssumption
        <5> QED
          BY <1>8, <5>1, <5>2 DEF Resend
      <4>3. toDev' = IF Up THEN <<Reset>> ELSE <<>>
        BY <3>2, <4>2, SendOne DEF LinkIs
      <4> QED
        BY <1>1, <1>3, <1>5, <1>8, <3>2, <4>1, <4>2, <4>3 DEF CrashedStates, LinkIs, Reset, Packet
    <3> QED
      BY <1>2, <1>4, <1>8, <2>2, <3>1, <3>2 DEF CrashedStates, LinkIs
  <2>3. CASE ReadFails
    <3>1. Goto("verify") /\ dpc = "down" /\ toHost' = <<>>
      BY <1>1, <1>5, <2>1, <2>3 DEF ResetSent, Got
    <3> QED
      BY <1>1, <1>3, <3>1 DEF CrashedStates, Goto
  <2> QED
    BY <1>1, <2>1, <2>2, <2>3
<1>9. CASE hpc = "resent" /\ tries # 1
  <2>1. ResetSent /\ ~TimesOut
    BY <1>1, <1>2, <1>9, One, Two DEF Host, FirstReadEmpty, FirstRead, Prodded, Power, Ready,
          ExecResp, ExecData, Verify, CrashedStates, LinkIs, DeviceWaits, Up
  <2>2. Got => Read = Packet("RESET_RESP") /\ toHost' = <<>> /\ dpc \in {"resetting", "down"}
    BY <1>2, <1>4, <1>9, GotOne DEF CrashedStates, LinkIs
  <2>3. ReadFails => dpc = "down" /\ toHost' = <<>>
    BY <1>1, <1>5
  <2>4. Goto("verify")
    BY <2>1, <2>2 DEF ResetSent, Packet
  <2> QED
    BY <1>1, <1>3, <2>1, <2>2, <2>3, <2>4 DEF CrashedStates, Goto
<1>10. CASE hpc = "verify"
  <2>1. Verify /\ ~TimesOut /\ ~Got
    BY <1>1, <1>2, <1>4, <1>10 DEF Host, FirstReadEmpty, FirstRead, Prodded, Power, Ready, ExecResp,
                ExecData, ResetSent, CrashedStates, LinkIs, DeviceWaits, Up
  <2>2. Return(0)
    BY <2>1 DEF Verify
  <2>3. Expected(nth) = 0 /\ hpc' = "end"
    BY <1>1, <1>6, <1>10, <2>2 DEF Expected, Cmd, Return
  <2>4. AllRight'
    BY <1>1, <1>2, <2>2, <2>3, RightResult
  <2> QED
    BY <2>3, <2>4 DEF CrashedStates
<1>11. CASE hpc \in {"prodded", "power", "ready", "exec", "payload", "end"}
  BY <1>2, <1>11 DEF CrashedStates, Host, FirstReadEmpty, FirstRead, Prodded, Power, Ready,
                     ExecResp, ExecData, ResetSent, Verify
<1> QED
  BY <1>7, <1>8, <1>9, <1>10, <1>11 DEF TypeOK

\* The device takes the first of two packets, or says something behind another.
LEMMA TakeTwo ==
  ASSUME NEW a, NEW b, toDev = <<a, b>>, DevTake
  PROVE  Head(toDev) = a /\ toDev' = <<b>>
BY Two DEF DevTake

LEMMA SayTwo ==
  ASSUME NEW a, NEW b, toHost = <<a>>, Say(b)
  PROVE  toHost' = <<a, b>>
BY Two DEF Say

LEMMA CrashedDevice ==
  ASSUME TypeOK, SuccInv, Device \/ DevGone \/ DevHang, Fit', device.kind = "crashed"
  PROVE  CrashedStates'
<1>1. /\ Fit /\ UNCHANGED <<hpc, version, item, got, tries, nth, device, bad>>
      /\ DevHello \/ DevAsk \/ DevTake \/ DevDown
      /\ transport = "usb" /\ ~device.tears
  BY FitDevice DEF setup, hostVars, Fit
<1>2. CrashedStates
  BY <1>1 DEF SuccInv
<1>3. /\ (HelloResp(device.version, "debug"))' = HelloResp(device.version, "debug")
      /\ Hello("debug")' = Hello("debug") /\ Reset' = Reset
  BY <1>1 DEF Reset, HelloResp, Hello
<1>4. CASE hpc = "end"
  BY <1>1, <1>4 DEF CrashedStates
<1>5. CASE hpc # "end" /\ DevHello
  <2>1. dpc = "start" /\ dpc' = "hello" /\ toDev' = toDev /\ Say(Hello("debug"))
    BY <1>1, <1>5 DEF DevHello, Hello
  <2>2. hpc = "first" /\ toDev = <<>> /\ toHost = <<>>
    BY <1>2, <1>5, <2>1 DEF CrashedStates, LinkIs
  <2> QED
    BY <1>1, <1>3, <2>1, <2>2, SayOne DEF CrashedStates, LinkIs
<1>6. CASE hpc # "end" /\ DevAsk
  <2>1. LinkIs("table", <<Reset>>, <<>>) /\ hpc = "resent" /\ tries = 1
    BY <1>2, <1>6 DEF CrashedStates, LinkIs, DevAsk
  <2>2. dpc' = "debug" /\ Say(Packet("MEM_DEBUG64")) /\ toDev' = toDev
    BY <1>6, <2>1 DEF DevAsk, LinkIs, Packet
  <2> QED
    BY <1>1, <1>3, <2>1, <2>2, SayOne DEF CrashedStates, LinkIs, Packet
<1>7. CASE hpc # "end" /\ DevDown
  <2>1. dpc = "resetting" /\ dpc' = "down" /\ toDev' = <<>> /\ toHost' \in {toHost, <<>>}
    BY <1>2, <1>7 DEF CrashedStates, LinkIs, DevDown
  <2> QED
    BY <1>1, <1>2, <1>7, <2>1 DEF CrashedStates, LinkIs, Packet
<1>8. CASE hpc # "end" /\ DevTake
  <2>1. dpc \notin {"start", "load", "table", "down"}
    BY <1>8 DEF DevTake
  <2>2. CASE LinkIs("hello", <<HelloResp(device.version, "debug"), Reset>>, <<>>) /\ hpc = "resent"
             /\ tries = 1
    <3>1. Head(toDev) = HelloResp(device.version, "debug") /\ toDev' = <<Reset>>
      BY <1>8, <2>2, TakeTwo DEF LinkIs
    <3>2. dpc' = "table" /\ toHost' = toHost
      <4>1. Head(toDev).t = "HELLO_RESP" /\ Head(toDev).mode = "debug" /\ dpc = "hello"
        BY <2>2, <3>1 DEF LinkIs, HelloResp
      <4> QED
        BY <1>8, <4>1 DEF DevTake
    <3> QED
      BY <1>1, <2>2, <3>1, <3>2 DEF CrashedStates, LinkIs, Reset
  <2>3. CASE LinkIs("debug", <<Reset>>, <<Packet("MEM_DEBUG64")>>) /\ hpc = "resent" /\ tries = 1
    <3>1. Head(toDev) = Reset /\ toDev' = <<>>
      BY <1>8, <2>3, TakeOne DEF LinkIs
    <3>2. DevReset
      BY <1>8, <2>3, <3>1 DEF DevTake, LinkIs, Reset
    <3>3. dpc' = "resetting" /\ Say(Packet("RESET_RESP"))
      BY <1>1, <2>3, <3>2 DEF DevReset, LinkIs, Packet
    <3> QED
      BY <1>1, <2>3, <3>1, <3>3, SayTwo DEF CrashedStates, LinkIs, Packet
  <2>4. CASE LinkIs("debug", <<Reset, Reset>>, <<>>) /\ hpc = "resent" /\ tries = 2
    <3>1. Head(toDev) = Reset /\ toDev' = <<Reset>>
      BY <1>8, <2>4, TakeTwo DEF LinkIs
    <3>2. DevReset
      BY <1>8, <2>4, <3>1 DEF DevTake, LinkIs, Reset
    <3>3. dpc' = "resetting" /\ Say(Packet("RESET_RESP"))
      BY <1>1, <2>4, <3>2 DEF DevReset, LinkIs, Packet
    <3> QED
      BY <1>1, <2>4, <3>1, <3>3, SayOne DEF CrashedStates, LinkIs, Packet, Reset
  <2>5. CASE LinkIs("resetting", <<Reset>>, <<Packet("RESET_RESP")>>) /\ hpc = "resent" /\ tries = 2
    <3>1. dpc' = dpc /\ toHost' = toHost /\ toDev' = <<>>
      BY <1>8, <2>5, TakeOne DEF LinkIs, DevTake
    <3> QED
      BY <1>1, <2>5, <3>1 DEF CrashedStates, LinkIs, Packet
  <2>6. CASE hpc = "verify"
    <3>1. dpc = "resetting" /\ toHost = <<>>
      BY <1>2, <2>1, <2>6 DEF CrashedStates
    <3>2. dpc' = dpc /\ toHost' = toHost
      BY <1>8, <3>1 DEF DevTake
    <3> QED
      BY <1>1, <2>6, <3>1, <3>2 DEF CrashedStates
  <2>7. toDev # <<>>
    BY <1>8 DEF DevTake
  <2> QED
    BY <1>2, <1>8, <2>1, <2>2, <2>3, <2>4, <2>5, <2>6, <2>7 DEF CrashedStates, LinkIs
<1> QED
  BY <1>1, <1>4, <1>5, <1>6, <1>7, <1>8

LEMMA ProgrammerHost ==
  ASSUME TypeOK, SuccInv, Host, Fit', device.kind = "firehose"
  PROVE  ProgrammerStates' /\ AllRight'
<1>1. /\ Fit /\ UNCHANGED <<device, run, dpc, bad, gone>>
      /\ Got \/ TimesOut \/ ReadFails
      /\ TimesOut => toHost = <<>> /\ DeviceWaits /\ Up /\ UNCHANGED <<toHost>>
      /\ ReadFails => toHost = <<>> /\ ~Up /\ UNCHANGED <<toHost>>
  BY FitHost DEF setup
<1>2. ProgrammerStates /\ AllRight
  BY <1>1 DEF SuccInv
<1>3. rets' = rets => AllRight'
  BY <1>1, <1>2, SameResults
<1>4. Got => toHost # <<>>
  BY DEF Got
<1>5. (ReadFails => dpc = "down") /\ (dpc = "down" <=> ~Up)
  BY DEF ReadFails, Up
<1>6. hpc # "end" => Cmd \in {"reset", "chipinfo"} /\ nth \in DOMAIN run
  <2>1. run \in Seq({"reset", "chipinfo"})
    BY SaharaCommandsAssumption DEF TypeOK
  <2> QED
    BY <2>1 DEF TypeOK, Cmd
<1>7. Cmd' = Cmd \/ nth' # nth
  BY <1>1 DEF Cmd
<1>8. CASE hpc = "first"
  <2>1. dpc = "firehose" /\ toDev = <<>> /\ ~ReadFails
    BY <1>2, <1>5, <1>8 DEF ProgrammerStates, LinkIs
  <2>2. FirstReadEmpty \/ FirstRead
    BY <1>8 DEF Host, Prodded, Power, Ready, ExecResp, ExecData, ResetSent, Verify
  <2>3. ASSUME Return(-1), Cmd = "chipinfo", toDev' = toDev, toHost' = <<>>
        PROVE  ProgrammerStates' /\ AllRight'
    <3>1. Expected(nth) = -1
      BY <2>3 DEF Expected, Cmd
    <3>2. AllRight'
      BY <1>1, <1>2, <2>3, <3>1, RightResult
    <3>3. hpc' \in {"first", "end"}
      BY <2>3 DEF Return
    <3> QED
      BY <1>1, <2>1, <2>3, <3>2, <3>3 DEF ProgrammerStates, LinkIs
  <2>4. CASE FirstReadEmpty
    <3>1. TimesOut /\ toHost' = <<>>
      BY <1>1, <2>1, <2>4 DEF FirstReadEmpty
    <3>2. CASE Cmd = "reset"
      <4>1. SendAll(<<HelloResp(2, "image")>>) /\ Goto("prodded")
        BY <2>1, <2>4, <3>2 DEF FirstReadEmpty
      <4>2. toDev' = <<HelloResp(2, "image")>>
        BY <2>1, <4>1, <1>5, SendOne
      <4>3. HelloResp(2, "image")' = HelloResp(2, "image")
        BY DEF HelloResp
      <4> QED
        BY <1>1, <1>3, <1>7, <2>1, <3>1, <3>2, <4>1, <4>2, <4>3 DEF ProgrammerStates, LinkIs, Goto
    <3>3. CASE Cmd = "chipinfo"
      <4>1. Return(-1) /\ toDev' = toDev
        BY <1>1, <2>1, <2>4, <3>3 DEF FirstReadEmpty, Fit
      <4> QED
        BY <2>3, <3>1, <3>3, <4>1
    <3> QED
      BY <1>6, <1>8, <3>2, <3>3
  <2>5. CASE FirstRead
    <3>1. toHost = <<Packet("xml")>>
      BY <1>2, <1>4, <1>8, <2>5 DEF ProgrammerStates, LinkIs, FirstRead
    <3>2. Read.t = "xml" /\ toHost' = <<>>
      BY <2>5, <3>1, GotOne DEF FirstRead, Packet
    <3>3. CASE Cmd = "reset"
      <4>1. SendAll(<<Packet("POWER")>>) /\ Goto("power")
        BY <2>5, <3>2, <3>3 DEF FirstRead, FallBack, Packet
      <4>2. toDev' = <<Packet("POWER")>>
        BY <2>1, <4>1, <1>5, SendOne
      <4> QED
        BY <1>1, <1>3, <1>7, <2>1, <3>2, <3>3, <4>1, <4>2
           DEF ProgrammerStates, LinkIs, Goto, Packet
    <3>4. CASE Cmd = "chipinfo"
      <4>1. Return(-1) /\ toDev' = toDev
        BY <2>5, <3>2, <3>4 DEF FirstRead
      <4> QED
        BY <2>3, <3>2, <3>4, <4>1
    <3> QED
      BY <1>6, <1>8, <3>3, <3>4
  <2> QED
    BY <2>2, <2>4, <2>5
<1>9. CASE hpc = "prodded"
  <2>1. dpc = "firehose" /\ ~ReadFails /\ ~TimesOut /\ Cmd = "reset"
    BY <1>1, <1>2, <1>5, <1>9, One DEF ProgrammerStates, LinkIs, DeviceWaits
  <2>2. Prodded /\ Got
    BY <1>1, <1>9, <2>1 DEF Host, FirstReadEmpty, FirstRead, Power, Ready, ExecResp, ExecData,
                       ResetSent, Verify
  <2>3. toHost = <<Packet("xml")>> /\ toDev = <<>>
    BY <1>2, <1>4, <1>9, <2>2 DEF ProgrammerStates, LinkIs
  <2>4. Read.t = "xml" /\ toHost' = <<>>
    BY <2>2, <2>3, GotOne DEF Packet
  <2>5. SendAll(<<Packet("POWER")>>) /\ Goto("power")
    BY <2>1, <2>2, <2>4 DEF Prodded, FallBack, Packet
  <2>6. toDev' = <<Packet("POWER")>>
    BY <2>1, <2>3, <2>5, <1>5, SendOne
  <2> QED
    BY <1>1, <1>3, <1>7, <2>1, <2>4, <2>5, <2>6 DEF ProgrammerStates, LinkIs, Goto, Packet
<1>10. CASE hpc = "power"
  <2>1. dpc # "down" /\ ~ReadFails /\ ~TimesOut /\ Cmd = "reset"
    BY <1>1, <1>2, <1>5, <1>10, One DEF ProgrammerStates, LinkIs, DeviceWaits
  <2>2. Power /\ Got
    BY <1>1, <1>10, <2>1 DEF Host, FirstReadEmpty, FirstRead, Prodded, Ready, ExecResp, ExecData,
                       ResetSent, Verify
  <2>3. toHost = <<Packet("ack")>>
    BY <1>2, <1>4, <1>10, <2>2 DEF ProgrammerStates, LinkIs
  <2>4. Read.t = "ack"
    BY <2>2, <2>3, GotOne DEF Packet
  <2>5. Return(0)
    BY <2>1, <2>2, <2>4 DEF Power
  <2>6. Expected(nth) = 0 /\ hpc' = "end"
    BY <2>1, <2>5 DEF Expected, Cmd, Return
  <2>7. AllRight'
    BY <1>1, <1>2, <2>5, <2>6, RightResult
  <2> QED
    BY <2>6, <2>7 DEF ProgrammerStates
<1>11. CASE hpc \in {"ready", "exec", "payload", "resent", "verify", "end"}
  BY <1>2, <1>11 DEF ProgrammerStates, Host, FirstReadEmpty, FirstRead, Prodded, Power, Ready,
                     ExecResp, ExecData, ResetSent, Verify
<1> QED
  BY <1>8, <1>9, <1>10, <1>11 DEF TypeOK

LEMMA ProgrammerDevice ==
  ASSUME TypeOK, SuccInv, Device \/ DevGone \/ DevHang, Fit', device.kind = "firehose"
  PROVE  ProgrammerStates'
<1>1. /\ Fit /\ UNCHANGED <<hpc, version, item, got, tries, nth, device, bad>>
      /\ UNCHANGED Cmd
      /\ DevHello \/ DevAsk \/ DevTake \/ DevDown
  BY FitDevice DEF setup, hostVars, Fit
<1>2. ProgrammerStates
  BY <1>1 DEF SuccInv
<1>3. HelloResp(2, "image")' = HelloResp(2, "image")
  BY DEF HelloResp
<1>4. CASE hpc = "end"
  BY <1>1, <1>4 DEF ProgrammerStates
<1>5. hpc # "end" => dpc \in {"firehose", "powered"} /\ (dpc = "powered" => hpc = "power")
  BY <1>2 DEF ProgrammerStates, LinkIs
<1>6. CASE hpc # "end"
  <2>1. DevTake
    BY <1>1, <1>5, <1>6 DEF DevHello, DevAsk, DevDown
  <2>2. toDev # <<>>
    BY <2>1 DEF DevTake
  <2>3. CASE hpc = "prodded"
    <3>1. LinkIs("firehose", <<HelloResp(2, "image")>>, <<>>) /\ Cmd = "reset"
      BY <1>2, <2>2, <2>3 DEF ProgrammerStates, LinkIs
    <3>2. Head(toDev).t = "HELLO_RESP" /\ toDev' = <<>>
      BY <2>1, <3>1, TakeOne DEF LinkIs, HelloResp
    <3>3. dpc' = dpc /\ Say(Packet("xml"))
      BY <2>1, <3>1, <3>2 DEF DevTake, LinkIs, Packet
    <3> QED
      BY <1>1, <2>3, <3>1, <3>2, <3>3, SayOne DEF ProgrammerStates, LinkIs, Packet
  <2>4. CASE hpc = "power"
    <3>1. LinkIs("firehose", <<Packet("POWER")>>, <<>>) /\ Cmd = "reset"
      BY <1>2, <2>2, <2>4 DEF ProgrammerStates, LinkIs
    <3>2. Head(toDev).t = "POWER" /\ toDev' = <<>>
      BY <2>1, <3>1, TakeOne DEF LinkIs, Packet
    <3>3. dpc' = "powered" /\ Say(Packet("ack"))
      BY <2>1, <3>1, <3>2 DEF DevTake, LinkIs, Packet
    <3> QED
      BY <1>1, <2>4, <3>1, <3>2, <3>3, SayOne DEF ProgrammerStates, LinkIs, Packet
  <2> QED
    BY <1>2, <1>6, <2>2, <2>3, <2>4 DEF ProgrammerStates, LinkIs
<1> QED
  BY <1>4, <1>6

LEMMA SuccStep == TypeOK /\ SuccInv /\ [Next]_vars => SuccInv'
<1> SUFFICES ASSUME TypeOK, SuccInv, [Next]_vars, Fit'
             PROVE  /\ device'.kind = "edl" => EdlInv'
                    /\ device'.kind = "crashed" => CrashedStates'
                    /\ device'.kind = "firehose" => ProgrammerStates'
                    /\ AllRight'
  BY DEF SuccInv
<1>1. CASE Host
  <2>1. device' = device /\ Fit
    BY <1>1, FitHost DEF setup
  <2>2. device.kind \in {"edl", "crashed", "firehose"}
    BY <2>1 DEF Fit
  <2> QED
    BY <1>1, <2>1, <2>2, EdlHost, CrashedHost, ProgrammerHost
<1>2. CASE Device \/ DevGone \/ DevHang
  <2>1. device' = device /\ Fit /\ UNCHANGED <<run, rets>>
    BY <1>2, FitDevice DEF setup, hostVars
  <2>2. AllRight'
    BY <2>1, SameResults DEF SuccInv
  <2> QED
    BY <1>2, <2>1, <2>2, EdlDevice, CrashedDevice, ProgrammerDevice
<1>3. CASE UNCHANGED vars
  <2>1. /\ UNCHANGED <<transport, device, run, nth, hpc, version, tries, item, got, rets>>
        /\ UNCHANGED <<dpc, toDev, toHost, late, bad, gone>>
    BY <1>3 DEF vars, setup, hostVars, counters
  <2>2. Fit
    BY <2>1 DEF Fit, Undisturbed
  <2> QED
    BY <2>1, <2>2 DEF SuccInv, EdlInv, EdlStates, CrashedStates, ProgrammerStates, LinkIs, AllRight,
         Expected, Cmd, ClientCmds, Execute, HelloResp, Hello, Packet, Reset
<1> QED
  BY <1>1, <1>2, <1>3 DEF Next, Done

\* Every command of an undisturbed run returns what its device lets it.
THEOREM CommandsDoSucceed == Spec => []CommandsSucceed
<1>1. TypeOK /\ SuccInv => CommandsSucceed
  BY DEF SuccInv, Fit, AllRight, Expected, CommandsSucceed
<1> QED
  BY <1>1, SuccInit, SuccStep, TypeCorrect, PTL DEF Spec
=============================================================================
