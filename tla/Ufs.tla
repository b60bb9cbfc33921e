--------------------------------- MODULE Ufs ---------------------------------
(***************************************************************************)
(* UFS provisioning: the description is read from XML (src/src/ufs.c),     *)
(* checked, and sent to the programmer twice - first to be checked, then,  *)
(* if nothing was refused, to be applied, which cannot be undone where the *)
(* configuration is locked (firehose_provision() of src/src/firehose.c).   *)
(*                                                                         *)
(* An exchange is a command and the responses that are read until nothing  *)
(* comes for a while; module Firehose has its details.                     *)
(***************************************************************************)
EXTENDS Integers, Sequences, SequencesExt, FiniteSets

CONSTANTS
  Inputs,       \* the XML files of a run, a sequence of sequences of tags; see MCUfs
  MaxTries,     \* bound: configure commands sent
  MaxLate,      \* bound: answers that come after the host stopped waiting
  MaxFail,      \* bound: tags refused for a passing reason, such as a failed write
  MaxGone       \* bound: 1 if the device may be unplugged

\* The elements of the files; only their kind and, of some, a few attributes matter.
Tags == UNION {UNION {Range(f) : f \in Range(fs)} : fs \in Inputs}

ASSUME UfsAssumption ==
  /\ Inputs \subseteq Seq(Seq(Tags)) \ {<<>>}
  /\ {MaxTries, MaxLate, MaxFail, MaxGone} \subseteq Nat

NoCommon   == [kind |-> "none"]
NoTag      == [kind |-> "none"]
EmptyDescr == [common |-> NoCommon, bodies |-> <<>>]

VARIABLES
  files,        \* the XML files
  finalize,     \* --finalize-provisioning
  skip_reset,
  file, node,   \* file and element being read
  common, bodies, epilogue,   \* struct ufs_provisioning
  hpc,          \* "load", "write", "read", "end"
  step,         \* [s, pass, i]: the exchange in progress
  resp,         \* resp of firehose_read()
  tries,        \* configure commands sent
  ret,          \* "none", "ok", "failed"
  toDev, toHost,
  there,        \* the device is on the bus
  received,     \* the description it has been given since the last epilogue
  validated,    \* history: descriptions it has found to be good
  applied,      \* the one it has applied
  resets,       \* resets it was told to do
  late, fails, gone

inputVars == <<files, finalize, skip_reset>>
loadVars  == <<file, node, common, bodies, epilogue>>
devVars   == <<there, received, validated, applied, resets, fails>>
vars == <<inputVars, loadVars, hpc, step, resp, tries, ret, toDev, toHost, devVars, late, gone>>

-----------------------------------------------------------------------------
(* ufs_load(), an element at a time.                                       *)

Exit(r) == hpc' = "end" /\ ret' = r

\* A description that is not good is dropped, and ends the program.
LoadFails ==
  /\ Exit("failed")
  /\ common' = NoCommon /\ bodies' = <<>> /\ epilogue' = NoTag
  /\ UNCHANGED <<file, node>>

\* There may be one file only.
OpenFile ==
  /\ hpc = "load" /\ node = 0 /\ file <= Len(files)
  /\ IF common # NoCommon
       THEN LoadFails
       ELSE node' = 1 /\ UNCHANGED <<hpc, ret, file, common, bodies, epilogue>>
  /\ UNCHANGED <<step, resp, tries, inputVars, toDev, toHost, devVars, late, gone>>

WithBody(t) == Append(bodies, t)

LoadTag ==
  /\ hpc = "load" /\ node > 0 /\ node <= Len(files[file])
  /\ LET t == files[file][node]
     IN \/ /\ \/ t.kind = "unknown" \/ ~t.valid
              \/ t.kind = "common" /\ common # NoCommon
              \/ t.kind = "epilogue" /\ epilogue # NoTag
           /\ LoadFails
        \/ /\ t.valid
           /\ \/ t.kind = "common" /\ common = NoCommon
                 /\ common' = t /\ UNCHANGED <<bodies, epilogue>>
              \/ t.kind = "body" /\ bodies' = WithBody(t) /\ UNCHANGED <<common, epilogue>>
              \/ t.kind = "epilogue" /\ epilogue = NoTag
                 /\ epilogue' = t /\ UNCHANGED <<common, bodies>>
              \/ t.kind = "foreign" /\ UNCHANGED <<common, bodies, epilogue>>  \* not <ufs>
           /\ node' = node + 1
           /\ UNCHANGED <<file, hpc, ret>>
  /\ UNCHANGED <<step, resp, tries, inputVars, toDev, toHost, devVars, late, gone>>

\* Variant: only an unwanted lock is noticed.
AgreesHalf == common.lock => finalize

\* bConfigDescrLock is what the command line says.
Agrees == common.lock = finalize

Complete == common # NoCommon /\ bodies # <<>> /\ epilogue # NoTag

LoadDone ==
  /\ hpc = "load" /\ file <= Len(files) /\ node > Len(files[file])
  /\ IF Complete /\ Agrees
       THEN file' = file + 1 /\ node' = 0 /\ UNCHANGED <<common, bodies, epilogue, hpc, ret>>
       ELSE LoadFails
  /\ UNCHANGED <<step, resp, tries, inputVars, toDev, toHost, devVars, late, gone>>

-----------------------------------------------------------------------------
(* firehose_provision(), ufs_provisioning_execute(), firehose_apply_ufs_*()*)

Step(s, p, i) == [s |-> s, pass |-> p, i |-> i]

\* All files are read: the programmer is configured.
Start ==
  /\ hpc = "load" /\ node = 0 /\ file = Len(files) + 1
  /\ hpc' = "write" /\ step' = Step("configure", 1, 0)
  /\ UNCHANGED <<resp, tries, ret, loadVars, inputVars, toDev, toHost, devVars, late, gone>>

\* What a step has the programmer do.
Command ==
  CASE step.s = "common"   -> [cmd |-> "tag", tag |-> common, commit |-> FALSE]
    [] step.s = "body"     -> [cmd |-> "tag", tag |-> bodies[step.i], commit |-> FALSE]
    [] step.s = "epilogue" -> [cmd |-> "tag", tag |-> epilogue, commit |-> step.pass = 2]
    [] OTHER               -> [cmd |-> step.s, tag |-> NoTag, commit |-> FALSE]

\* What follows an exchange that was acknowledged.
Then ==
  CASE step.s = "configure" -> Step("common", 1, 0)
    [] step.s = "common"    -> Step("body", step.pass, 1)
    [] step.s = "body" /\ step.i < Len(bodies) -> Step("body", step.pass, step.i + 1)
    [] step.s = "body" /\ step.i = Len(bodies) -> Step("epilogue", step.pass, 0)
    [] step.s = "epilogue" /\ step.pass = 1 -> Step("common", 2, 0)
    [] OTHER                -> Step("reset", 2, 0)

\* The execution is over: the device is reset, unless told not to.
Finish(r) ==
  /\ ret' = r
  /\ IF skip_reset THEN hpc' = "end" /\ UNCHANGED step
                   ELSE hpc' = "write" /\ step' = Step("reset", 2, 0)

Write ==
  /\ hpc = "write"
  /\ tries' = IF step.s = "configure" THEN tries + 1 ELSE tries
  /\ resp' = "none"
  /\ IF there
       THEN /\ toDev' = Append(toDev, Command)
            /\ hpc' = "read" /\ UNCHANGED <<step, ret>>
       ELSE /\ CASE step.s = "configure" -> Exit("failed") /\ UNCHANGED step
                 [] step.s = "reset"     -> hpc' = "end" /\ UNCHANGED <<step, ret>>
                 [] OTHER                -> Finish("failed")
            /\ UNCHANGED toDev
  /\ UNCHANGED <<loadVars, inputVars, toHost, devVars, late, gone>>

\* Everything that arrives is read; the last response counts.
ReadOne ==
  /\ hpc = "read" /\ toHost # <<>>
  /\ resp' = Head(toHost) /\ toHost' = Tail(toHost)
  /\ UNCHANGED <<hpc, step, tries, ret, loadVars, inputVars, toDev, devVars, late, gone>>

\* Until nothing does: the device is silent, slow or gone.
Silent == toHost = <<>> /\ toDev = <<>>

Outcome == IF resp # "none" THEN resp ELSE IF there THEN "timeout" ELSE "gone"

\* Variant: the answers of the first pass do not matter.
AcceptableAny == Outcome = "ACK" \/ (Outcome = "NAK" /\ step.pass = 1)

\* A response that lets the run continue.
Acceptable == Outcome = "ACK"

\* Variant: any end without a NAK is taken for success.
ResetItselfTimeout == step.s = "epilogue" /\ step.pass = 2 /\ Outcome # "NAK"

\* Variant: a device that restarts without an answer has failed.
ResetItselfNever == FALSE

\* firehose_apply_ufs_epilogue(): the device is taken to have committed and restarted.
ResetItself == step.s = "epilogue" /\ step.pass = 2 /\ Outcome = "gone"

\* The configure command is repeated until there is an answer; a refusal is one.
AfterConfigure ==
  \/ /\ Outcome \in {"ACK", "NAK"} /\ step' = Then /\ hpc' = "write" /\ UNCHANGED ret
  \/ /\ Outcome = "timeout" /\ tries < MaxTries /\ hpc' = "write" /\ UNCHANGED <<step, ret>>
  \/ /\ Outcome = "gone" \/ (Outcome = "timeout" /\ tries = MaxTries)
     /\ Exit("failed") /\ UNCHANGED step

AfterTag ==
  CASE ResetItself -> Exit("ok") /\ UNCHANGED step
    [] ~ResetItself /\ ~Acceptable -> Finish("failed")
    [] Acceptable /\ step.s = "epilogue" /\ step.pass = 2 -> Finish("ok")
    [] OTHER -> step' = Then /\ hpc' = "write" /\ UNCHANGED ret

ReadDone ==
  /\ hpc = "read" /\ toHost = <<>>
  /\ IF Silent \/ ~there THEN UNCHANGED late ELSE late < MaxLate /\ late' = late + 1
  /\ CASE step.s = "configure" -> AfterConfigure
       [] step.s = "reset"     -> hpc' = "end" /\ UNCHANGED <<step, ret>>
       [] OTHER                -> AfterTag
  /\ UNCHANGED <<resp, tries, loadVars, inputVars, toDev, toHost, devVars, gone>>

-----------------------------------------------------------------------------
(* The programmer (external).                                              *)

Given(t) ==
  CASE t.kind = "common" -> [common |-> t, bodies |-> <<>>]
    [] t.kind = "body"   -> [received EXCEPT !.bodies = Append(@, t)]
    [] OTHER             -> received

\* What it accepts is a property of the description, ...
Sound(d) == d.common # NoCommon /\ d.common.good /\ \A i \in DOMAIN d.bodies : d.bodies[i].good

\* ... which it looks at as a whole when it gets the epilogue.
DevTag(c) ==
  LET last == c.tag.kind = "epilogue"
  IN \/ /\ ~last
        /\ received' = Given(c.tag)
        /\ toHost' = Append(toHost, "ACK")
        /\ UNCHANGED <<validated, applied, there, fails>>
     \/ /\ last
        /\ received' = EmptyDescr
        /\ \/ /\ ~c.commit /\ Sound(received)
              /\ validated' = validated \cup {received}
              /\ toHost' = Append(toHost, "ACK")
              /\ UNCHANGED <<applied, there, fails>>
           \/ /\ ~c.commit /\ ~Sound(received)
              /\ toHost' = Append(toHost, "NAK")
              /\ UNCHANGED <<validated, applied, there, fails>>
           \/ /\ c.commit                    \* some programmers restart at once
              /\ applied' = received
              /\ \/ toHost' = Append(toHost, "ACK") /\ UNCHANGED there
                 \/ there' = FALSE /\ toHost' = <<>>
              /\ UNCHANGED <<validated, fails>>
     \/ /\ fails < MaxFail /\ fails' = fails + 1
        /\ received' = EmptyDescr
        /\ toHost' = Append(toHost, "NAK")
        /\ UNCHANGED <<validated, applied, there>>

DevTake ==
  /\ there /\ toDev # <<>>
  /\ LET c == Head(toDev)
     IN \/ /\ c.cmd = "tag" /\ DevTag(c) /\ UNCHANGED resets
        \/ /\ c.cmd = "configure"
           /\ toHost' = Append(toHost, "ACK")
           /\ UNCHANGED <<received, validated, applied, there, resets, fails>>
        \/ /\ c.cmd = "reset"
           /\ resets' = resets + 1
           /\ there' = FALSE /\ toHost' = <<>>
           /\ UNCHANGED <<received, validated, applied, fails>>
  /\ toDev' = Tail(toDev)
  /\ UNCHANGED <<hpc, step, resp, tries, ret, loadVars, inputVars, late, gone>>

Unplug ==
  /\ there /\ gone < MaxGone /\ gone' = gone + 1
  /\ there' = FALSE
  /\ UNCHANGED <<hpc, step, resp, tries, ret, loadVars, inputVars, toDev, toHost,
                 received, validated, applied, resets, fails, late>>

Done == hpc = "end" /\ UNCHANGED vars

Init ==
  /\ files \in Inputs /\ finalize \in BOOLEAN /\ skip_reset \in BOOLEAN
  /\ file = 1 /\ node = 0
  /\ common = NoCommon /\ bodies = <<>> /\ epilogue = NoTag
  /\ hpc = "load" /\ step = Step("none", 0, 0) /\ resp = "none" /\ tries = 0 /\ ret = "none"
  /\ toDev = <<>> /\ toHost = <<>> /\ there = TRUE
  /\ received = EmptyDescr /\ validated = {} /\ applied = EmptyDescr
  /\ resets = 0 /\ late = 0 /\ fails = 0 /\ gone = 0

Load == OpenFile \/ LoadTag \/ LoadDone
Host == Load \/ Start \/ Write \/ ReadOne \/ ReadDone
Next == Host \/ DevTake \/ Unplug \/ Done

\* The tool is one thread whose reads have a timeout; the programmer need not answer.
Spec == Init /\ [][Next]_vars /\ WF_vars(Host) /\ WF_vars(DevTake)

-----------------------------------------------------------------------------
(* Properties.                                                             *)

Described == [common |-> common, bodies |-> bodies]

\* Sequence s lists the elements of kind k of the only file, in their order.
Before(i, k) == {j \in 1 .. i : files[1][j].kind = k}
Lists(s, k) ==
  /\ Len(s) = Cardinality(Before(Len(files[1]), k))
  /\ \A i \in DOMAIN files[1] :
       files[1][i].kind = k => s[Cardinality(Before(i, k))] = files[1][i]

\* The answers were not one behind from the configure command to the end of the first
\* pass: every exchange of it that leaves one behind counts as late.
InStep == late <= Len(bodies) + 3

\* What is applied has been found good by the device, as a whole and beforehand, though
\* answers to earlier commands may arrive late and stand for those to later ones.
CommittedValidated == applied # EmptyDescr /\ InStep => applied \in validated

\* What is applied is exactly what the only file says, and whether it is locked forever
\* is what the command line says.
AppliedIsFile ==
  applied # EmptyDescr /\ InStep =>
    /\ Len(files) = 1
    /\ Lists(<<applied.common>>, "common") /\ Lists(applied.bodies, "body")
    /\ applied.common.lock = finalize

\* A run that ends well has provisioned the device, though answers may be late, as long
\* as nobody pulls the cable.
SuccessMeansApplied == hpc = "end" /\ ret = "ok" /\ InStep /\ gone = 0 => applied = Described

\* Where the only file has elements of kind k.
Places(k) == Before(Len(files[1]), k)

\* The files are one that says what is needed, once, and agrees with the command line.
FileGood ==
  /\ Len(files) = 1
  /\ \A i \in DOMAIN files[1] : files[1][i].valid /\ files[1][i].kind # "unknown"
  /\ \E i \in DOMAIN files[1] : Places("common") = {i} /\ files[1][i].lock = finalize
  /\ \E i \in DOMAIN files[1] : Places("epilogue") = {i}
  /\ Places("body") # {}

\* The device has nothing against any of it.
FileSound ==
  \A i \in DOMAIN files[1] : files[1][i].kind \in {"common", "body"} => files[1][i].good

\* Such a description is applied, if the device answers in time, whether or not it waits
\* to be restarted, and the device is restarted only if it should be.
ProvisionSucceeds ==
  hpc = "end" /\ late = 0 /\ fails = 0 /\ gone = 0 /\ FileGood /\ FileSound =>
    /\ ret = "ok" /\ applied # EmptyDescr
    /\ (skip_reset => resets = 0) /\ (~skip_reset => ~there)

=============================================================================
