------------------------------- MODULE Opening -------------------------------
(***************************************************************************)
(* How qdl processes find their devices: the libusb pass of                *)
(* src/src/usb.c, the COM ports of src/src/qud.c, the backend that tries   *)
(* both (src/src/auto.c), and "qdl list"; with devices that come and go,   *)
(* other processes that want the same ones, and strings that cannot be     *)
(* read at the first attempt.                                              *)
(*                                                                         *)
(* A device is [serial, at, driver, edl]: its serial number, the USB       *)
(* string that holds it ("iProduct", "iSerial" or "none"), the driver it   *)
(* is bound to ("winusb" for any that lets libusb open it, or "qud") and   *)
(* whether it has the EDL interface.  Both libusb and the QUD driver name  *)
(* devices by what is behind a port at some time: a reference is           *)
(* [port, gen], where gen counts what has been plugged into the port.      *)
(***************************************************************************)
EXTENDS Integers, FiniteSets

CONSTANTS
  Hosts,      \* qdl processes
  NPorts,     \* number of USB ports
  Setups,     \* [bus, spare, want, backend]; see MCOpening
  NoDev, NoSerial, NoHost,
  Whichever, List,  \* want: no --serial given; the list command
  USB_STRING_ATTEMPTS,
  Matches,    \* COM ports that qud_open() and qud_list() look at
  MaxGlitch,  \* bound: transfers and calls that fail for once
  MaxFail,    \* bound: failures of libusb itself
  MaxPlug     \* bound: devices unplugged and plugged in

Ports == 1 .. NPorts

ASSUME OpeningAssumption ==
  /\ NPorts \in Nat \ {0} /\ USB_STRING_ATTEMPTS \in Nat \ {0} /\ Matches \in Nat \ {0}
  /\ {MaxGlitch, MaxFail, MaxPlug} \subseteq Nat
  /\ NoHost \notin Hosts
  /\ \A s \in Setups :
       /\ s.bus = [p \in Ports |-> s.bus[p]] /\ s.want = [h \in Hosts |-> s.want[h]]
       /\ s.backend \in [Hosts -> {"usb", "qud", "auto"}]
       /\ \A h \in Hosts : s.want[h] # NoSerial

VARIABLES
  bus, gen,     \* port -> the device behind it, how many there have been
  spare,        \* devices not plugged in
  owner,        \* port -> the process that has claimed its device
  \* the processes
  want,         \* a serial number, Whichever, List or a port (\\.\COMx)
  backends,     \* "usb", "qud", "auto"
  pc,
  visit,        \* candidates of this pass still to be tried
  seen,         \* the pass has seen an EDL device
  cand,         \* the candidate being tried
  attempt,      \* at reading a string of it
  com,          \* COM port chosen by qud_open()
  handle,       \* open libusb handles
  sessions,     \* libusb_init() less libusb_exit()
  link,         \* what the process is bound to
  listed,       \* what it has listed: [ref, serial]
  \* what goes wrong
  glitches, fails, plugs

busVars  == <<bus, gen, spare>>
setup    == <<want, backends>>
passVars == <<visit, seen, cand, attempt, handle, sessions>>
faults   == <<glitches, fails, plugs>>
openVars == <<busVars, owner, setup, pc, passVars, com, link, listed, faults>>

Set(f, h, v) == f' = [f EXCEPT ![h] = v]
Goto(h, l)   == Set(pc, h, l)

Glitch == glitches < MaxGlitch /\ glitches' = glitches + 1 /\ UNCHANGED <<fails, plugs>>
Works  == UNCHANGED faults

-----------------------------------------------------------------------------
(* Devices.                                                                *)

Here(r)      == bus[r.port] # NoDev /\ gen[r.port] = r.gen
Ref(p)       == [port |-> p, gen |-> gen[p]]
SerialOf(d)  == IF d.at = "none" THEN NoSerial ELSE d.serial

\* References to the devices; both enumerations are in the order of the ports.
Refs == {Ref(p) : p \in {q \in Ports : bus[q] # NoDev}}

IsFirst(r, refs) == \A q \in refs : r.port <= q.port

\* win_enumerate_qcom(): COM ports of the QUD driver with the EDL interface.
ComPorts == {r \in Refs : bus[r.port].driver = "qud" /\ bus[r.port].edl}

\* The device at port p is what process h was asked for.
Wanted(h, p) ==
  \/ want[h] = Whichever
  \/ want[h] = p
  \/ SerialOf(bus[p]) = want[h]

-----------------------------------------------------------------------------
(* usb_open_once() and usb_list(): one pass over the candidates.           *)

\* libusb_init() and the list of devices.  When either fails usb_open() and auto_open()
\* give up; the list command goes on with the COM ports.
Scan(h) ==
  /\ pc[h] = "scan"
  /\ \/ /\ Works
        /\ Set(visit, h, Refs) /\ Set(seen, h, FALSE)
        /\ Set(sessions, h, sessions[h] + 1)
        /\ Goto(h, "next")
     \/ /\ fails < MaxFail /\ fails' = fails + 1 /\ UNCHANGED <<glitches, plugs>>
        /\ Goto(h, IF want[h] = List THEN "coms" ELSE "failed")
        /\ UNCHANGED <<visit, seen, sessions>>
  /\ UNCHANGED <<busVars, owner, setup, cand, attempt, handle, com, link, listed>>

\* libusb_open(): not on a device that is gone or bound to another driver.
OpenCandidate(h) ==
  /\ pc[h] = "next"
  /\ \E r \in visit[h] :
       LET opens == Here(r) /\ bus[r.port].driver = "winusb"
       IN /\ IsFirst(r, visit[h])
          /\ \/ /\ opens /\ Works
                /\ Set(handle, h, handle[h] \cup {r}) /\ Set(cand, h, r) /\ Set(attempt, h, 1)
                /\ Goto(h, IF want[h] = Whichever THEN "claim" ELSE "iProduct")
             \/ /\ IF opens THEN Glitch ELSE Works
                /\ UNCHANGED <<handle, cand, attempt, pc>>
          /\ Set(visit, h, visit[h] \ {r}) /\ Set(seen, h, TRUE)
  /\ UNCHANGED <<busVars, owner, setup, sessions, com, link, listed>>

\* Variant: the handle is left open.
DropKeeps(h) == UNCHANGED handle /\ Goto(h, "next")

\* The candidate is closed, and the next one tried.
Drop(h) == Set(handle, h, handle[h] \ {cand[h]}) /\ Goto(h, "next")

\* Variant: a device whose serial number cannot be read is as good as any.
MatchesUnread(h, s) == s \in {want[h], NoSerial}

\* usb_match_serial()
MatchesSerial(h, s) == s = want[h]

\* The serial number has been read, or there is none.
Identified(h, s) ==
  IF want[h] = List
    THEN Set(listed, h, listed[h] \cup {[ref |-> cand[h], serial |-> s]}) /\ Drop(h)
    ELSE /\ IF MatchesSerial(h, s) THEN Goto(h, "claim") /\ UNCHANGED handle ELSE Drop(h)
         /\ UNCHANGED listed

\* The string tells nothing: iSerial is read after iProduct.
NotInString(h) ==
  IF pc[h] = "iProduct"
    THEN Goto(h, "iSerial") /\ Set(attempt, h, 1) /\ UNCHANGED <<handle, listed>>
    ELSE Identified(h, NoSerial) /\ UNCHANGED attempt

\* usb_read_serial(): a transient error is worth another attempt.
ReadString(h) ==
  /\ pc[h] \in {"iProduct", "iSerial"}
  /\ \/ /\ Works
        /\ IF Here(cand[h]) /\ bus[cand[h].port].at = pc[h]
             THEN Identified(h, bus[cand[h].port].serial) /\ UNCHANGED attempt
             ELSE NotInString(h)
     \/ /\ Here(cand[h]) /\ Glitch
        /\ IF attempt[h] < USB_STRING_ATTEMPTS
             THEN Set(attempt, h, attempt[h] + 1) /\ UNCHANGED <<pc, handle, listed>>
             ELSE NotInString(h)
  /\ UNCHANGED <<busVars, owner, setup, visit, seen, cand, sessions, com, link>>

\* usb_match_edl_interface(): the class, and a pair of bulk endpoints.
HasInterface(p) == bus[p].edl

\* The interface is looked for and claimed.
Claim(h) ==
  /\ pc[h] = "claim"
  /\ LET p == cand[h].port
         claims == Here(cand[h]) /\ HasInterface(p) /\ owner[p] = NoHost
     IN \/ /\ claims /\ Works
           /\ Set(owner, p, h)
           /\ Set(link, h, [ref |-> cand[h], by |-> "usb"])
           /\ Goto(h, "open") /\ UNCHANGED handle
        \/ /\ IF claims THEN Glitch ELSE Works
           /\ Drop(h) /\ UNCHANGED <<owner, link>>
  /\ UNCHANGED <<busVars, setup, visit, seen, cand, attempt, sessions, com, listed>>

\* Variant: the COM ports are a way out only when libusb sees nothing.
TriesQudAlone(h) == ~seen[h] /\ ComPorts # {}

\* auto_open(): there are COM ports, or devices that libusb cannot have.
TriesQud(h) == ComPorts # {} \/ seen[h]

\* No candidate was good: libusb_exit(), and what the caller does.
PassEnd(h) ==
  /\ pc[h] = "next" /\ visit[h] = {}
  /\ Set(sessions, h, sessions[h] - 1)
  /\ Goto(h, IF want[h] = List THEN "coms"
             ELSE IF backends[h] = "auto" /\ TriesQud(h) THEN "select"
             ELSE "sleep")
  /\ Works
  /\ UNCHANGED <<busVars, owner, setup, visit, seen, cand, attempt, handle, com, link, listed>>

Sleep(h) ==
  /\ pc[h] = "sleep" /\ Goto(h, "scan") /\ Works
  /\ UNCHANGED <<busVars, owner, setup, passVars, com, link, listed>>

-----------------------------------------------------------------------------
(* qud_open() and qud_list().                                              *)

FirstMatches ==
  {r \in ComPorts : Cardinality({q \in ComPorts : q.port < r.port}) < Matches}

Fitting(h) == {r \in FirstMatches : Wanted(h, r.port)}

\* The auto backend tries again later, the QUD backend gives up.
QudFails(h) == Goto(h, IF backends[h] = "auto" THEN "sleep" ELSE "failed")

\* The COM port is the one given or the first that has the serial number.
SelectCom(h) ==
  /\ pc[h] = "select"
  /\ \/ want[h] \in Ports /\ Set(com, h, Ref(want[h])) /\ Goto(h, "com")
     \/ want[h] \notin Ports /\ Fitting(h) = {} /\ QudFails(h) /\ UNCHANGED com
     \/ /\ want[h] \notin Ports
        /\ \E r \in Fitting(h) : IsFirst(r, Fitting(h)) /\ Set(com, h, r) /\ Goto(h, "com")
  /\ Works
  /\ UNCHANGED <<busVars, owner, setup, passVars, link, listed>>

\* It is opened by its name, exclusively, and configured.
OpenCom(h) ==
  /\ pc[h] = "com"
  /\ LET p == com[h].port
         opens == bus[p] # NoDev /\ bus[p].driver = "qud" /\ owner[p] = NoHost
     IN \/ /\ opens /\ Works
           /\ Set(owner, p, h)
           /\ Set(link, h, [ref |-> Ref(p), by |-> "qud"])
           /\ Goto(h, "open")
        \/ /\ IF opens THEN Glitch ELSE Works
           /\ QudFails(h) /\ UNCHANGED <<owner, link>>
  /\ UNCHANGED <<busVars, setup, passVars, com, listed>>

ListComs(h) ==
  /\ pc[h] = "coms"
  /\ Set(listed, h, listed[h] \cup
       {[ref |-> r, serial |-> SerialOf(bus[r.port])] : r \in FirstMatches})
  /\ Goto(h, "closed") /\ Works
  /\ UNCHANGED <<busVars, owner, setup, passVars, com, link>>

-----------------------------------------------------------------------------

\* qdl_close(), which qdl_flash() calls also when nothing could be opened.
Close(h) ==
  /\ pc[h] \in {"open", "failed"}
  /\ IF (IF pc[h] = "open" THEN link[h].by = "qud" ELSE backends[h] # "usb")
       THEN UNCHANGED <<handle, sessions>>
       ELSE Set(handle, h, {}) /\ Set(sessions, h, sessions[h] - 1)
  /\ owner' = [p \in Ports |-> IF owner[p] = h THEN NoHost ELSE owner[p]]
  /\ Goto(h, "closed") /\ Works
  /\ UNCHANGED <<busVars, setup, visit, seen, cand, attempt, com, link, listed>>

\* Any device may leave the bus, whoever uses it, ...
Unplug(p) ==
  /\ bus[p] # NoDev
  /\ Set(bus, p, NoDev) /\ Set(gen, p, gen[p] + 1) /\ Set(owner, p, NoHost)
  /\ spare' = spare \cup {bus[p]}

\* ... and appear at any port.
Plug(p) ==
  /\ bus[p] = NoDev
  /\ \E d \in spare : Set(bus, p, d) /\ spare' = spare \ {d}
  /\ UNCHANGED <<gen, owner>>

World ==
  /\ plugs < MaxPlug /\ plugs' = plugs + 1
  /\ \E p \in Ports : Unplug(p) \/ Plug(p)
  /\ UNCHANGED <<setup, pc, passVars, com, link, listed, glitches, fails>>

OpenInit ==
  /\ \E s \in Setups :
       /\ bus = s.bus /\ spare = s.spare /\ want = s.want /\ backends = s.backend
       /\ pc = [h \in Hosts |-> IF s.backend[h] = "qud" THEN "select" ELSE "scan"]
  /\ gen = [p \in Ports |-> 0] /\ owner = [p \in Ports |-> NoHost]
  /\ visit = [h \in Hosts |-> {}] /\ seen = [h \in Hosts |-> FALSE]
  /\ cand = [h \in Hosts |-> [port |-> 1, gen |-> -1]] /\ com = cand
  /\ attempt = [h \in Hosts |-> 1]
  /\ handle = [h \in Hosts |-> {}] /\ sessions = [h \in Hosts |-> 0]
  /\ link = [h \in Hosts |-> [ref |-> cand[h], by |-> "none"]]
  /\ listed = [h \in Hosts |-> {}]
  /\ glitches = 0 /\ fails = 0 /\ plugs = 0

\* What a process does until it has its device.
Find(h) ==
  \/ Scan(h) \/ OpenCandidate(h) \/ ReadString(h) \/ Claim(h) \/ PassEnd(h) \/ Sleep(h)
  \/ SelectCom(h) \/ OpenCom(h) \/ ListComs(h)

OpenNext == World \/ \E h \in Hosts : Find(h) \/ Close(h)

\* Processes run and wait 250 ms at a time; what they do with a device may take for
\* ever, and nothing makes a call fail.
OpenSpec == OpenInit /\ [][OpenNext]_openVars /\ \A h \in Hosts : WF_openVars(Find(h) /\ UNCHANGED faults)

-----------------------------------------------------------------------------
(* Properties.                                                             *)

\* A process that has a device has it for itself, and it is one the user asked for,
\* whatever else was going on: over libusb in any case, over the QUD driver unless the
\* device behind the COM port was exchanged between its selection and its opening.
\* The same goes for what is listed: a device has its serial number or none beside it.
RightDevice ==
  \A h \in Hosts :
    /\ pc[h] = "open" /\ Here(link[h].ref)
         /\ (link[h].by = "usb" \/ link[h].ref = com[h]) =>
           LET p == link[h].ref.port
           IN owner[p] = h /\ Wanted(h, p) /\ (bus[p].edl \/ want[h] = p)
    /\ \A e \in listed[h] : Here(e.ref) => e.serial \in {SerialOf(bus[e.ref.port]), NoSerial}

\* A process that waits, or is done, holds nothing; one that has a device holds just
\* that: no handle and no session of libusb is left from the candidates it has passed
\* over, nor a device claimed that it does not use.
NothingLeft ==
  \A h \in Hosts :
    /\ pc[h] \in {"sleep", "select", "com", "coms", "failed", "closed"} =>
         handle[h] = {} /\ sessions[h] <= 0 /\ \A p \in Ports : owner[p] # h
    /\ pc[h] = "open" =>
         /\ handle[h] = (IF link[h].by = "usb" THEN {link[h].ref} ELSE {})
         /\ sessions[h] = (IF link[h].by = "usb" THEN 1 ELSE 0)
         /\ \A p \in Ports : owner[p] = h => p = link[h].ref.port

\* A device that the backend of process h can open and nobody else has.  Among COM
\* ports it only ever opens the first that fits.
Reachable(h) ==
  \E p \in Ports :
    /\ bus[p] # NoDev /\ bus[p].edl /\ owner[p] = NoHost /\ Wanted(h, p)
    /\ \/ bus[p].driver = "winusb" /\ want[h] \notin Ports
       \/ /\ backends[h] = "auto" /\ bus[p].driver = "qud"
          /\ Ref(p) \in Fitting(h) /\ IsFirst(Ref(p), Fitting(h))

\* A process whose device is there to stay gets it, whichever backend it takes, whatever
\* failed before and whoever used the device, unless libusb itself does not work.
Served ==
  \A h \in Hosts :
    backends[h] # "qud" /\ want[h] # List /\ <>[]Reachable(h) =>
      <>(pc[h] \in {"open", "closed"} \/ fails > 0)
=============================================================================
