------------------------------ MODULE MCOpening ------------------------------
(* Opening with two processes and two ports.                               *)
EXTENDS Opening, TLC

CONSTANTS h1, h2, s1, s2

D(s, at, driver, edl) == [serial |-> s, at |-> at, driver |-> driver, edl |-> edl]

New   == D(s1, "iProduct", "winusb", TRUE)    \* a device in EDL mode
Old   == D(s2, "iSerial", "winusb", TRUE)     \* one in another mode
Mute  == D(NoSerial, "none", "winusb", TRUE)
Modem == D(s1, "iSerial", "winusb", FALSE)    \* without the EDL interface
Qud1  == D(s1, "iProduct", "qud", TRUE)
Qud2  == D(s2, "iProduct", "qud", TRUE)
Diag  == D(s2, "iSerial", "qud", FALSE)

S(a, b, sp, w1, b1, w2, b2) ==
  [bus |-> <<a, b>>, spare |-> sp, want |-> h1 :> w1 @@ h2 :> w2,
   backend |-> h1 :> b1 @@ h2 :> b2]

AllSetups ==
  {S(New, Old, {}, s1, "usb", w, "auto") : w \in {Whichever, s1, s2, List}}
    \cup {S(Mute, NoDev, {New}, s1, "usb", Whichever, "usb")}
    \cup {S(Modem, NoDev, {New}, s1, "auto", Whichever, "usb")}
    \cup {S(Qud1, Qud2, {}, w, "auto", v, b) : w \in {s2, 2, List}, v \in {Whichever, s1}, b \in {"qud", "auto"}}
    \cup {S(Diag, NoDev, {Qud1, Qud2}, s2, "auto", Whichever, "auto")}
    \cup {S(New, Qud2, {}, Whichever, "auto", w, "auto") : w \in {Whichever, s2}}
=============================================================================
