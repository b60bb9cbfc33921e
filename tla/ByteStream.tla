----------------------------- MODULE ByteStream -----------------------------
(***************************************************************************)
(* What qdl_read() promises, whatever the backend: the bytes the device    *)
(* has sent, each once and in order.  Bytes are numbered; those that are   *)
(* lost are lost before anything behind them is delivered.                 *)
(***************************************************************************)
EXTENDS Integers, Sequences, SequencesExt

VARIABLES sent, lost, got

Init == sent = <<>> /\ lost = {} /\ got = <<>>

Send ==
  /\ IsPrefix(sent, sent') /\ sent' # sent
  /\ UNCHANGED <<lost, got>>

Lose ==
  /\ lost \subseteq lost' /\ lost' # lost
  /\ \A b \in lost' \ lost : \A i \in DOMAIN got : got[i] < b
  /\ UNCHANGED <<sent, got>>

InOrder(s) == \A i, j \in DOMAIN s : i < j => s[i] < s[j]

\* Of the bytes up to the last of s, it has those that were sent and not lost.
NoneMissing(s) ==
  \A i \in DOMAIN s :
    /\ s[i] \in Range(sent) \ lost
    /\ \A b \in Range(sent) \ lost : b < s[i] => b \in Range(s)

Deliver ==
  /\ IsPrefix(got, got') /\ got' # got
  /\ InOrder(got') /\ NoneMissing(got')
  /\ UNCHANGED <<sent, lost>>

Next == Send \/ Lose \/ Deliver

Spec == Init /\ [][Next]_<<sent, lost, got>>
=============================================================================
