-------------------------- MODULE MCSaharaCommands --------------------------
(* SaharaCommands with one or two commands on a device.                    *)
EXTENDS SaharaCommands

AllRuns == {<<"reset">>, <<"chipinfo", "reset">>, <<"chipinfo", "chipinfo">>, <<"reset", "reset">>}

\* A flag that a kind of device does not have is FALSE.
D(k, v, c, s, t) == [kind |-> k, version |-> v, command |-> c, strict |-> s, tears |-> t]

AllDevices ==
  {D("edl", v, c, s, t) : v \in {2, 3}, c \in BOOLEAN, s \in BOOLEAN, t \in BOOLEAN}
    \cup {D("crashed", 2, FALSE, s, FALSE) : s \in BOOLEAN}
    \cup {D(k, 2, FALSE, FALSE, FALSE) : k \in {"firehose", "dead"}}
=============================================================================
