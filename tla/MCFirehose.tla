----------------------------- MODULE MCFirehose -----------------------------
(* Small runs for the model checker: the operation lists qdl_build_op_list() *)
(* and qdl_flash() put together, one per kind of behaviour.                  *)
EXTENDS Firehose

O(type, n) == [type |-> type, n |-> n]
R(list, skip, mode, size, n, lates) ==
  [ops |-> list, skipblock |-> skip, vip |-> mode, payload |-> size, tries |-> n, late |-> lates]

FlashOps ==
  {<<O("configure", 0), O("program", 3), O("patch", 1), O("bootable", 0), O("reset", 0)>>,
   <<O("configure", 0), O("erase", 1), O("read", 2), O("program", 2), O("reset", 0)>>}

\* Two storage devices in one run, each with a configure of its own.
TwoStorages ==
  <<O("configure", 0), O("program", 2), O("configure", 0), O("patch", 1), O("reset", 0)>>

\* The outcome of the third operation is ignored.
Bootable == <<O("configure", 0), O("program", 3), O("bootable", 0), O("reset", 0)>>

OneStorage == <<O("configure", 0), O("program", 3), O("patch", 1), O("reset", 0)>>

\* Payloads below, at and above what the host begins with; late answers only where
\* nothing is renegotiated.
AllRuns ==
  {R(list, FALSE, "DISABLED", p, 2, 0) : list \in FlashOps, p \in 1 .. 3}
    \cup {R(TwoStorages, FALSE, mode, p, 3, 0) : mode \in {"DISABLED", "INIT"}, p \in 1 .. 3}
    \cup {R(list, FALSE, "INIT", 2, 2, 1) : list \in {TwoStorages, Bootable}}
    \cup {R(OneStorage, TRUE, "DISABLED", p, 2, 0) : p \in 1 .. 3}
    \cup {R(OneStorage, TRUE, "DISABLED", 2, 2, 1)}
=============================================================================
