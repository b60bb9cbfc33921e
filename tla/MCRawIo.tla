------------------------------- MODULE MCRawIo -------------------------------
(* RawIo with a LUN of three sectors.                                      *)
EXTENDS RawIo

Rw(k, off, n) == [k |-> k, off |-> off, n |-> n, val |-> 0, aligned |-> TRUE]

Some == {Rw("pread", 0, 2), Rw("pread", 1, 2), Rw("pwrite", 0, 1), Rw("pwrite", 0, 3),
         [Rw("pwrite", 0, 1) EXCEPT !.aligned = FALSE]}
=============================================================================
