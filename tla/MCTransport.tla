----------------------------- MODULE MCTransport -----------------------------
(* Transport with packets of two bytes.                                    *)
EXTENDS Transport
=============================================================================
