-------------------------------- MODULE MCUfs --------------------------------
(* Ufs with files of up to two logical units and one mistake.              *)
EXTENDS Ufs

Common(lock, good) == [kind |-> "common", valid |-> TRUE, lock |-> lock, good |-> good]
Body(n, good) == [kind |-> "body", n |-> n, valid |-> TRUE, good |-> good]
Epilogue  == [kind |-> "epilogue", valid |-> TRUE]
Invalid(t) == [t EXCEPT !.valid = FALSE]
Foreign   == [kind |-> "foreign", valid |-> TRUE]
Unknown   == [kind |-> "unknown", valid |-> TRUE]

Good == {<<Common(l, TRUE), Body(1, TRUE), Body(2, TRUE), Epilogue>> : l \in BOOLEAN}
          \cup {<<Epilogue, Foreign, Body(1, TRUE), Common(FALSE, TRUE)>>}

\* Descriptions the device refuses.
Refused == {<<Common(FALSE, FALSE), Body(1, TRUE), Epilogue>>,
            <<Common(FALSE, TRUE), Body(1, TRUE), Body(2, FALSE), Epilogue>>}

\* Files the tool refuses.
Wrong ==
  {<<Common(FALSE, TRUE), Body(1, TRUE)>>, <<Body(1, TRUE), Epilogue>>,
   <<Common(FALSE, TRUE), Epilogue>>, <<Common(FALSE, TRUE), Unknown>>,
   <<Common(FALSE, TRUE), Common(TRUE, TRUE), Body(1, TRUE), Epilogue>>,
   <<Common(FALSE, TRUE), Epilogue, Epilogue, Body(1, TRUE)>>,
   <<Invalid(Common(FALSE, TRUE))>>, <<Common(FALSE, TRUE), Invalid(Body(1, TRUE)), Epilogue>>,
   <<Common(FALSE, TRUE), Body(1, TRUE), Invalid(Epilogue)>>}

OneFile  == {<<f>> : f \in Good \cup Refused \cup Wrong}
TwoFiles == {<<f, g>> : f, g \in Good}
AllInputs == OneFile \cup TwoFiles
=============================================================================
