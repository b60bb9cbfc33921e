------------------------------ MODULE MCSahara ------------------------------
(* Sahara with a programmer of one or two images and two memory regions.   *)
EXTENDS Sahara, TLC

I(image, len) == [image |-> image, len |-> len]

OneImage  == 13 :> 2
TwoImages == 13 :> 2 @@ 25 :> 1

\* What a device may ask for: a plain programmer, a programmer and its
\* configuration, an image nobody has, more than there is of one.
OneRequests == {<<I(13, 2)>>, <<I(13, 3)>>, <<I(7, 1)>>}
TwoRequests == {<<I(13, 2)>>, <<I(25, 1), I(13, 2)>>, <<I(13, 1), I(7, 1)>>}

AllSessions ==
  {[provided |-> TwoImages, ramdump |-> d, requests |-> TwoRequests] : d \in BOOLEAN}
    \cup {[provided |-> OneImage, ramdump |-> FALSE, requests |-> OneRequests]}

TwoRegions == <<2, 1>>
=============================================================================
