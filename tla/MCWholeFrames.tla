---------------------------- MODULE MCWholeFrames ----------------------------
(* A small instance of WholeFrames: a frame of no, one or two NALs; two    *)
(* NALs are more than viewer_udp_ocv receives, and three more than sendto  *)
(* does.  The camera of encoder_h264 also delivers a bare start code, a    *)
(* frame that ends in zeros or in a start code, and frames without one, of *)
(* which one completes the zeros that may stand before it.  Fresh memory   *)
(* may end in a start code, or in a part of one.                           *)
EXTENDS WholeFrames

OneNal == StartCode \o <<2>>
OtherNal == StartCode \o <<3>>
MCFrames == {<<>>, OneNal, OneNal \o OtherNal, OneNal \o OneNal \o OtherNal}
MCCameraFrames == {<<>>, StartCode, OneNal, OneNal \o OtherNal,
                   OneNal \o <<0, 0, 0>>, OneNal \o StartCode,
                   <<1, 2, 3, 2, 1>>, <<3, 2>>}
Fill(byte, n) == [i \in 1..n |-> byte]
MCMemory == {Fill(0, 10), Fill(2, 10), Fill(3, 6) \o StartCode,
             Fill(2, 2) \o StartCode \o StartCode, Fill(3, 7) \o <<0, 0, 0>>}
=============================================================================
