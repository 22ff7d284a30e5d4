---------------------------- MODULE MCEncoderPipe ----------------------------
(* A small instance of EncoderPipe.  A frame has no NAL (x264 delays it),  *)
(* one, or two.  What lies behind the encoder's buffer is harmless, a      *)
(* start code, or part of one.                                             *)
EXTENDS EncoderPipe

OneNal == StartCode \o <<2>>
MCFrames == {<<>>, OneNal, OneNal \o OneNal}
MCBeyond == {<<255, 255, 255, 255>>, <<0, 0, 0, 1>>, <<0, 1, 0, 0>>}
=============================================================================
