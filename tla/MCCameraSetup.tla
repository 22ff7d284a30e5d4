--------------------------- MODULE MCCameraSetup ---------------------------
(* A small instance of CameraSetup.  One set of cameras varies what there  *)
(* is to list: up to two formats, two sizes of each and three intervals of *)
(* each size; the three enumerations end as they should, or one of them    *)
(* ends with an error that is thrown.  The other varies what main does     *)
(* with the camera: formats that can be converted or not, and, before and  *)
(* after the format is changed, intervals of 1/30 s, 2 s and one that is   *)
(* not given.                                                              *)
EXTENDS CameraSetup

MCFormats == {"YUV420", "YUYV", "MJPEG"}
MCKnown == {"YUV420", "YUYV"}
MCPassedOn == {"MJPEG"}
Rates == {<<1, 30>>, <<2, 1>>, <<0, 0>>}

Ends == {[e \in Enumerations |-> IF e = bad THEN "ENOTTY" ELSE "EINVAL"] :
            bad \in Enumerations \cup {"none"}}
NoneBad == [e \in Enumerations |-> "EINVAL"]

Listed ==
  {[io |-> IO, formats |-> nf, sizes |-> ns, intervals |-> ni, discrete |-> d,
    end |-> end, format |-> "YUYV", fallback |-> "EINVAL",
    interval |-> <<1, 30>>, fallbackInterval |-> <<1, 30>>] :
     nf \in 0..2, ns \in 0..2, ni \in 0..3, d \in BOOLEAN, end \in Ends}

Negotiated ==
  {[io |-> io, formats |-> 1, sizes |-> 1, intervals |-> 1, discrete |-> TRUE,
    end |-> NoneBad, format |-> format, fallback |-> fallback,
    interval |-> before, fallbackInterval |-> after] :
     io \in SUBSET IO, format \in MCFormats, fallback \in MCFormats \cup Errors,
     before \in Rates, after \in Rates}

MCCameras == Listed \cup Negotiated
=============================================================================
