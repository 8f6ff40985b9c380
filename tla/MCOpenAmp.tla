------------------------------- MODULE MCOpenAmp -------------------------------
(* The instances of OpenAmp that TLC checks. *)
EXTENDS OpenAmp
==============================================================================
