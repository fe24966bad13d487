------------------------------- MODULE MCApp -------------------------------
(* Constants for model-checking App. *)
EXTENDS App

\* A throttled persister without a dump; a dump, with everything local; no
\* whisper, metrics sent to another host.
MCConfigs ==
    {[whisper |-> TRUE,  throttled |-> TRUE,  dump |-> FALSE, local |-> TRUE],
     [whisper |-> TRUE,  throttled |-> FALSE, dump |-> TRUE,  local |-> TRUE],
     [whisper |-> FALSE, throttled |-> FALSE, dump |-> TRUE,  local |-> FALSE]}
=============================================================================
