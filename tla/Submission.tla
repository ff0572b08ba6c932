------------------------------- MODULE Submission ------------------------------
(***************************************************************************)
(* CreateRun of the C API: the request of the generated client, around the *)
(* parameters that the text of the C program reads as.                     *)
(***************************************************************************)
EXTENDS Wire, RunConfiguration

AlgorithmParameters(ask) ==
  IF "parameters" \in DOMAIN ask
    THEN Decoded(ModelsAlgorithmRequestAlgorithmParameters, ask.parameters)
    ELSE {}

\* The request, or an InputDecodeError.
CreateRunRequest(ask) ==
  IF Halved(ask) THEN {}
  ELSE {Request(ask, parameters) : parameters \in AlgorithmParameters(ask)}
===============================================================================
