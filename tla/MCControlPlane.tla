--------------------------- MODULE MCControlPlane ---------------------------
(* One goroutine is asked for any route of the program, the others for     *)
(* those that change bots.                                                 *)
EXTENDS ControlPlane

CONSTANT Any

Changing ==
    {InformationPostRequest, InformationPatchRequest, InformationDeleteRequest,
     ScannerController, FormDebugController}
    \cup {CommandController(a) : a \in Actions}

Asked == [p \in Procs |-> IF p = Any THEN AllRoutes ELSE Changing]
=============================================================================
