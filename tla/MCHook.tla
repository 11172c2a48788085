------------------------------- MODULE MCHook -------------------------------
(* Instances of Hook for TLC.                                              *)
EXTENDS Hook, TLC

CONSTANTS reader, writer

\* One fiber reads from the socket, the other connects it.
MCEventOf == reader :> "READ" @@ writer :> "WRITE"
MCCallsOf == reader :> 2 @@ writer :> 1
=============================================================================
