----------------------------- MODULE MCSessionSync -----------------------------
(***************************************************************************)
(* Instances of SessionSync for TLC: the configurations MCSync*.cfg.       *)
(***************************************************************************)
EXTENDS SessionSync, TLC

\* Disconnect requests are interchangeable; sessions are not, they are ordered.
DisconnectSymmetry == Permutations(Disconnects)

================================================================================
