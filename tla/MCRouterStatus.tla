---------------------------- MODULE MCRouterStatus ----------------------------
(***************************************************************************)
(* The instance of RouterStatus for TLC; see MCRouterStatus.cfg.           *)
(***************************************************************************)
EXTENDS RouterStatus

================================================================================
