----------------------------- MODULE MCAuthTokens -----------------------------
(* AuthTokens with a handful of tokens and requests, all alike.              *)
EXTENDS AuthTokens, TLC

Alike == Permutations(Tokens) \cup Permutations(Requests)

================================================================================
