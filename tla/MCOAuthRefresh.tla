----------------------------- MODULE MCOAuthRefresh -----------------------------
(* Finite instance of OAuthRefresh: the background service b in one process, *)
(* everybody else in another: a request or a second service c, and an         *)
(* administrator's request a.                                                 *)
EXTENDS OAuthRefresh, TLC

CONSTANTS b, c, a, i1, i2
MCHome == [w \in Workers |-> IF w = b THEN i1 ELSE i2]
=============================================================================
