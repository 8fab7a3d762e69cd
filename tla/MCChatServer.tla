---------------------------- MODULE MCChatServer ----------------------------
(* ChatServer with the bounds that TLC needs on what the clients send. *)
EXTENDS ChatServer, TLC

CONSTANTS a, b, d

\* a and b write their AUTH line and one more unit, d its AUTH line only.
TwoTalkers == a :> 3 @@ b :> 3 @@ d :> 2

ShortAuth == a :> 3 @@ b :> 2 @@ d :> 1

TwoConns == a :> 4 @@ b :> 4

Same == Permutations({a, b})
=============================================================================
