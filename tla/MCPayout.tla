------------------------------- MODULE MCPayout -------------------------------
(***************************************************************************)
(* Module Payout for TLC: who may spend what                               *)
(***************************************************************************)
EXTENDS Payout

\* One key owns everything: coinbases as it is, the outputs of updates tweaked.
\* A call that forgets the tweak, or adds one it should not, signs for nobody.
TweakedUpdates ==
  [s \in Script \cup {CoinbaseScript} |->
     [key |-> CHOOSE k \in Key : TRUE,
      tweak |-> IF s = CoinbaseScript THEN NoTweak ELSE CHOOSE t \in Tweak : TRUE]]
==============================================================================
