SPECIFICATION Spec
CONSTANTS
  Value = {2}
  Fee = {1, 3}
  Script = {p}
  CoinbaseScript = c
  Key = {k}
  Tweak = {t}
  NoTweak = NoTweak
  BadTweak = BadTweak
  Owner <- TweakedUpdates
  MaxAmount = 3
  MaxUpdates = 3
  MaxWitness = 2
INVARIANTS
  TypeOK
  SignaturesCommit
  SpendableIffOwnerSignedOnce
  UpdatesFormChain
  ValueConserved
PROPERTY FailureChangesNothing
CHECK_DEADLOCK FALSE
