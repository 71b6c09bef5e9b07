-------------------------------- MODULE Payout --------------------------------
(***************************************************************************)
(* A chain of eltoo style payout updates (node/uhpo/src): each update      *)
(* spends a coinbase and the output of the update before it into one new   *)
(* output, and is signed input by input, before build or after it.  The    *)
(* caller, which is not part of the repository, calls new with the         *)
(* coinbase it holds and its last update, whatever signatures that one has *)
(* by then, signs as it likes and keeps what build returns.                *)
(***************************************************************************)
EXTENDS Integers, Sequences, SequencesExt

CONSTANTS
  Value,       \* values of coinbase outputs
  Fee,         \* projected fees
  Script,      \* the script pubkeys of the addresses updates pay to
  CoinbaseScript, \* the script pubkey coinbases pay to
  Key,         \* private keys
  Tweak,       \* tweaks that can be added to a key
  NoTweak,     \* no tweak is given
  BadTweak,    \* a tweak that cannot be added to a key
  Owner,       \* the key pair that may spend what pays to a script
  MaxAmount,   \* the largest Amount, u64::MAX in the code
  MaxUpdates,  \* the longest chain explored
  MaxWitness   \* the most signatures put on one input

ASSUME PayoutAssumption ==
  /\ MaxAmount \in Nat /\ MaxUpdates \in Nat /\ MaxWitness \in Nat
  /\ Value \subseteq 0..MaxAmount
  /\ Fee \subseteq 0..MaxAmount
  /\ Script \cup {CoinbaseScript} \subseteq DOMAIN Owner

VARIABLES
  chain,    \* the transactions of the updates that were built, oldest first
  update,   \* the PayoutUpdate under construction, if any
  terms,    \* history: for every update so far, the value of all coinbases and
            \* all fees up to it and, per input, the key pairs of the signing
            \* calls that succeeded
  result    \* what the last call returned

vars == <<chain, update, terms, result>>

------------------------------------------------------------------------------
\* Transactions.  Sequences stand for vectors, so vout 0 is index 1.

TxOut(value, script) == [value |-> value, script_pubkey |-> script]

\* The bitcoin crate: the id of a transaction commits to everything in it but
\* the witnesses.
compute_txid(tx) ==
  [input  |-> [i \in DOMAIN tx.input |-> tx.input[i].previous_output],
   output |-> tx.output]

\* The output an outpoint refers to.
Spent(outpoint) == outpoint.txid.output[outpoint.vout + 1]

\* The bitcoin crate: the key spend hash commits to the transaction without
\* its witnesses, to the input that is signed, to every output spent and to
\* the kind of hash it is.
taproot_sighash(tx, idx, prevouts, kind) ==
  [txid |-> compute_txid(tx), input |-> idx, prevouts |-> prevouts, kind |-> kind]

\* The coinbase of block n, made by the caller: its first output is the
\* payout, another one commits to the block.
Coinbase(n, value) ==
  [input  |-> <<[previous_output |-> [height |-> n], witness |-> <<>>]>>,
   output |-> <<TxOut(value, CoinbaseScript), TxOut(0, "commitment")>>]

\* TransactionBuilder
EmptyTransaction == [input |-> <<>>, output |-> <<>>]

add_input(tx, txid, vout) ==
  [tx EXCEPT !.input =
     Append(@, [previous_output |-> [txid |-> txid, vout |-> vout],
                witness |-> <<>>])]

add_output(tx, script, amount) ==
  [tx EXCEPT !.output = Append(@, TxOut(amount, script))]

------------------------------------------------------------------------------
Init ==
  /\ chain = <<>>
  /\ update = <<>>
  /\ terms = <<>>
  /\ result = "none"

\* The previous update, None if and only if this is the first one.
PrevUpdate == IF chain = <<>> THEN <<>> ELSE <<Last(chain)>>

\* Mutant of Inputs: the previous update is referred to by its wtxid, which
\* commits to its witnesses as well and is its txid while it has none.
InputsByWtxid(prev, coinbase) ==
  LET tx == add_input(EmptyTransaction, compute_txid(coinbase), 0)
      wtxid == IF \A i \in DOMAIN prev[1].input : prev[1].input[i].witness = <<>>
               THEN compute_txid(prev[1]) ELSE prev[1]
  IN  IF prev = <<>> THEN tx ELSE add_input(tx, wtxid, 0)

\* The inputs of a new update: the coinbase, then the previous update.
Inputs(prev, coinbase) ==
  LET tx == add_input(EmptyTransaction, compute_txid(coinbase), 0)
  IN  IF prev = <<>> THEN tx ELSE add_input(tx, compute_txid(prev[1]), 0)

\* Mutant of TotalAmount: the previous update is left out.
CoinbaseAmount(prev, coinbase) == coinbase.output[1].value

\* The total of new: the coinbase and the previous update.
TotalAmount(prev, coinbase) ==
  coinbase.output[1].value + (IF prev = <<>> THEN 0 ELSE prev[1].output[1].value)

\* PayoutUpdate::new
New(value, script, fee) ==
  LET coinbase == Coinbase(Len(chain) + 1, value)
      total == TotalAmount(PrevUpdate, coinbase)
      before == IF terms = <<>> THEN [coinbases |-> 0, fees |-> 0] ELSE Last(terms)
  IN  /\ update = <<>>
      /\ Len(chain) < MaxUpdates
      /\ total <= MaxAmount
      /\ fee <= total
      /\ update' =
           <<[transaction |->
                add_output(Inputs(PrevUpdate, coinbase), script, total - fee),
              coinbase_txout |-> coinbase.output[1],
              prev_update_txout |->
                [i \in DOMAIN PrevUpdate |-> PrevUpdate[i].output[1]]]>>
      /\ terms' = Append(terms, [coinbases |-> before.coinbases + value,
                                 fees |-> before.fees + fee,
                                 signed |-> <<<<>>, <<>>>>])
      /\ result' = "Ok"
      /\ UNCHANGED chain

\* PayoutUpdate::new: the sum or the difference of amounts is out of range and
\* the operator of Amount panics.
NewPanics(value, fee) ==
  LET total == TotalAmount(PrevUpdate, Coinbase(Len(chain) + 1, value))
  IN  /\ update = <<>>
      /\ Len(chain) < MaxUpdates
      /\ total > MaxAmount \/ fee > total
      /\ result' = "panic"
      /\ UNCHANGED <<chain, update, terms>>

\* Mutants of Prevouts: the previous update is left out; the order is wrong.
PrevoutsShort(u) == <<u.coinbase_txout>>
PrevoutsSwapped(u) == u.prev_update_txout \o <<u.coinbase_txout>>

\* The outputs an update spends, in the order of its inputs.
Prevouts(u) == <<u.coinbase_txout>> \o u.prev_update_txout

\* enum UhpoError; Other is never made by the crate.
UhpoError == {"KeypairCreationError", "SignatureVerificationError", "TaprootError",
              "NoPrevUpdateTxOut", "Other"}

\* SecretKeyBehavior::keypair and KeypairBehavior::add_xonly_tweak: the pair
\* that signs, none when the tweak cannot be added.
keypair(key, tweak) ==
  IF tweak = BadTweak THEN {} ELSE {[key |-> key, tweak |-> tweak]}

\* Secp256k1Behavior::sign_schnorr_with_rng
sign_schnorr(message, pair) == [message |-> message, keypair |-> pair]

\* Secp256k1Behavior::verify_schnorr: the crate is generic in it, so that a
\* signature may verify or not.
verify_schnorr == BOOLEAN

\* Mutant of Finished: no byte for the kind of hash, which then is the default.
FinishedBare(signature) == [signature |-> signature, kind |-> "Default"]

\* What goes into the witness: the signature and the byte 0x01, SIGHASH_ALL.
Finished(signature) == [signature |-> signature, kind |-> "All"]

\* Mutant of Pushes: the signature is pushed before it is verified.
PushesEarly(checked, verified) == checked = "Ok"

\* The signature is pushed onto the witness once it verifies.
Pushes(checked, verified) == checked = "Ok" /\ verified

\* add_signature: what it returns and what it makes of the transaction.  The key
\* may not take the tweak, the hash may find that the spent outputs are not as
\* many as the inputs, and the signature is verified against the pair that
\* made it, whoever may spend the input.
add_signature(tx, idx, prevouts, key, tweak, verified) ==
  LET pairs == keypair(key, tweak)
      message == taproot_sighash(tx, idx, prevouts, "All")
      checked == CASE pairs = {} -> "KeypairCreationError"
                   [] pairs # {} /\ Len(prevouts) # Len(tx.input) -> "TaprootError"
                   [] OTHER -> "Ok"
  IN  [result |-> IF checked = "Ok" /\ ~verified
                  THEN "SignatureVerificationError" ELSE checked,
       transaction |->
         IF Pushes(checked, verified)
         THEN [tx EXCEPT !.input[idx].witness =
                 Append(@, Finished(sign_schnorr(message, CHOOSE p \in pairs : TRUE)))]
         ELSE tx]

\* A signing call for input idx of the k-th update returns.
Returned(call, k, idx, key, tweak) ==
  /\ result' = call.result
  /\ terms' = IF call.result = "Ok"
              THEN [terms EXCEPT ![k].signed[idx] =
                      Append(@, [key |-> key, tweak |-> tweak])]
              ELSE terms

MaySign(tx, idx) == Len(tx.input[idx].witness) < MaxWitness

\* The call of add_signature in both methods of PayoutUpdate.
SignUpdate(idx, key, tweak) ==
  /\ MaySign(update[1].transaction, idx)
  /\ \E verified \in verify_schnorr :
       LET call == add_signature(update[1].transaction, idx, Prevouts(update[1]),
                                 key, tweak, verified)
       IN  /\ update' = [update EXCEPT ![1].transaction = call.transaction]
           /\ Returned(call, Len(terms), idx, key, tweak)
  /\ UNCHANGED chain

\* PayoutUpdate::add_coinbase_sig
AddCoinbaseSig(key, tweak) == update # <<>> /\ SignUpdate(1, key, tweak)

\* PayoutUpdate::add_prev_update_sig
AddPrevUpdateSig(key, tweak) ==
  /\ update # <<>>
  /\ update[1].prev_update_txout # <<>>
  /\ SignUpdate(2, key, tweak)

\* The outputs a transaction really spends.
SpentBy(tx) == [j \in DOMAIN tx.input |-> Spent(tx.input[j].previous_output)]

\* add_signature is public: the caller signs an update that was built, also one
\* that a later update spends already, and passes the outputs that it spends.
SignBuilt(k, idx, key, tweak) ==
  /\ MaySign(chain[k], idx)
  /\ \E verified \in verify_schnorr :
       LET call == add_signature(chain[k], idx, SpentBy(chain[k]), key, tweak, verified)
       IN  /\ chain' = [chain EXCEPT ![k] = call.transaction]
           /\ Returned(call, k, idx, key, tweak)
  /\ UNCHANGED update

\* PayoutUpdate::add_prev_update_sig on the first update
NoPrevUpdate ==
  /\ update # <<>>
  /\ update[1].prev_update_txout = <<>>
  /\ result' = "NoPrevUpdateTxOut"
  /\ UNCHANGED <<chain, update, terms>>

\* PayoutUpdate::build
Build ==
  /\ update # <<>>
  /\ chain' = Append(chain, update[1].transaction)
  /\ update' = <<>>
  /\ result' = "Ok"
  /\ UNCHANGED terms

Next ==
  \/ \E v \in Value, s \in Script, f \in Fee : New(v, s, f)
  \/ \E v \in Value, f \in Fee : NewPanics(v, f)
  \/ \E k \in Key, t \in Tweak \cup {NoTweak, BadTweak} :
       \/ AddCoinbaseSig(k, t) \/ AddPrevUpdateSig(k, t)
       \/ \E n \in DOMAIN chain : \E i \in DOMAIN chain[n].input : SignBuilt(n, i, k, t)
  \/ NoPrevUpdate
  \/ Build

Spec == Init /\ [][Next]_vars

------------------------------------------------------------------------------
\* Every transaction the crate has made.
Transactions == ToSet(chain) \cup {u.transaction : u \in ToSet(update)}

\* TaprootError is not among the results: the spent outputs always match the
\* inputs.
TypeOK ==
  /\ Len(chain) <= MaxUpdates
  /\ Len(update) <= 1
  /\ Len(terms) = Len(chain) + Len(update)
  /\ \A tx \in Transactions :
       /\ Len(tx.input) \in 1..2
       /\ Len(tx.output) = 1
       /\ tx.output[1].value \in 0..MaxAmount
       /\ tx.output[1].script_pubkey \in Script
  /\ result \in {"none", "Ok", "panic"} \cup (UhpoError \ {"TaprootError", "Other"})

\* The hash that sig signs is the one a verifier computes for input i of tx.
Commits(tx, i, sig) ==
  sig.signature.message = taproot_sighash(tx, i, SpentBy(tx), sig.kind)

\* The key pair that may spend what input i of tx spends.
OwnerOf(tx, i) == Owner[Spent(tx.input[i].previous_output).script_pubkey]

\* The check of a key spend: the hash and the key.
Valid(tx, i, sig) == Commits(tx, i, sig) /\ sig.signature.keypair = OwnerOf(tx, i)

\* Every signature is one for the finished transaction: it commits to the
\* input it was put on and to the outputs that the inputs really spend, in
\* their order, whatever was signed before or after it, on this input, on the
\* other one or on the update that is spent, and its last byte names the kind
\* of hash that was signed (add_coinbase_sig, add_prev_update_sig,
\* add_signature).
SignaturesCommit ==
  \A tx \in Transactions : \A i \in DOMAIN tx.input :
    \A sig \in ToSet(tx.input[i].witness) : Commits(tx, i, sig)

\* An input of an update that was built can be spent along the key path if and
\* only if exactly one signing call succeeded on it, before or after build, and
\* that one with the key pair that may spend it.  add_signature checks a
\* signature only against the pair that made it: a call with another key, or
\* without the tweak, returns Ok and spoils the input, as a second success
\* does; failed calls, in any number, do not stand in the way of a later one
\* (add_signature).
SpendableIffOwnerSignedOnce ==
  \A k \in DOMAIN chain : \A i \in DOMAIN chain[k].input :
    LET witness == chain[k].input[i].witness
    IN  (Len(witness) = 1 /\ Valid(chain[k], i, witness[1]))
          <=> terms[k].signed[i] = <<OwnerOf(chain[k], i)>>

\* The chain links up however its updates are signed: each one refers to its
\* predecessor by the id that one has in the end, although the predecessor may
\* get signatures after the id was taken, and no outpoint is spent twice (new,
\* TransactionBuilder::add_input, add_signature).
UpdatesFormChain ==
  LET spends(tx) == {tx.input[i].previous_output : i \in DOMAIN tx.input}
  IN  \A k \in DOMAIN chain :
        /\ k > 1 => [txid |-> compute_txid(chain[k - 1]), vout |-> 0] \in spends(chain[k])
        /\ \A j \in 1..(k - 1) : spends(chain[j]) \cap spends(chain[k]) = {}

\* Nothing is lost or made along the chain: the last output is worth all the
\* coinbases that went in less all the fees (new).
ValueConserved ==
  \A k \in DOMAIN chain :
    chain[k].output[1].value = terms[k].coinbases - terms[k].fees

\* A call that fails leaves the update and the chain as they were, so the caller
\* may try again (add_coinbase_sig, add_prev_update_sig, add_signature).
FailureChangesNothing ==
  [][result' # "Ok" => UNCHANGED <<chain, update>>]_vars
==============================================================================
