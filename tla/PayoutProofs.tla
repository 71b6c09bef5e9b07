----------------------------- MODULE PayoutProofs -----------------------------
(***************************************************************************)
(* Theorems about module Payout, for chains of every length and every set  *)
(* of values, fees, scripts, keys and tweaks.                              *)
(***************************************************************************)
EXTENDS Payout, SequenceTheorems, TLAPS

\* The first update spends a coinbase, the others their predecessor as well.
Arity(k) == IF k = 1 THEN 1 ELSE 2

CoinbasePoint(k, v) == [txid |-> compute_txid(Coinbase(k, v)), vout |-> 0]
UpdatePoint(tx) == [txid |-> compute_txid(tx), vout |-> 0]

\* What the k-th update spends, and the transaction that spends it.
Points(k, v) ==
  [i \in 1..Arity(k) |-> IF i = 1 THEN CoinbasePoint(k, v) ELSE UpdatePoint(chain[k - 1])]

Made(points, wits, out) ==
  [input  |-> [i \in DOMAIN points |-> [previous_output |-> points[i], witness |-> wits[i]]],
   output |-> <<out>>]

Id(points, out) == [input |-> points, output |-> <<out>>]

\* The outpoints of n inputs, and the outputs they refer to.
Spending(points, n) ==
  n \in 1..2 /\ DOMAIN points = 1..n /\ points = [i \in 1..n |-> points[i]]
SpentAt(points) == [j \in DOMAIN points |-> Spent(points[j])]

\* The witness that a sequence of signing calls leaves on one of its inputs.
Pair == [key : Key, tweak : Tweak \cup {NoTweak, BadTweak}]
Hash(points, out, i) ==
  [txid |-> Id(points, out), input |-> i,
   prevouts |-> SpentAt(points), kind |-> "All"]
Element(points, out, i, pair) == Finished(sign_schnorr(Hash(points, out, i), pair))
Witness(points, out, i, pairs) ==
  [n \in DOMAIN pairs |-> Element(points, out, i, pairs[n])]

\* An update is determined by what it spends, by its output and by its terms:
\* the witness of an input has one good signature for every successful call,
\* made by the pair of that call, and the output is what the terms leave.
IssuedAs(tx, points, out, term) ==
  /\ tx = Made(points, [i \in DOMAIN points |-> Witness(points, out, i, term.signed[i])], out)
  /\ out \in [value : 0..MaxAmount, script_pubkey : Script]
  /\ out.value = term.coinbases - term.fees

\* The PayoutUpdate remembers the outputs that the transaction spends.
Draft(tx, k, v) ==
  [transaction |-> tx, coinbase_txout |-> TxOut(v, CoinbaseScript),
   prev_update_txout |-> IF k = 1 THEN <<>> ELSE <<chain[k - 1].output[1]>>]

Issued(k) ==
  \E v \in Value : \E out : IssuedAs(chain[k], Points(k, v), out, terms[k])

Drafted ==
  \E v \in Value : \E tx, out :
    /\ IssuedAs(tx, Points(Len(terms), v), out, terms[Len(terms)])
    /\ update = <<Draft(tx, Len(terms), v)>>

Term == [coinbases : Nat, fees : Nat, signed : [1..2 -> Seq(Pair)]]

\* What a call may return: TaprootError and Other are never seen.
Errors == UhpoError \ {"TaprootError", "Other"}

PayoutInv ==
  /\ \E S : chain \in Seq(S)
  /\ terms \in Seq(Term)
  /\ Len(terms) <= MaxUpdates
  /\ \/ update = <<>> /\ Len(terms) = Len(chain)
     \/ Drafted /\ Len(terms) = Len(chain) + 1
  /\ \A k \in 1..Len(chain) : Issued(k)
  /\ result \in {"none", "Ok", "panic"} \cup Errors

------------------------------------------------------------------------------
\* A function on 1..n is a sequence of length n.
LEMMA FunctionIsSequence ==
  ASSUME NEW n \in Nat, NEW f, DOMAIN f = 1..n, f = [i \in 1..n |-> f[i]]
  PROVE  \E S : f \in Seq(S) /\ Len(f) = n
<1> DEFINE S == {f[i] : i \in 1..n}
<1>1. f \in [1..n -> S]
  OBVIOUS
<1>2. f \in Seq(S)
  BY <1>1, SeqDef
<1>3. Len(f) = n
  <2>1. DOMAIN f = 1..Len(f) /\ Len(f) \in Nat
    BY <1>2, LenProperties
  <2> QED BY <2>1
<1> QED BY <1>2, <1>3

\* Two sequences of one element.
LEMMA PairOfSingles == ASSUME NEW a, NEW b PROVE <<a>> \o <<b>> = <<a, b>>
<1>1. <<a>> \in Seq({a, b}) /\ <<b>> \in Seq({a, b}) /\ <<a, b>> \in Seq({a, b})
  OBVIOUS
<1>2. /\ Len(<<a>> \o <<b>>) = 2 /\ <<a>> \o <<b>> \in Seq({a, b})
      /\ (<<a>> \o <<b>>)[1] = a /\ (<<a>> \o <<b>>)[2] = b
  BY <1>1, ConcatProperties
<1>3. /\ Len(<<a, b>>) = 2 /\ <<a, b>>[1] = a /\ <<a, b>>[2] = b
  OBVIOUS
<1> DEFINE s == <<a>> \o <<b>>
           t == <<a, b>>
<1>4. s \in Seq({a, b}) /\ t \in Seq({a, b}) /\ Len(s) = 2 /\ Len(t) = 2
      /\ s[1] = t[1] /\ s[2] = t[2]
  BY <1>1, <1>2, <1>3
<1> HIDE DEF s, t
<1>5. s = t
  BY <1>4, SeqEqual
<1> QED BY <1>5 DEF s, t

\* The parts of a transaction.
LEMMA MadeFacts ==
  ASSUME NEW n \in Nat, NEW points, NEW wits, NEW out,
         DOMAIN points = 1..n, points = [i \in 1..n |-> points[i]],
         NEW tx, tx = Made(points, wits, out)
  PROVE  /\ DOMAIN tx.input = 1..n /\ Len(tx.input) = n
         /\ \A i \in 1..n : tx.input[i].previous_output = points[i] /\ tx.input[i].witness = wits[i]
         /\ tx.output = <<out>>
         /\ compute_txid(tx) = Id(points, out)
<1>1. /\ tx.input = [i \in 1..n |-> [previous_output |-> points[i], witness |-> wits[i]]]
      /\ tx.output = <<out>>
  BY DEF Made
<1>2. DOMAIN tx.input = 1..n /\ Len(tx.input) = n
  <2>1. DOMAIN tx.input = 1..n /\ tx.input = [i \in 1..n |-> tx.input[i]]
    BY <1>1
  <2> QED BY <2>1, FunctionIsSequence
<1>3. \A i \in 1..n : tx.input[i].previous_output = points[i] /\ tx.input[i].witness = wits[i]
  BY <1>1
<1>4. [i \in DOMAIN tx.input |-> tx.input[i].previous_output] = points
  BY <1>2, <1>3
<1> QED BY <1>1, <1>2, <1>3, <1>4 DEF compute_txid, Id

\* An update spends its coinbase first and then, unless it is the first one, its
\* predecessor (PayoutUpdate::new).
LEMMA PointsFacts ==
  ASSUME NEW k \in Nat \ {0}, NEW v
  PROVE  /\ Arity(k) \in Nat /\ Arity(k) \in 1..2
         /\ DOMAIN Points(k, v) = 1..Arity(k)
         /\ Spending(Points(k, v), Arity(k))
         /\ Points(k, v)[1] = CoinbasePoint(k, v)
         /\ k > 1 => Points(k, v)[2] = UpdatePoint(chain[k - 1])
BY DEF Points, Arity, Spending

\* What an update spends, seen from its inputs.
LEMMA SpentFacts ==
  /\ \A k, v : Spent(CoinbasePoint(k, v)) = TxOut(v, CoinbaseScript)
  /\ \A tx : Spent(UpdatePoint(tx)) = tx.output[1]
<1>1. \A k, v : Spent(CoinbasePoint(k, v)) = TxOut(v, CoinbaseScript)
  BY DEF Spent, CoinbasePoint, compute_txid, Coinbase
<1>2. \A tx : Spent(UpdatePoint(tx)) = tx.output[1]
  BY DEF Spent, UpdatePoint, compute_txid
<1> QED BY <1>1, <1>2

\* The outputs that a PayoutUpdate remembers are the ones its transaction spends
\* (new).
LEMMA PrevoutsMatch ==
  ASSUME NEW k \in Nat \ {0}, NEW v, NEW tx
  PROVE  /\ Prevouts(Draft(tx, k, v)) = SpentAt(Points(k, v))
         /\ Len(Prevouts(Draft(tx, k, v))) = Arity(k)
<1> DEFINE c == TxOut(v, CoinbaseScript)
           spent == [j \in DOMAIN Points(k, v) |-> Spent(Points(k, v)[j])]
<1>0. SpentAt(Points(k, v)) = spent
  BY DEF SpentAt
<1>1. spent[1] = c /\ DOMAIN spent = 1..Arity(k)
  BY PointsFacts, SpentFacts
<1>2. CASE k = 1
  <2>1. Prevouts(Draft(tx, k, v)) = <<c>>
    BY <1>2 DEF Prevouts, Draft
  <2>2. DOMAIN spent = 1..1 /\ Arity(k) = 1
    BY <1>1, <1>2 DEF Arity
  <2>3. spent = <<c>>
    <3> HIDE DEF c
    <3> QED BY <1>1, <2>2
  <2> QED BY <2>1, <2>2, <2>3, <1>0
<1>3. CASE k # 1
  <2> DEFINE p == chain[k - 1].output[1]
  <2>1. Prevouts(Draft(tx, k, v)) = <<c, p>>
    <3>1. Prevouts(Draft(tx, k, v)) = <<c>> \o <<p>>
      BY <1>3 DEF Prevouts, Draft
    <3> QED BY <3>1, PairOfSingles
  <2>2. spent[2] = p /\ DOMAIN spent = 1..2 /\ Arity(k) = 2
    BY <1>1, <1>3, PointsFacts, SpentFacts DEF Arity
  <2>3. spent = <<c, p>>
    <3> HIDE DEF c, p
    <3> QED BY <1>1, <2>2
  <2> QED BY <2>1, <2>2, <2>3, <1>0
<1> QED BY <1>2, <1>3

------------------------------------------------------------------------------
\* The inputs, the output and the id of an update, and what it spends.
LEMMA IssuedFacts ==
  ASSUME NEW n, NEW points, Spending(points, n),
         NEW out, NEW term, NEW tx, IssuedAs(tx, points, out, term)
  PROVE  /\ DOMAIN tx.input = 1..n /\ Len(tx.input) = n
         /\ tx.output = <<out>>
         /\ compute_txid(tx) = Id(points, out)
         /\ \A i \in 1..n : /\ tx.input[i].previous_output = points[i]
                            /\ tx.input[i].witness = Witness(points, out, i, term.signed[i])
         /\ SpentBy(tx) = SpentAt(points)
<1>0. n \in Nat /\ DOMAIN points = 1..n /\ points = [i \in 1..n |-> points[i]]
  BY DEF Spending
<1>1. PICK wits : wits = [i \in DOMAIN points |-> Witness(points, out, i, term.signed[i])]
  OBVIOUS
<1>2. tx = Made(points, wits, out)
  BY <1>1 DEF IssuedAs
<1>3. /\ DOMAIN tx.input = 1..n /\ Len(tx.input) = n
      /\ \A i \in 1..n : tx.input[i].previous_output = points[i] /\ tx.input[i].witness = wits[i]
      /\ tx.output = <<out>>
      /\ compute_txid(tx) = Id(points, out)
  BY <1>0, <1>2, MadeFacts
<1>4. \A i \in 1..n : wits[i] = Witness(points, out, i, term.signed[i])
  BY <1>0, <1>1
<1>5. SpentBy(tx) = SpentAt(points)
  BY <1>0, <1>3 DEF SpentBy, SpentAt
<1> QED BY <1>3, <1>4, <1>5

\* The witness of an input has one good signature for every call, by its pair.
Carries(tx, i, pairs) ==
  /\ DOMAIN tx.input[i].witness = 1..Len(pairs)
  /\ Len(tx.input[i].witness) = Len(pairs)
  /\ \A m \in 1..Len(pairs) : /\ Commits(tx, i, tx.input[i].witness[m])
                              /\ tx.input[i].witness[m].signature.keypair = pairs[m]

\* Every element of a witness commits to the transaction and to what it really
\* spends, and was made by the pair of its call.
LEMMA WitnessFacts ==
  ASSUME NEW n, NEW points, Spending(points, n),
         NEW out, NEW term \in Term, NEW tx, IssuedAs(tx, points, out, term), NEW i \in 1..n
  PROVE  Carries(tx, i, term.signed[i])
<1>1. PICK w, pairs : w = tx.input[i].witness /\ pairs = term.signed[i]
  OBVIOUS
<1>2. w = Witness(points, out, i, pairs)
  BY <1>1, IssuedFacts
<1>3. pairs \in Seq(Pair) /\ DOMAIN pairs = 1..Len(pairs) /\ Len(pairs) \in Nat
  <2>1. i \in 1..2
    BY DEF Spending
  <2> QED BY <1>1, <2>1 DEF Term
<1>4. DOMAIN w = 1..Len(pairs) /\ w = [m \in 1..Len(pairs) |-> w[m]]
  BY <1>2, <1>3 DEF Witness
<1>5. Len(w) = Len(pairs)
  BY <1>3, <1>4, FunctionIsSequence
<1>6. ASSUME NEW m \in 1..Len(pairs)
      PROVE  Commits(tx, i, w[m]) /\ w[m].signature.keypair = pairs[m]
  <2>1. w[m] = Element(points, out, i, pairs[m])
    BY <1>2, <1>3 DEF Witness
  <2>2. /\ w[m].signature.message = Hash(points, out, i) /\ w[m].kind = "All"
        /\ w[m].signature.keypair = pairs[m]
    BY <2>1 DEF Element, Finished, sign_schnorr
  <2>3. compute_txid(tx) = Id(points, out)
        /\ SpentBy(tx) = SpentAt(points)
    BY IssuedFacts
  <2> QED BY <2>2, <2>3 DEF Commits, taproot_sighash, Hash
<1> QED BY <1>1, <1>4, <1>5, <1>6 DEF Carries

\* An update stays as it is while the chain and the terms grow, and while others
\* are signed: the one it spends keeps its id and its output.
LEMMA IssuedKept ==
  ASSUME NEW k \in Nat \ {0}, Issued(k), chain'[k] = chain[k],
         k > 1 => compute_txid(chain'[k - 1]) = compute_txid(chain[k - 1]),
         terms'[k] = terms[k]
  PROVE  Issued(k)'
<1>1. \A v : Points(k, v)' = Points(k, v)
  BY DEF Points, Arity, UpdatePoint
<1> QED BY <1>1 DEF Issued

\* A call that only returns.
LEMMA OnlyReturns ==
  ASSUME PayoutInv, UNCHANGED <<chain, update, terms>>,
         result' \in {"none", "Ok", "panic"} \cup Errors
  PROVE  PayoutInv'
<1>1. \A i, x : Points(i, x)' = Points(i, x)
  BY DEF Points
<1>2. \A t, i, x : Draft(t, i, x)' = Draft(t, i, x)
  BY DEF Draft
<1>3. Drafted' <=> Drafted
  BY <1>1, <1>2 DEF Drafted
<1>4. ASSUME NEW i \in 1..Len(chain) PROVE Issued(i)'
  BY IssuedKept DEF PayoutInv
<1> QED BY <1>3, <1>4 DEF PayoutInv

\* What the caller passes to new.
LEMMA PrevUpdateFacts ==
  ASSUME NEW S, chain \in Seq(S), NEW k \in Nat, k = Len(chain) + 1
  PROVE  /\ k = 1 <=> PrevUpdate = <<>>
         /\ k = 1 <=> chain = <<>>
         /\ k # 1 => PrevUpdate = <<chain[k - 1]>> /\ k - 1 \in 1..Len(chain)
<1>1. k = 1 <=> chain = <<>>
  OBVIOUS
<1>2. k # 1 => k - 1 \in 1..Len(chain) /\ k - 1 = Len(chain)
  OBVIOUS
<1> QED BY <1>1, <1>2 DEF PrevUpdate, Last

\* One input more (TransactionBuilder::add_input).
LEMMA SecondInput ==
  ASSUME NEW a, NEW b, NEW txid,
         b = [previous_output |-> [txid |-> txid, vout |-> 0], witness |-> <<>>]
  PROVE  add_input([input |-> <<a>>, output |-> <<>>], txid, 0)
           = [input |-> <<a, b>>, output |-> <<>>]
<1>1. Append(<<a>>, b) = <<a, b>>
  <2>1. <<a>> \in Seq({a, b}) /\ b \in {a, b}
    OBVIOUS
  <2>2. Append(<<a>>, b) = <<a>> \o <<b>>
    BY <2>1, AppendIsConcat
  <2> QED BY <2>2, PairOfSingles
<1>2. PICK r : r = [input |-> <<a>>, output |-> <<>>]
  OBVIOUS
<1>3. add_input(r, txid, 0) = [r EXCEPT !.input = Append(@, b)]
  BY DEF add_input
<1>4. PICK one, two : one = <<a>> /\ two = <<a, b>>
  OBVIOUS
<1>5. r = [input |-> one, output |-> <<>>] /\ Append(one, b) = two
  BY <1>1, <1>2, <1>4
<1>6. [r EXCEPT !.input = Append(@, b)] = [input |-> two, output |-> <<>>]
  <2>1. r.input = one
    BY <1>5
  <2>2. [r EXCEPT !.input = Append(@, b)] = [r EXCEPT !.input = two]
    BY <2>1, <1>5, Zenon
  <2>3. [r EXCEPT !.input = two] = [input |-> two, output |-> <<>>]
    BY <1>5
  <2> QED BY <2>2, <2>3
<1> QED BY <1>2, <1>3, <1>4, <1>6

\* The transaction of a new update (new, TransactionBuilder).
LEMMA NewTransaction ==
  ASSUME NEW S, chain \in Seq(S), NEW k \in Nat, k = Len(chain) + 1, NEW v, NEW s, NEW a,
         NEW wits, \A i \in 1..Arity(k) : wits[i] = <<>>
  PROVE  add_output(Inputs(PrevUpdate, Coinbase(k, v)), s, a)
           = Made(Points(k, v), wits, TxOut(a, s))
<1> DEFINE in1 == [previous_output |-> CoinbasePoint(k, v), witness |-> <<>>]
           in2 == [previous_output |-> UpdatePoint(chain[k - 1]), witness |-> <<>>]
           points == Points(k, v)
           input == [i \in DOMAIN points |-> [previous_output |-> points[i], witness |-> wits[i]]]
           tx1 == add_input(EmptyTransaction, compute_txid(Coinbase(k, v)), 0)
<1>1. \A x : Append(<<>>, x) = <<x>>
  OBVIOUS
<1>3. tx1 = [input |-> <<in1>>, output |-> <<>>]
  BY <1>1 DEF add_input, EmptyTransaction, CoinbasePoint
<1>4. /\ points[1] = CoinbasePoint(k, v) /\ DOMAIN points = 1..Arity(k)
      /\ k # 1 => points[2] = UpdatePoint(chain[k - 1])
  <2>1. k \in Nat \ {0} /\ (k # 1 => k > 1)
    OBVIOUS
  <2> QED BY <2>1, PointsFacts
<1>5. CASE k = 1
  <2>1. Inputs(PrevUpdate, Coinbase(k, v)) = [input |-> <<in1>>, output |-> <<>>]
    BY <1>3, <1>5, PrevUpdateFacts DEF Inputs
  <2>2. add_output([input |-> <<in1>>, output |-> <<>>], s, a)
          = [input |-> <<in1>>, output |-> <<TxOut(a, s)>>]
    BY <1>1 DEF add_output
  <2>3. DOMAIN input = 1..1 /\ input[1] = in1
    <3>1. Arity(k) = 1 /\ 1 \in 1..1
      BY <1>5 DEF Arity
    <3>2. wits[1] = <<>>
      BY <3>1
    <3> HIDE DEF points
    <3> QED BY <3>1, <3>2, <1>4
  <2>4. input = <<in1>>
    <3> HIDE DEF in1
    <3>1. input = [i \in 1..1 |-> input[i]]
      BY <2>3
    <3> HIDE DEF input
    <3> QED BY <2>3, <3>1
  <2> QED BY <2>1, <2>2, <2>4 DEF Made
<1>6. CASE k # 1
  <2>1. Inputs(PrevUpdate, Coinbase(k, v)) = [input |-> <<in1, in2>>, output |-> <<>>]
    <3>1. PrevUpdate # <<>> /\ PrevUpdate[1] = chain[k - 1]
      BY <1>6, PrevUpdateFacts
    <3>2. Inputs(PrevUpdate, Coinbase(k, v)) = add_input(tx1, compute_txid(chain[k - 1]), 0)
      BY <3>1 DEF Inputs
    <3>3. add_input([input |-> <<in1>>, output |-> <<>>], compute_txid(chain[k - 1]), 0)
            = [input |-> <<in1, in2>>, output |-> <<>>]
      <4>1. in2 = [previous_output |-> [txid |-> compute_txid(chain[k - 1]), vout |-> 0],
                   witness |-> <<>>]
        BY DEF UpdatePoint
      <4> HIDE DEF in1, in2
      <4> QED BY <4>1, SecondInput
    <3> QED BY <3>2, <3>3, <1>3
  <2>2. add_output([input |-> <<in1, in2>>, output |-> <<>>], s, a)
          = [input |-> <<in1, in2>>, output |-> <<TxOut(a, s)>>]
    <3> HIDE DEF in1, in2
    <3> QED BY <1>1 DEF add_output
  <2>3. DOMAIN input = 1..2 /\ input[1] = in1 /\ input[2] = in2
    <3>1. /\ DOMAIN points = 1..2 /\ 1 \in 1..2 /\ 2 \in 1..2
          /\ wits[1] = <<>> /\ wits[2] = <<>>
      BY <1>4, <1>6 DEF Arity
    <3> HIDE DEF points
    <3> QED BY <3>1, <1>4, <1>6
  <2>4. input = <<in1, in2>>
    <3>1. input = [i \in 1..2 |-> input[i]]
      BY <2>3
    <3> HIDE DEF in1, in2, input
    <3> QED BY <2>3, <3>1
  <2> QED BY <2>1, <2>2, <2>4 DEF Made
<1> QED BY <1>5, <1>6

\* A new update (PayoutUpdate::new).
LEMMA NewStep ==
  ASSUME PayoutInv, NEW v \in Value, NEW s \in Script, NEW f \in Fee, New(v, s, f)
  PROVE  PayoutInv'
<1>1. PICK S : chain \in Seq(S)
  BY DEF PayoutInv
<1> DEFINE k == Len(chain) + 1
           coinbase == Coinbase(k, v)
           total == TotalAmount(PrevUpdate, coinbase)
           out == TxOut(total - f, s)
           before == IF terms = <<>> THEN [coinbases |-> 0, fees |-> 0] ELSE Last(terms)
           term == [coinbases |-> before.coinbases + v, fees |-> before.fees + f,
                    signed |-> <<<<>>, <<>>>>]
           tx == add_output(Inputs(PrevUpdate, coinbase), s, total - f)
           draft == [transaction |-> tx,
                     coinbase_txout |-> coinbase.output[1],
                     prev_update_txout |->
                       [i \in DOMAIN PrevUpdate |-> PrevUpdate[i].output[1]]]
<1>2. /\ update = <<>> /\ Len(chain) < MaxUpdates /\ total <= MaxAmount /\ f <= total
      /\ update' = <<draft>> /\ terms' = Append(terms, term) /\ result' = "Ok"
      /\ chain' = chain
  BY DEF New
<1>3. /\ terms \in Seq(Term) /\ Len(terms) = Len(chain) /\ Len(chain) \in Nat
      /\ k \in Nat \ {0}
  <2>1. \A u : <<u>> # <<>>
    OBVIOUS
  <2> QED BY <1>1, <1>2, <2>1 DEF PayoutInv, Drafted
<1>4. v \in 0..MaxAmount /\ f \in 0..MaxAmount /\ MaxAmount \in Nat
  BY PayoutAssumption
<1>5. /\ before.coinbases \in Nat /\ before.fees \in Nat
      /\ total = v + before.coinbases - before.fees /\ total \in Int
  <2>1. coinbase.output[1].value = v
    BY DEF Coinbase, TxOut
  <2>2. CASE k = 1
    <3>1. PrevUpdate = <<>> /\ terms = <<>>
      BY <1>1, <1>3, <2>2, PrevUpdateFacts
    <3>2. before = [coinbases |-> 0, fees |-> 0]
      BY <3>1
    <3>3. total = v + 0
      BY <3>1, <2>1 DEF TotalAmount
    <3> HIDE DEF before, total
    <3> QED BY <3>2, <3>3, <1>4
  <2>3. CASE k # 1
    <3>1. PrevUpdate = <<chain[k - 1]>> /\ k - 1 \in 1..Len(chain)
      BY <1>1, <1>3, <2>3, PrevUpdateFacts
    <3>2. terms # <<>> /\ before = terms[k - 1] /\ terms[k - 1] \in Term
      BY <1>3, <2>3 DEF Last
    <3>3. total = v + chain[k - 1].output[1].value
      BY <3>1, <2>1 DEF TotalAmount
    <3>4. PICK w \in Value : \E o : IssuedAs(chain[k - 1], Points(k - 1, w), o, terms[k - 1])
      BY <3>1 DEF PayoutInv, Issued
    <3>5. PICK o : IssuedAs(chain[k - 1], Points(k - 1, w), o, terms[k - 1])
      BY <3>4
    <3>6. chain[k - 1].output[1] = o
      BY <3>5 DEF IssuedAs, Made
    <3>7. o.value = terms[k - 1].coinbases - terms[k - 1].fees
      BY <3>5 DEF IssuedAs
    <3> HIDE DEF before, total
    <3>8. before.coinbases \in Nat /\ before.fees \in Nat
      BY <3>2 DEF Term
    <3> QED BY <3>2, <3>3, <3>6, <3>7, <3>8, <1>4
  <2> QED BY <2>2, <2>3
<1>6. term \in Term /\ term.coinbases - term.fees = total - f /\ term.signed = <<<<>>, <<>>>>
  <2>1. \A e \in Seq(Pair) : <<e, e>> \in [1..2 -> Seq(Pair)]
    OBVIOUS
  <2>2. <<>> \in Seq(Pair)
    OBVIOUS
  <2>3. PICK none : none = <<<<>>, <<>>>>
    OBVIOUS
  <2>4. none \in [1..2 -> Seq(Pair)]
    BY <2>1, <2>2, <2>3
  <2>5. term = [coinbases |-> before.coinbases + v, fees |-> before.fees + f, signed |-> none]
    BY <2>3
  <2> HIDE DEF before, total, term
  <2>6. PICK c, g : c = before.coinbases + v /\ g = before.fees + f
    OBVIOUS
  <2>7. c \in Nat /\ g \in Nat /\ c - g = total - f
    BY <2>6, <1>4, <1>5
  <2>8. term = [coinbases |-> c, fees |-> g, signed |-> none]
    BY <2>5, <2>6
  <2>9. term \in Term /\ term.coinbases = c /\ term.fees = g /\ term.signed = none
    BY <2>4, <2>7, <2>8 DEF Term
  <2> QED BY <2>3, <2>7, <2>9
<1>7. /\ terms' \in Seq(Term) /\ Len(terms') = k /\ terms'[k] = term
      /\ \A i \in 1..Len(chain) : terms'[i] = terms[i]
  <2> HIDE DEF term
  <2> QED BY <1>2, <1>3, <1>6
<1>8. draft = Draft(tx, k, v)
  <2>1. coinbase.output[1] = TxOut(v, CoinbaseScript)
    BY DEF Coinbase
  <2>2. [i \in DOMAIN PrevUpdate |-> PrevUpdate[i].output[1]]
          = IF k = 1 THEN <<>> ELSE <<chain[k - 1].output[1]>>
    <3>1. CASE k = 1
      BY <1>1, <1>3, <3>1, PrevUpdateFacts
    <3>2. CASE k # 1
      <4>1. PrevUpdate = <<chain[k - 1]>>
        BY <1>1, <1>3, <3>2, PrevUpdateFacts
      <4> QED BY <3>2, <4>1
    <3> QED BY <3>1, <3>2
  <2> QED BY <2>1, <2>2 DEF Draft
<1>9. PICK n, t, o : n = k /\ t = tx /\ o = out
  OBVIOUS
<1>10. IssuedAs(t, Points(n, v)', o, terms'[n])
  <2>2. Points(n, v)' = Points(n, v) /\ DOMAIN Points(n, v) = 1..Arity(n)
    BY <1>2, <1>3, <1>9, PointsFacts DEF Points
  <2>3. PICK wits : wits = [i \in DOMAIN Points(n, v) |->
                              Witness(Points(n, v), o, i, terms'[n].signed[i])]
    OBVIOUS
  <2>6. \A i \in 1..Arity(n) : wits[i] = <<>>
    <3>1. ASSUME NEW i \in 1..Arity(n)
          PROVE  wits[i] = <<>>
      <4>1. i \in 1..2 /\ <<<<>>, <<>>>>[i] = <<>>
        BY DEF Arity
      <4>2. terms'[n].signed[i] = <<>>
        BY <4>1, <1>6, <1>7, <1>9
      <4>3. wits[i] = Witness(Points(n, v), o, i, <<>>)
        BY <2>2, <2>3, <4>2
      <4> QED BY <4>3 DEF Witness
    <3> QED BY <3>1
  <2>1. t = Made(Points(n, v), wits, o)
    BY <1>1, <1>3, <1>9, <2>6, NewTransaction
  <2>4. o \in [value : 0..MaxAmount, script_pubkey : Script] /\ o.value = total - f
    <3> DEFINE a == total - f
    <3>1. a \in 0..MaxAmount
      <4>1. total <= MaxAmount /\ f <= total /\ total \in Int
        BY <1>2, <1>5
      <4> HIDE DEF total
      <4> QED BY <4>1, <1>4
    <3>2. o = [value |-> a, script_pubkey |-> s]
      BY <1>9 DEF TxOut
    <3> HIDE DEF a
    <3>3. o \in [value : 0..MaxAmount, script_pubkey : Script] /\ o.value = a
      BY <3>1, <3>2
    <3> QED BY <3>3 DEF a
  <2>5. o.value = terms'[n].coinbases - terms'[n].fees
    BY <2>4, <1>6, <1>7, <1>9
  <2> HIDE DEF tx, out
  <2> QED BY <2>1, <2>2, <2>3, <2>4, <2>5 DEF IssuedAs
<1>12. Drafted'
  <2>1. Draft(t, n, v)' = draft
    BY <1>2, <1>8, <1>9 DEF Draft
  <2> HIDE DEF tx, draft, out
  <2>2. update' = <<Draft(t, n, v)'>> /\ Len(terms') = n
    BY <2>1, <1>2, <1>7, <1>9
  <2> QED BY <2>2, <1>10 DEF Drafted
<1>11. \A i \in 1..Len(chain) : Issued(i)'
  <2> SUFFICES ASSUME NEW i \in 1..Len(chain) PROVE Issued(i)'
    OBVIOUS
  <2> QED BY <1>2, <1>7, IssuedKept DEF PayoutInv
<1> HIDE DEF k
<1> QED BY <1>1, <1>2, <1>3, <1>7, <1>11, <1>12, PayoutAssumption DEF PayoutInv, k

------------------------------------------------------------------------------
\* A signature is pushed onto the witness of an input (add_signature).
PushInput(tx, idx, sig) == [tx EXCEPT !.input[idx].witness = Append(@, sig)]

\* The rest of the transaction stays as it is ...
LEMMA PushedTransaction ==
  ASSUME NEW n \in Nat, NEW points, DOMAIN points = 1..n, NEW wits, NEW out,
         NEW idx \in 1..n, NEW sig, NEW ws,
         ws = [i \in 1..n |-> IF i = idx THEN Append(wits[i], sig) ELSE wits[i]]
  PROVE  PushInput(Made(points, wits, out), idx, sig) = Made(points, ws, out)
<1> DEFINE input == [i \in 1..n |-> [previous_output |-> points[i], witness |-> wits[i]]]
           in == [input[idx] EXCEPT !.witness = Append(@, sig)]
           pushed == [input EXCEPT ![idx] = in]
<1>1. Made(points, wits, out) = [input |-> input, output |-> <<out>>]
  BY DEF Made
<1>2. pushed = [i \in 1..n |-> [previous_output |-> points[i], witness |-> ws[i]]]
  <2>1. pushed[idx] = [previous_output |-> points[idx], witness |-> ws[idx]]
    BY DEF pushed
  <2>2. \A i \in 1..n : i # idx => pushed[i] = [previous_output |-> points[i], witness |-> ws[i]]
    BY DEF pushed
  <2>3. DOMAIN pushed = 1..n /\ pushed = [i \in 1..n |-> pushed[i]]
    BY DEF pushed
  <2> HIDE DEF pushed
  <2> QED BY <2>1, <2>2, <2>3
<1>4. PushInput([input |-> input, output |-> <<out>>], idx, sig)
        = [input |-> pushed, output |-> <<out>>]
  <2> DEFINE r == [input |-> input, output |-> <<out>>]
  <2>1. r.input = input
    OBVIOUS
  <2>2. PushInput(r, idx, sig) = [r EXCEPT !.input = pushed]
    <3> HIDE DEF r, input
    <3> QED BY <2>1 DEF PushInput
  <2> HIDE DEF pushed, input
  <2> QED BY <2>2
<1>5. Made(points, ws, out) = [input |-> pushed, output |-> <<out>>]
  <2> HIDE DEF pushed
  <2> QED BY <1>2 DEF Made
<1> HIDE DEF pushed, input
<1> QED BY <1>1, <1>4, <1>5

\* ... and so does what the PayoutUpdate remembers.
LEMMA SignedDraft ==
  ASSUME NEW tx, NEW t, NEW k, NEW v
  PROVE  [<<Draft(tx, k, v)>> EXCEPT ![1].transaction = t] = <<Draft(t, k, v)>>
<1> DEFINE d == Draft(tx, k, v)
           e == [d EXCEPT !.transaction = t]
<1>1. e = Draft(t, k, v)
  BY DEF Draft
<1>2. [<<d>> EXCEPT ![1].transaction = t] = [<<d>> EXCEPT ![1] = e]
  <2> HIDE DEF d
  <2> QED OBVIOUS
<1>3. [<<d>> EXCEPT ![1] = e] = <<e>>
  <2> HIDE DEF d, e
  <2> QED OBVIOUS
<1> HIDE DEF e
<1> QED BY <1>1, <1>2, <1>3

\* One more call, one more signature.
LEMMA WitnessGrows ==
  ASSUME NEW points, NEW out, NEW i, NEW pairs \in Seq(Pair), NEW p \in Pair
  PROVE  Witness(points, out, i, Append(pairs, p))
           = Append(Witness(points, out, i, pairs), Element(points, out, i, p))
<1> DEFINE E == {Element(points, out, i, q) : q \in Pair}
           w == Witness(points, out, i, pairs)
           more == Append(pairs, p)
           x == Witness(points, out, i, more)
           y == Append(w, Element(points, out, i, p))
<1>1. /\ more \in Seq(Pair) /\ Len(more) = Len(pairs) + 1 /\ Len(pairs) \in Nat
      /\ \A n \in 1..Len(pairs) : more[n] = pairs[n]
      /\ more[Len(pairs) + 1] = p
  BY AppendProperties
<1>2. w \in Seq(E) /\ Len(w) = Len(pairs)
      /\ \A n \in 1..Len(pairs) : w[n] = Element(points, out, i, pairs[n])
  <2>1. DOMAIN pairs = 1..Len(pairs) /\ \A n \in 1..Len(pairs) : pairs[n] \in Pair
    BY LenProperties, ElementOfSeq
  <2>2. w \in [1..Len(pairs) -> E]
    BY <2>1 DEF Witness
  <2>3. w \in Seq(E) /\ Len(w) = Len(pairs)
    <3> HIDE DEF w, E
    <3> QED BY <1>1, <2>2, SeqDef, LenProperties
  <2> QED BY <2>1, <2>3 DEF Witness
<1>3. x \in Seq(E) /\ Len(x) = Len(pairs) + 1
      /\ \A n \in 1..(Len(pairs) + 1) : x[n] = Element(points, out, i, more[n])
  <2>0. Len(more) \in Nat /\ Len(more) = Len(pairs) + 1
    BY <1>1
  <2>1. DOMAIN more = 1..Len(more) /\ \A n \in 1..Len(more) : more[n] \in Pair
    BY <1>1, LenProperties, ElementOfSeq
  <2>2. x \in [1..Len(more) -> E]
    <3> HIDE DEF more
    <3> QED BY <2>1 DEF Witness
  <2>3. x \in Seq(E) /\ Len(x) = Len(more)
    <3> HIDE DEF x, E
    <3> QED BY <2>0, <2>2, SeqDef, LenProperties
  <2> HIDE DEF more
  <2> QED BY <2>0, <2>1, <2>3 DEF Witness
<1>4. Element(points, out, i, p) \in E
  OBVIOUS
<1> HIDE DEF w, E, more
<1>5. /\ y \in Seq(E) /\ Len(y) = Len(pairs) + 1
      /\ \A n \in 1..Len(pairs) : y[n] = w[n]
      /\ y[Len(pairs) + 1] = Element(points, out, i, p)
  BY <1>2, <1>4, AppendProperties
<1> HIDE DEF x, y
<1>6. ASSUME NEW n \in 1..Len(x)
      PROVE  x[n] = y[n]
  <2>1. x[n] = Element(points, out, i, more[n])
    BY <1>3
  <2>2. CASE n = Len(pairs) + 1
    <3>1. more[n] = p
      BY <2>2, <1>1
    <3>2. y[n] = Element(points, out, i, p)
      BY <2>2, <1>5
    <3> QED BY <2>1, <3>1, <3>2
  <2>3. CASE n # Len(pairs) + 1
    <3>1. n \in 1..Len(pairs)
      BY <2>3, <1>1, <1>3
    <3> QED BY <3>1, <2>1, <1>1, <1>2, <1>5
  <2> QED BY <2>2, <2>3
<1>7. x = y
  BY <1>3, <1>5, <1>6, SeqEqual
<1> QED BY <1>7 DEF x, y, w, more

\* The terms of an update once a call with this pair has signed the input.
Countersigned(term, idx, pair) == [term EXCEPT !.signed[idx] = Append(@, pair)]

\* They keep their type and what they say of value and of the other input.
LEMMA CountersignedFacts ==
  ASSUME NEW term \in Term, NEW idx \in 1..2, NEW pair \in Pair
  PROVE  /\ Countersigned(term, idx, pair) \in Term
         /\ Countersigned(term, idx, pair).coinbases = term.coinbases
         /\ Countersigned(term, idx, pair).fees = term.fees
         /\ Countersigned(term, idx, pair).signed[idx] = Append(term.signed[idx], pair)
         /\ \A i \in 1..2 : i # idx =>
              Countersigned(term, idx, pair).signed[i] = term.signed[i]
<1>1. term.signed \in [1..2 -> Seq(Pair)] /\ term.coinbases \in Nat /\ term.fees \in Nat
  BY DEF Term
<1>2. Append(term.signed[idx], pair) \in Seq(Pair)
  BY <1>1
<1>3. [term.signed EXCEPT ![idx] = Append(term.signed[idx], pair)] \in [1..2 -> Seq(Pair)]
  BY <1>1, <1>2
<1>4. Countersigned(term, idx, pair)
        = [term EXCEPT !.signed = [term.signed EXCEPT ![idx] = Append(term.signed[idx], pair)]]
  BY DEF Countersigned
<1> QED BY <1>1, <1>3, <1>4 DEF Term

\* What a call of add_signature makes of an update, if it is given the outputs
\* that the update spends: it fails and leaves it alone, or adds a good signature.
LEMMA SignCall ==
  ASSUME NEW n, NEW points, Spending(points, n),
         NEW out, NEW term \in Term, NEW tx, IssuedAs(tx, points, out, term),
         NEW idx \in 1..n, NEW key \in Key, NEW tweak \in Tweak \cup {NoTweak, BadTweak},
         NEW verified \in BOOLEAN,
         NEW prevouts, prevouts = SpentAt(points), Len(prevouts) = n,
         NEW call, call = add_signature(tx, idx, prevouts, key, tweak, verified)
  PROVE  \/ call.result \in Errors /\ call.transaction = tx
         \/ /\ call.result = "Ok"
            /\ IssuedAs(call.transaction, points, out,
                        Countersigned(term, idx, [key |-> key, tweak |-> tweak]))
<1> DEFINE pair == [key |-> key, tweak |-> tweak]
           pairs == keypair(key, tweak)
           wits == [i \in DOMAIN points |-> Witness(points, out, i, term.signed[i])]
           sig == Element(points, out, idx, pair)
           after == Countersigned(term, idx, pair)
           ws == [i \in 1..n |-> IF i = idx THEN Append(wits[i], sig) ELSE wits[i]]
           checked == IF pairs = {} THEN "KeypairCreationError" ELSE "Ok"
<1>0. n \in 1..2 /\ n \in Nat /\ DOMAIN points = 1..n /\ points = [i \in 1..n |-> points[i]]
  BY DEF Spending
<1>1. /\ tx = Made(points, wits, out)
      /\ out \in [value : 0..MaxAmount, script_pubkey : Script]
      /\ out.value = term.coinbases - term.fees
  BY DEF IssuedAs
<1>2. Len(tx.input) = n /\ compute_txid(tx) = Id(points, out)
  <2> HIDE DEF wits
  <2> QED BY <1>0, <1>1, MadeFacts
<1>3. taproot_sighash(tx, idx, prevouts, "All") = Hash(points, out, idx)
  BY <1>2 DEF taproot_sighash, Hash
<1>4. pair \in Pair /\ idx \in 1..2
  BY <1>0 DEF Pair
<1>5. pairs # {} => Finished(sign_schnorr(taproot_sighash(tx, idx, prevouts, "All"),
                                          CHOOSE p \in pairs : TRUE)) = sig
  <2>1. PICK q : q = CHOOSE p \in pairs : TRUE
    OBVIOUS
  <2>2. pairs # {} => q = pair
    BY <2>1 DEF keypair
  <2>3. Finished(sign_schnorr(taproot_sighash(tx, idx, prevouts, "All"), pair)) = sig
    <3> HIDE DEF pair
    <3> QED BY <1>3 DEF Element
  <2>4. pairs # {} => Finished(sign_schnorr(taproot_sighash(tx, idx, prevouts, "All"), q)) = sig
    <3> HIDE DEF pairs, pair, sig
    <3> QED BY <2>2, <2>3
  <2> HIDE DEF pairs, sig
  <2> QED BY <2>1, <2>4, Zenon
<1>6. /\ call.result = IF checked = "Ok" /\ ~verified
                       THEN "SignatureVerificationError" ELSE checked
      /\ call.transaction = IF checked = "Ok" /\ verified
                            THEN PushInput(tx, idx, sig) ELSE tx
  <2> DEFINE was == CASE pairs = {} -> "KeypairCreationError"
                      [] pairs # {} /\ Len(prevouts) # Len(tx.input) -> "TaprootError"
                      [] OTHER -> "Ok"
             made == Finished(sign_schnorr(taproot_sighash(tx, idx, prevouts, "All"),
                                           CHOOSE p \in pairs : TRUE))
  <2>1. was = checked
    BY <1>2
  <2>2. /\ call.result = IF was = "Ok" /\ ~verified
                         THEN "SignatureVerificationError" ELSE was
        /\ call.transaction = IF was = "Ok" /\ verified
                              THEN PushInput(tx, idx, made) ELSE tx
    BY DEF add_signature, Pushes, PushInput
  <2>3. checked = "Ok" => made = sig
    BY <1>5
  <2> HIDE DEF was, checked, made, sig
  <2> QED BY <2>1, <2>2, <2>3
<1>7. IssuedAs(PushInput(tx, idx, sig), points, out, after)
  <2>1. PushInput(tx, idx, sig) = Made(points, ws, out)
    <3>1. PICK x : x = ws
      OBVIOUS
    <3> HIDE DEF wits, sig
    <3>2. PushInput(Made(points, wits, out), idx, sig) = Made(points, x, out)
      BY <3>1, <1>0, PushedTransaction
    <3> QED BY <3>1, <3>2, <1>1
  <2>2. ws = [i \in DOMAIN points |-> Witness(points, out, i, after.signed[i])]
    <3>1. ASSUME NEW i \in 1..n
          PROVE  ws[i] = Witness(points, out, i, after.signed[i])
      <4>1. i \in 1..2 /\ wits[i] = Witness(points, out, i, term.signed[i])
            /\ term.signed[i] \in Seq(Pair)
        BY <1>0 DEF Term
      <4>2. CASE i = idx
        <5>1. after.signed[i] = Append(term.signed[i], pair)
          <6>1. PICK q : q = pair
            OBVIOUS
          <6>2. Countersigned(term, idx, q).signed[idx] = Append(term.signed[idx], q)
            BY <6>1, <1>4, CountersignedFacts
          <6> QED BY <6>1, <6>2, <4>2
        <5>2. ws[i] = Append(Witness(points, out, i, term.signed[i]), Element(points, out, i, pair))
          BY <4>1, <4>2, <1>0
        <5> HIDE DEF ws, after, pair
        <5> QED BY <4>1, <5>1, <5>2, <1>4, WitnessGrows
      <4>3. CASE i # idx
        <5>1. after.signed[i] = term.signed[i]
          BY <1>4, <4>1, <4>3, CountersignedFacts
        <5> QED BY <4>1, <4>3, <5>1
      <4> QED BY <4>2, <4>3
    <3>2. DOMAIN ws = 1..n /\ ws = [i \in 1..n |-> ws[i]]
      OBVIOUS
    <3> HIDE DEF ws, after
    <3> QED BY <3>1, <3>2, <1>0
  <2>3. out.value = after.coinbases - after.fees
    BY <1>1, <1>4, CountersignedFacts
  <2> HIDE DEF ws, after, sig
  <2> QED BY <2>1, <2>2, <2>3, <1>1 DEF IssuedAs
<1> HIDE DEF sig, after, wits, pairs, pair
<1>8. CASE pairs = {}
  BY <1>6, <1>8 DEF Errors, UhpoError
<1>9. CASE pairs # {} /\ verified = FALSE
  BY <1>6, <1>9 DEF Errors, UhpoError
<1>10. CASE pairs # {} /\ verified = TRUE
  <2>1. call.result = "Ok" /\ call.transaction = PushInput(tx, idx, sig)
    <3>1. checked = "Ok"
      BY <1>10
    <3> HIDE DEF checked
    <3> QED BY <3>1, <1>6, <1>10, Zenon
  <2>2. IssuedAs(call.transaction, points, out, after)
    BY <2>1, <1>7
  <2> QED BY <2>1, <2>2 DEF after, pair
<1> QED BY <1>8, <1>9, <1>10

\* The terms of the update that was signed change, the others stay.
LEMMA TermsCountersigned ==
  ASSUME terms \in Seq(Term), NEW k \in 1..Len(terms), NEW idx \in 1..2, NEW pair \in Pair,
         terms' = [terms EXCEPT ![k].signed[idx] = Append(@, pair)]
  PROVE  /\ terms' \in Seq(Term) /\ Len(terms') = Len(terms)
         /\ terms'[k] = Countersigned(terms[k], idx, pair)
         /\ \A i \in 1..Len(terms) : i # k => terms'[i] = terms[i]
<1> DEFINE term == Countersigned(terms[k], idx, pair)
<1>1. terms[k] \in Term
  BY ElementOfSeq
<1>2. term \in Term
  BY <1>1, CountersignedFacts
<1>3. terms' = [terms EXCEPT ![k] = term]
  BY DEF Countersigned
<1> HIDE DEF term
<1>4. PICK new : new = [terms EXCEPT ![k] = term]
  OBVIOUS
<1>5. /\ new \in Seq(Term) /\ Len(new) = Len(terms)
      /\ \A i \in 1..Len(terms) : new[i] = IF i = k THEN term ELSE terms[i]
  BY <1>2, <1>4, ExceptSeq
<1>6. terms' = new
  BY <1>3, <1>4
<1> QED BY <1>5, <1>6 DEF term

\* Signing one of the inputs of the update under construction, whether it
\* succeeds or not (add_coinbase_sig, add_prev_update_sig).
LEMMA SignStep ==
  ASSUME PayoutInv, Drafted, Len(terms) = Len(chain) + 1, NEW idx \in 1..Arity(Len(terms)),
         NEW key \in Key, NEW tweak \in Tweak \cup {NoTweak, BadTweak},
         SignUpdate(idx, key, tweak)
  PROVE  PayoutInv'
<1>1. PICK S : chain \in Seq(S)
  BY DEF PayoutInv
<1>2. PICK k : k = Len(terms)
  OBVIOUS
<1>3. /\ k \in Nat \ {0} /\ k = Len(chain) + 1 /\ terms \in Seq(Term) /\ terms[k] \in Term
      /\ Len(chain) \in Nat /\ idx \in 1..Arity(k) /\ Arity(k) \in 1..2 /\ idx \in 1..2
      /\ k \in 1..Len(terms)
  <2>1. Len(chain) \in Nat /\ terms \in Seq(Term)
    BY <1>1 DEF PayoutInv
  <2>2. k \in Nat \ {0} /\ k \in 1..Len(terms)
    BY <1>2, <2>1
  <2>3. terms[k] \in Term
    BY <2>1, <2>2
  <2> QED BY <1>2, <2>1, <2>2, <2>3 DEF Arity
<1>4a. PICK v \in Value : \E tx, out :
        IssuedAs(tx, Points(k, v), out, terms[k]) /\ update = <<Draft(tx, k, v)>>
  BY <1>2 DEF Drafted
<1>4. PICK tx, out : IssuedAs(tx, Points(k, v), out, terms[k]) /\ update = <<Draft(tx, k, v)>>
  BY <1>4a
<1> DEFINE pair == [key |-> key, tweak |-> tweak]
           prevouts == Prevouts(update[1])
<1>5. /\ update[1].transaction = tx
      /\ prevouts = SpentAt(Points(k, v))
      /\ Len(prevouts) = Arity(k)
  <2>1. update[1] = Draft(tx, k, v)
    BY <1>4
  <2>2. Draft(tx, k, v).transaction = tx
    BY DEF Draft
  <2> QED BY <2>1, <2>2, <1>3, PrevoutsMatch
<1>6. PICK verified \in BOOLEAN :
        LET call == add_signature(tx, idx, prevouts, key, tweak, verified)
        IN  /\ update' = [update EXCEPT ![1].transaction = call.transaction]
            /\ Returned(call, k, idx, key, tweak)
  BY <1>2, <1>5 DEF SignUpdate, verify_schnorr
<1>7. PICK call : call = add_signature(tx, idx, prevouts, key, tweak, verified)
  OBVIOUS
<1>8. /\ update' = <<Draft(call.transaction, k, v)>> /\ chain' = chain
      /\ result' = call.result
      /\ call.result # "Ok" => terms' = terms
      /\ call.result = "Ok" => terms' = [terms EXCEPT ![k].signed[idx] = Append(@, pair)]
  <2>1. update' = [<<Draft(tx, k, v)>> EXCEPT ![1].transaction = call.transaction]
    BY <1>4, <1>6, <1>7
  <2>2. update' = <<Draft(call.transaction, k, v)>>
    BY <2>1, SignedDraft
  <2>3. Returned(call, k, idx, key, tweak) /\ chain' = chain
    BY <1>6, <1>7 DEF SignUpdate
  <2> QED BY <2>2, <2>3 DEF Returned
<1>9. \/ call.result \in Errors /\ call.transaction = tx
      \/ /\ call.result = "Ok"
         /\ IssuedAs(call.transaction, Points(k, v), out, Countersigned(terms[k], idx, pair))
  <2>1. Spending(Points(k, v), Arity(k))
    BY <1>3, PointsFacts
  <2>2. PICK points, n, p, term :
          points = Points(k, v) /\ n = Arity(k) /\ p = prevouts /\ term = terms[k]
    OBVIOUS
  <2>3. /\ Spending(points, n)
        /\ term \in Term /\ IssuedAs(tx, points, out, term) /\ idx \in 1..n
    BY <2>1, <2>2, <1>3, <1>4
  <2>4. /\ p = SpentAt(points) /\ Len(p) = n
        /\ call = add_signature(tx, idx, p, key, tweak, verified)
    BY <2>2, <1>5, <1>7
  <2>5. \/ call.result \in Errors /\ call.transaction = tx
        \/ /\ call.result = "Ok"
           /\ IssuedAs(call.transaction, points, out, Countersigned(term, idx, pair))
    BY <2>3, <2>4, SignCall
  <2> QED BY <2>2, <2>5
<1>10. CASE call.result \in Errors /\ call.transaction = tx
  <2>1. update' = update /\ terms' = terms /\ result' \in Errors
    BY <1>4, <1>8, <1>10 DEF Errors, UhpoError
  <2> QED BY <2>1, <1>8, OnlyReturns
<1>11. CASE /\ call.result = "Ok"
            /\ IssuedAs(call.transaction, Points(k, v), out, Countersigned(terms[k], idx, pair))
  <2>1. pair \in Pair
    BY DEF Pair
  <2>2. /\ terms' \in Seq(Term) /\ Len(terms') = Len(terms)
        /\ terms'[k] = Countersigned(terms[k], idx, pair)
        /\ \A i \in 1..Len(terms) : i # k => terms'[i] = terms[i]
    <3> HIDE DEF pair
    <3>1. terms' = [terms EXCEPT ![k].signed[idx] = Append(@, pair)]
      BY <1>8, <1>11
    <3> QED BY <3>1, <2>1, <1>3, TermsCountersigned
  <2>3. \A i \in 1..Len(chain) : terms'[i] = terms[i]
    BY <1>2, <1>3, <2>2
  <2>4. Drafted'
    <3>1. Points(k, v)' = Points(k, v)
      BY <1>8 DEF Points
    <3>2. Draft(call.transaction, k, v)' = Draft(call.transaction, k, v)
      BY <1>8 DEF Draft
    <3>3. k = Len(terms')
      BY <1>2, <2>2
    <3> HIDE DEF pair
    <3>4. IssuedAs(call.transaction, Points(k, v)', out, terms'[k])
      BY <3>1, <2>2, <1>11
    <3>5. update' = <<Draft(call.transaction, k, v)'>>
      BY <3>2, <1>8
    <3> QED BY <3>3, <3>4, <3>5 DEF Drafted
  <2>5. \A i \in 1..Len(chain) : Issued(i)'
    <3> SUFFICES ASSUME NEW i \in 1..Len(chain) PROVE Issued(i)'
      OBVIOUS
    <3> QED BY <1>8, <2>3, IssuedKept DEF PayoutInv
  <2> QED BY <1>8, <1>11, <2>2, <2>4, <2>5 DEF PayoutInv
<1> QED BY <1>9, <1>10, <1>11

\* Signing an update that was built, before or after another one spends it: its
\* id and its output stay, so what spends it still does (add_signature).
LEMMA SignBuiltStep ==
  ASSUME PayoutInv, NEW k \in DOMAIN chain, NEW idx \in DOMAIN chain[k].input,
         NEW key \in Key, NEW tweak \in Tweak \cup {NoTweak, BadTweak},
         SignBuilt(k, idx, key, tweak)
  PROVE  PayoutInv'
<1>1. PICK S : chain \in Seq(S)
  BY DEF PayoutInv
<1>2. /\ k \in Nat \ {0} /\ k \in 1..Len(chain) /\ Len(chain) \in Nat /\ Len(terms) \in Nat
      /\ terms \in Seq(Term) /\ k \in 1..Len(terms) /\ terms[k] \in Term
      /\ Len(terms) \in {Len(chain), Len(chain) + 1}
  <2>1. k \in Nat \ {0} /\ k \in 1..Len(chain) /\ Len(chain) \in Nat
    BY <1>1
  <2>2. terms \in Seq(Term) /\ Len(terms) \in Nat /\ Len(terms) \in {Len(chain), Len(chain) + 1}
    BY DEF PayoutInv
  <2>3. k \in 1..Len(terms)
    BY <2>1, <2>2
  <2>4. terms[k] \in Term
    BY <2>2, <2>3, ElementOfSeq
  <2> QED BY <2>1, <2>2, <2>3, <2>4
<1>3a. PICK v \in Value : \E out : IssuedAs(chain[k], Points(k, v), out, terms[k])
  BY <1>2 DEF PayoutInv, Issued
<1>3. PICK out : IssuedAs(chain[k], Points(k, v), out, terms[k])
  BY <1>3a
<1>4. PICK points, n, tx : points = Points(k, v) /\ n = Arity(k) /\ tx = chain[k]
  OBVIOUS
<1>5. n \in 1..2 /\ n \in Nat /\ DOMAIN points = 1..n /\ Spending(points, n)
  BY <1>2, <1>4, PointsFacts
<1>6. /\ IssuedAs(tx, points, out, terms[k])
      /\ DOMAIN tx.input = 1..n /\ idx \in 1..n /\ idx \in 1..2
      /\ compute_txid(tx) = Id(points, out) /\ tx.output = <<out>>
      /\ SpentBy(tx) = SpentAt(points)
  <2>1. IssuedAs(tx, points, out, terms[k])
    BY <1>3, <1>4
  <2> QED BY <2>1, <1>4, <1>5, IssuedFacts
<1>7. Len(SpentBy(tx)) = n
  <2>1. DOMAIN SpentBy(tx) = 1..n /\ SpentBy(tx) = [i \in 1..n |-> SpentBy(tx)[i]]
    BY <1>5, <1>6 DEF SpentAt
  <2> QED BY <2>1, <1>5, FunctionIsSequence
<1> DEFINE pair == [key |-> key, tweak |-> tweak]
<1>8. PICK verified \in BOOLEAN :
        LET call == add_signature(tx, idx, SpentBy(tx), key, tweak, verified)
        IN  /\ chain' = [chain EXCEPT ![k] = call.transaction]
            /\ Returned(call, k, idx, key, tweak)
  BY <1>4 DEF SignBuilt, verify_schnorr
<1>9. PICK call : call = add_signature(tx, idx, SpentBy(tx), key, tweak, verified)
  OBVIOUS
<1>10. /\ chain' = [chain EXCEPT ![k] = call.transaction] /\ update' = update
       /\ result' = call.result
       /\ call.result # "Ok" => terms' = terms
       /\ call.result = "Ok" => terms' = [terms EXCEPT ![k].signed[idx] = Append(@, pair)]
  BY <1>8, <1>9 DEF Returned, SignBuilt
<1>11. \/ call.result \in Errors /\ call.transaction = tx
       \/ /\ call.result = "Ok"
          /\ IssuedAs(call.transaction, points, out, Countersigned(terms[k], idx, pair))
  <2>1. PICK p, term : p = SpentBy(tx) /\ term = terms[k]
    OBVIOUS
  <2>2. /\ term \in Term /\ IssuedAs(tx, points, out, term)
        /\ p = SpentAt(points) /\ Len(p) = n
        /\ call = add_signature(tx, idx, p, key, tweak, verified)
    BY <2>1, <1>2, <1>6, <1>7, <1>9
  <2>3. \/ call.result \in Errors /\ call.transaction = tx
        \/ /\ call.result = "Ok"
           /\ IssuedAs(call.transaction, points, out, Countersigned(term, idx, pair))
    BY <2>2, <1>5, <1>6, SignCall
  <2> QED BY <2>1, <2>3
<1>12. CASE call.result \in Errors /\ call.transaction = tx
  <2>1. terms' = terms /\ result' \in Errors
    BY <1>10, <1>12 DEF Errors, UhpoError
  <2>2. chain' = chain
    BY <1>1, <1>4, <1>10, <1>12
  <2> QED BY <2>1, <2>2, <1>10, OnlyReturns
<1>13. CASE /\ call.result = "Ok"
            /\ IssuedAs(call.transaction, points, out, Countersigned(terms[k], idx, pair))
  <2>1. pair \in Pair
    BY DEF Pair
  <2> HIDE DEF pair
  <2>2. /\ terms' \in Seq(Term) /\ Len(terms') = Len(terms)
        /\ terms'[k] = Countersigned(terms[k], idx, pair)
        /\ \A i \in 1..Len(terms) : i # k => terms'[i] = terms[i]
    <3>1. terms' = [terms EXCEPT ![k].signed[idx] = Append(@, pair)]
      BY <1>10, <1>13
    <3> QED BY <3>1, <2>1, <1>2, <1>6, TermsCountersigned
  <2>3. compute_txid(call.transaction) = Id(points, out) /\ call.transaction.output = <<out>>
    BY <1>5, <1>13, IssuedFacts
  <2>4. PICK T : T = S \cup {call.transaction}
    OBVIOUS
  <2>5. /\ chain' \in Seq(T) /\ Len(chain') = Len(chain) /\ chain'[k] = call.transaction
        /\ \A i \in 1..Len(chain) : i # k => chain'[i] = chain[i]
    <3>1. chain \in Seq(T) /\ call.transaction \in T
      BY <1>1, <2>4, SeqMonotonic
    <3> QED BY <3>1, <1>2, <1>10, ExceptSeq
  <2>6. \A i \in 1..Len(chain) : /\ compute_txid(chain'[i]) = compute_txid(chain[i])
                                 /\ chain'[i].output = chain[i].output
    BY <1>4, <1>6, <2>3, <2>5
  <2>7. ASSUME NEW i \in 1..(Len(chain) + 1), NEW x
        PROVE  Points(i, x)' = Points(i, x)
    <3>1. i > 1 => i - 1 \in 1..Len(chain)
      BY <1>2
    <3>2. i > 1 => UpdatePoint(chain[i - 1])' = UpdatePoint(chain[i - 1])
      BY <3>1, <2>6 DEF UpdatePoint
    <3>3. i # 1 => i > 1
      BY <1>2
    <3> QED BY <3>2, <3>3 DEF Points, Arity
  <2>8. ASSUME NEW i \in 1..Len(chain) PROVE Issued(i)'
    <3>1. CASE i = k
      <4>1. Points(k, v)' = points
        BY <1>2, <1>4, <2>7
      <4>2. IssuedAs(chain'[k], Points(k, v)', out, terms'[k])
        BY <4>1, <1>13, <2>2, <2>5
      <4> QED BY <3>1, <4>2 DEF Issued
    <3>2. CASE i # k
      <4>1. /\ i \in Nat \ {0} /\ chain'[i] = chain[i] /\ terms'[i] = terms[i]
            /\ i > 1 => compute_txid(chain'[i - 1]) = compute_txid(chain[i - 1])
        <5>1. /\ i \in Nat \ {0} /\ i \in 1..Len(terms)
              /\ i > 1 => i - 1 \in 1..Len(chain)
          BY <1>2
        <5> QED BY <5>1, <3>2, <2>2, <2>5, <2>6
      <4>2. Issued(i)
        BY DEF PayoutInv
      <4> QED BY <4>1, <4>2, IssuedKept
    <3> QED BY <3>1, <3>2
  <2>9. \/ update' = <<>> /\ Len(terms') = Len(chain')
        \/ Drafted' /\ Len(terms') = Len(chain') + 1
    <3>1. CASE update = <<>> /\ Len(terms) = Len(chain)
      BY <3>1, <1>10, <2>2, <2>5
    <3>2. CASE Drafted /\ Len(terms) = Len(chain) + 1
      <4>1. PICK m : m = Len(terms)
        OBVIOUS
      <4>2a. PICK w \in Value : \E t, o :
              IssuedAs(t, Points(m, w), o, terms[m]) /\ update = <<Draft(t, m, w)>>
        BY <3>2, <4>1 DEF Drafted
      <4>2. PICK t, o : IssuedAs(t, Points(m, w), o, terms[m]) /\ update = <<Draft(t, m, w)>>
        BY <4>2a
      <4>3. /\ m \in 1..(Len(chain) + 1) /\ m \in 1..Len(terms) /\ m # k /\ m = Len(terms')
            /\ m # 1 => m - 1 \in 1..Len(chain)
        BY <1>2, <2>2, <3>2, <4>1
      <4>4. Points(m, w)' = Points(m, w) /\ terms'[m] = terms[m]
        BY <2>2, <2>7, <4>3
      <4>5. Draft(t, m, w)' = Draft(t, m, w)
        BY <2>6, <4>3 DEF Draft
      <4>6. IssuedAs(t, Points(m, w)', o, terms'[m]) /\ update' = <<Draft(t, m, w)'>>
        BY <1>10, <4>2, <4>4, <4>5
      <4>7. Drafted'
        BY <4>3, <4>6 DEF Drafted
      <4> QED BY <4>7, <3>2, <2>2, <2>5
    <3> QED BY <3>1, <3>2 DEF PayoutInv
  <2>10. \A i \in 1..Len(chain') : Issued(i)'
    BY <2>5, <2>8
  <2> QED BY <1>10, <1>13, <2>2, <2>5, <2>9, <2>10 DEF PayoutInv
<1> QED BY <1>11, <1>12, <1>13

------------------------------------------------------------------------------
\* The invariant holds at the start and every call keeps it.
THEOREM PayoutInvariant == Spec => []PayoutInv
<1>1. Init => PayoutInv
  <2> SUFFICES ASSUME Init PROVE PayoutInv
    OBVIOUS
  <2>1. chain = <<>> /\ terms = <<>> /\ update = <<>> /\ result = "none"
    BY DEF Init
  <2>2. chain \in Seq({}) /\ terms \in Seq(Term) /\ Len(chain) = 0 /\ Len(terms) = 0
    BY <2>1
  <2>3. \A k \in 1..Len(chain) : Issued(k)
    BY <2>2
  <2> QED BY <2>1, <2>2, <2>3, PayoutAssumption DEF PayoutInv
<1>2. PayoutInv /\ [Next]_vars => PayoutInv'
  <2> SUFFICES ASSUME PayoutInv, [Next]_vars PROVE PayoutInv'
    OBVIOUS
  <2>1. ASSUME NEW v \in Value, NEW s \in Script, NEW f \in Fee, New(v, s, f)
        PROVE  PayoutInv'
    BY <2>1, NewStep
  <2>2. ASSUME UNCHANGED <<chain, update, terms>>,
               result' \in {result, "panic", "NoPrevUpdateTxOut"}
        PROVE  PayoutInv'
    <3>1. result' \in {"none", "Ok", "panic"} \cup Errors
      BY <2>2 DEF PayoutInv, Errors, UhpoError
    <3> QED BY <2>2, <3>1, OnlyReturns
  <2>3. ASSUME NEW k \in Key, NEW t \in Tweak \cup {NoTweak, BadTweak},
               AddCoinbaseSig(k, t) \/ AddPrevUpdateSig(k, t)
        PROVE  PayoutInv'
    <3>1. update # <<>>
      BY <2>3 DEF AddCoinbaseSig, AddPrevUpdateSig
    <3>2. Drafted /\ Len(terms) = Len(chain) + 1
      BY <3>1 DEF PayoutInv
    <3>3. CASE AddCoinbaseSig(k, t)
      <4>1. 1 \in 1..Arity(Len(terms))
        BY DEF Arity
      <4> QED BY <3>1, <3>2, <3>3, <4>1, SignStep DEF AddCoinbaseSig
    <3>4. CASE AddPrevUpdateSig(k, t)
      <4>1. Len(terms) # 1
        <5>1. update[1].prev_update_txout # <<>>
          BY <3>4 DEF AddPrevUpdateSig
        <5>2. PICK v, tx : update = <<Draft(tx, Len(terms), v)>>
          BY <3>2 DEF Drafted
        <5>3. update[1] = Draft(tx, Len(terms), v)
          BY <5>2
        <5> QED BY <5>1, <5>3 DEF Draft
      <4>2. 2 \in 1..Arity(Len(terms))
        BY <4>1 DEF Arity
      <4> QED BY <3>1, <3>2, <3>4, <4>2, SignStep DEF AddPrevUpdateSig
    <3> QED BY <2>3, <3>3, <3>4
  <2>4. CASE Build
    <3>1. PICK S : chain \in Seq(S)
      BY DEF PayoutInv
    <3>2. update # <<>> /\ terms' = terms /\ update' = <<>> /\ result' = "Ok"
          /\ chain' = Append(chain, update[1].transaction)
      BY <2>4 DEF Build
    <3>3. Drafted /\ Len(terms) = Len(chain) + 1
      BY <3>2 DEF PayoutInv
    <3>4. PICK k : k = Len(terms)
      OBVIOUS
    <3>5a. PICK v \in Value : \E tx, out :
            IssuedAs(tx, Points(k, v), out, terms[k]) /\ update = <<Draft(tx, k, v)>>
      BY <3>3, <3>4 DEF Drafted
    <3>5. PICK tx, out : IssuedAs(tx, Points(k, v), out, terms[k]) /\ update = <<Draft(tx, k, v)>>
      BY <3>5a
    <3>6. chain' = Append(chain, tx)
      <4>1. update[1] = Draft(tx, k, v)
        BY <3>5
      <4> QED BY <4>1, <3>2 DEF Draft
    <3>7. /\ chain' \in Seq(S \cup {tx}) /\ Len(chain') = k /\ chain'[k] = tx
          /\ \A i \in 1..Len(chain) : chain'[i] = chain[i]
          /\ Len(chain) \in Nat /\ k = Len(chain) + 1
      <4>1. chain \in Seq(S \cup {tx}) /\ tx \in S \cup {tx}
        BY <3>1, SeqMonotonic
      <4> QED BY <3>3, <3>4, <3>6, <4>1, AppendProperties
    <3>8. Issued(k)'
      <4>1. Points(k, v)' = Points(k, v)
        BY <3>7 DEF Points, Arity
      <4>2. IssuedAs(chain'[k], Points(k, v)', out, terms'[k])
        BY <3>2, <3>5, <3>7, <4>1
      <4> QED BY <4>2 DEF Issued
    <3>9. ASSUME NEW i \in 1..Len(chain) PROVE Issued(i)'
      <4>1. i \in Nat \ {0} /\ chain'[i] = chain[i] /\ (i > 1 => chain'[i - 1] = chain[i - 1])
        BY <3>7
      <4>2. i > 1 => compute_txid(chain'[i - 1]) = compute_txid(chain[i - 1])
        BY <4>1
      <4> QED BY <4>1, <4>2, <3>2, IssuedKept DEF PayoutInv
    <3>10. \A i \in 1..Len(chain') : Issued(i)'
      BY <3>7, <3>8, <3>9
    <3> QED BY <3>2, <3>4, <3>7, <3>10 DEF PayoutInv
  <2>5. CASE UNCHANGED vars
    BY <2>2, <2>5 DEF vars
  <2>6. CASE NoPrevUpdate
    BY <2>2, <2>6 DEF NoPrevUpdate
  <2>7. ASSUME NEW v \in Value, NEW f \in Fee, NewPanics(v, f)
        PROVE  PayoutInv'
    BY <2>2, <2>7 DEF NewPanics
  <2>8. ASSUME NEW n \in DOMAIN chain, NEW i \in DOMAIN chain[n].input, NEW k \in Key,
               NEW t \in Tweak \cup {NoTweak, BadTweak}, SignBuilt(n, i, k, t)
        PROVE  PayoutInv'
    BY <2>8, SignBuiltStep
  <2> QED BY <2>1, <2>3, <2>4, <2>5, <2>6, <2>7, <2>8 DEF Next
<1> QED BY <1>1, <1>2, PTL DEF Spec

------------------------------------------------------------------------------
\* The transactions that exist.
LEMMA EveryTransaction ==
  ASSUME PayoutInv, NEW tx \in Transactions
  PROVE  \E k \in 1..Len(terms), v \in Value : \E out : IssuedAs(tx, Points(k, v), out, terms[k])
<1>1. CASE tx \in ToSet(chain)
  <2>1. PICK S : chain \in Seq(S)
    BY DEF PayoutInv
  <2>2. PICK k \in 1..Len(chain) : tx = chain[k]
    BY <1>1, <2>1 DEF ToSet
  <2>3. k \in 1..Len(terms)
    BY <2>1, <2>2 DEF PayoutInv
  <2> QED BY <2>2, <2>3 DEF PayoutInv, Issued
<1>2. CASE tx \in {u.transaction : u \in ToSet(update)}
  <2>1. PICK u \in ToSet(update) : tx = u.transaction
    BY <1>2
  <2>2. update # <<>>
    BY <2>1 DEF ToSet
  <2>3. Drafted /\ Len(terms) = Len(chain) + 1 /\ \E S : chain \in Seq(S)
    BY <2>2 DEF PayoutInv
  <2>4. PICK k : k = Len(terms)
    OBVIOUS
  <2>5a. PICK v \in Value : \E t, out :
          IssuedAs(t, Points(k, v), out, terms[k]) /\ update = <<Draft(t, k, v)>>
    BY <2>3, <2>4 DEF Drafted
  <2>5. PICK t, out : IssuedAs(t, Points(k, v), out, terms[k]) /\ update = <<Draft(t, k, v)>>
    BY <2>5a
  <2>6. u = Draft(t, k, v)
    BY <2>1, <2>5 DEF ToSet
  <2>7. tx = t
    BY <2>1, <2>6 DEF Draft
  <2>8. k \in 1..Len(terms)
    BY <2>3, <2>4
  <2> QED BY <2>5, <2>7, <2>8
<1> QED BY <1>1, <1>2 DEF Transactions

\* What is known of an update by its number.
LEMMA NumberedFacts ==
  ASSUME PayoutInv, NEW k \in 1..Len(terms), NEW v
  PROVE  /\ k \in Nat \ {0} /\ terms[k] \in Term
         /\ Arity(k) \in Nat /\ Arity(k) \in 1..2
         /\ Spending(Points(k, v), Arity(k))
<1>1. k \in Nat \ {0} /\ terms[k] \in Term
  BY ElementOfSeq DEF PayoutInv
<1> QED BY <1>1, PointsFacts

\* Every transaction has one output of a legal amount and one or two inputs, and
\* the spent outputs always match the inputs.
THEOREM PayoutTypeCorrect == Spec => []TypeOK
<1>1. PayoutInv => TypeOK
  <2> SUFFICES ASSUME PayoutInv PROVE TypeOK
    OBVIOUS
  <2>1. PICK S : chain \in Seq(S)
    BY DEF PayoutInv
  <2>2. Len(chain) <= MaxUpdates /\ Len(update) <= 1 /\ Len(terms) = Len(chain) + Len(update)
    <3>1. CASE update = <<>>
      BY <2>1, <3>1 DEF PayoutInv, Drafted
    <3>2. CASE update # <<>>
      <4>1. Len(update) = 1
        BY <3>2 DEF PayoutInv, Drafted
      <4> QED BY <2>1, <3>2, <4>1, PayoutAssumption DEF PayoutInv
    <3> QED BY <3>1, <3>2
  <2>3. ASSUME NEW tx \in Transactions
        PROVE  /\ Len(tx.input) \in 1..2 /\ Len(tx.output) = 1
               /\ tx.output[1].value \in 0..MaxAmount /\ tx.output[1].script_pubkey \in Script
    <3>1a. PICK k \in 1..Len(terms), v \in Value :
            \E out : IssuedAs(tx, Points(k, v), out, terms[k])
      BY EveryTransaction
    <3>1. PICK out : IssuedAs(tx, Points(k, v), out, terms[k])
      BY <3>1a
    <3>2. Len(tx.input) = Arity(k) /\ Arity(k) \in 1..2 /\ tx.output = <<out>>
      BY <3>1, NumberedFacts, IssuedFacts
    <3>3. out \in [value : 0..MaxAmount, script_pubkey : Script]
      BY <3>1 DEF IssuedAs
    <3> QED BY <3>2, <3>3
  <2> QED BY <2>2, <2>3 DEF TypeOK, PayoutInv, Errors
<1> QED BY <1>1, PayoutInvariant, PTL

\* Every signature is good for the transaction that carries it: it commits to
\* what the inputs really spend, whatever was signed before or after it.
THEOREM SignaturesAreGood == Spec => []SignaturesCommit
<1>1. PayoutInv => SignaturesCommit
  <2> SUFFICES ASSUME PayoutInv, NEW tx \in Transactions, NEW i \in DOMAIN tx.input,
                      NEW sig \in ToSet(tx.input[i].witness)
               PROVE  Commits(tx, i, sig)
    BY DEF SignaturesCommit
  <2>1a. PICK k \in 1..Len(terms), v \in Value :
          \E out : IssuedAs(tx, Points(k, v), out, terms[k])
    BY EveryTransaction
  <2>1. PICK out : IssuedAs(tx, Points(k, v), out, terms[k])
    BY <2>1a
  <2>2. PICK points, n : points = Points(k, v) /\ n = Arity(k)
    OBVIOUS
  <2>3. /\ n \in Nat /\ n \in 1..2 /\ Spending(points, n)
        /\ terms[k] \in Term /\ IssuedAs(tx, points, out, terms[k])
    BY <2>1, <2>2, NumberedFacts
  <2>4. i \in 1..n /\ i \in 1..2
    <3>1. DOMAIN tx.input = 1..n
      BY <2>3, IssuedFacts
    <3> QED BY <3>1, <2>3
  <2>5. /\ DOMAIN tx.input[i].witness = 1..Len(terms[k].signed[i])
        /\ \A m \in 1..Len(terms[k].signed[i]) : Commits(tx, i, tx.input[i].witness[m])
    <3>1. PICK term : term = terms[k]
      OBVIOUS
    <3>2. term \in Term /\ IssuedAs(tx, points, out, term)
      BY <3>1, <2>3
    <3>3. Carries(tx, i, term.signed[i])
      BY <3>2, <2>3, <2>4, WitnessFacts
    <3> QED BY <3>1, <3>3 DEF Carries
  <2>6. PICK m \in DOMAIN tx.input[i].witness : sig = tx.input[i].witness[m]
    BY DEF ToSet
  <2> QED BY <2>5, <2>6
<1> QED BY <1>1, PayoutInvariant, PTL

\* An input can be spent along the key path exactly when one call signed it, with
\* the key pair that the spent output belongs to.
THEOREM SpendableByOwner == Spec => []SpendableIffOwnerSignedOnce
<1>1. PayoutInv => SpendableIffOwnerSignedOnce
  <2> SUFFICES ASSUME PayoutInv, NEW k \in DOMAIN chain, NEW i \in DOMAIN chain[k].input
               PROVE  (Len(chain[k].input[i].witness) = 1
                         /\ Valid(chain[k], i, chain[k].input[i].witness[1]))
                      <=> terms[k].signed[i] = <<OwnerOf(chain[k], i)>>
    BY DEF SpendableIffOwnerSignedOnce
  <2>1. k \in 1..Len(chain) /\ k \in 1..Len(terms)
    BY DEF PayoutInv
  <2>2a. PICK v \in Value : \E out : IssuedAs(chain[k], Points(k, v), out, terms[k])
    BY <2>1 DEF PayoutInv, Issued
  <2>2. PICK out : IssuedAs(chain[k], Points(k, v), out, terms[k])
    BY <2>2a
  <2>3. PICK points, n, tx, owner :
          points = Points(k, v) /\ n = Arity(k) /\ tx = chain[k] /\ owner = OwnerOf(chain[k], i)
    OBVIOUS
  <2>4. /\ n \in Nat /\ n \in 1..2 /\ Spending(points, n)
        /\ terms[k] \in Term /\ IssuedAs(tx, points, out, terms[k])
    BY <2>1, <2>2, <2>3, NumberedFacts
  <2>5. i \in 1..n /\ i \in 1..2
    <3>1. DOMAIN tx.input = 1..n
      BY <2>4, IssuedFacts
    <3> QED BY <3>1, <2>3, <2>4
  <2>6. PICK w, pairs : w = tx.input[i].witness /\ pairs = terms[k].signed[i]
    OBVIOUS
  <2>7. /\ Len(w) = Len(pairs)
        /\ \A m \in 1..Len(pairs) : Commits(tx, i, w[m]) /\ w[m].signature.keypair = pairs[m]
    <3>1. PICK term : term = terms[k]
      OBVIOUS
    <3>2. term \in Term /\ IssuedAs(tx, points, out, term)
      BY <3>1, <2>4
    <3>3. Carries(tx, i, pairs)
      <4>1. Carries(tx, i, term.signed[i])
        BY <3>2, <2>4, <2>5, WitnessFacts
      <4> QED BY <4>1, <3>1, <2>6
    <3> QED BY <3>3, <2>6 DEF Carries
  <2>8. pairs \in Seq(Pair) /\ Len(pairs) \in Nat
    BY <2>4, <2>5, <2>6 DEF Term
  <2>9. CASE Len(pairs) # 1
    <3>1. pairs # <<owner>>
      BY <2>9
    <3> QED BY <3>1, <2>3, <2>6, <2>7, <2>9
  <2>10. CASE Len(pairs) = 1
    <3>1. Valid(tx, i, w[1]) <=> pairs[1] = owner
      BY <2>3, <2>7, <2>10 DEF Valid
    <3>2. pairs = <<pairs[1]>>
      BY <2>8, <2>10
    <3>3. pairs = <<owner>> <=> pairs[1] = owner
      BY <3>2
    <3> QED BY <3>1, <3>3, <2>3, <2>6, <2>7, <2>10
  <2> QED BY <2>9, <2>10
<1> QED BY <1>1, PayoutInvariant, PTL

\* The last output is worth all the coinbases that went in less all the fees.
THEOREM NothingLostOrMade == Spec => []ValueConserved
<1>1. PayoutInv => ValueConserved
  <2> SUFFICES ASSUME PayoutInv, NEW k \in DOMAIN chain
               PROVE  chain[k].output[1].value = terms[k].coinbases - terms[k].fees
    BY DEF ValueConserved
  <2>1. k \in 1..Len(chain)
    BY DEF PayoutInv
  <2>2a. PICK v \in Value : \E out : IssuedAs(chain[k], Points(k, v), out, terms[k])
    BY <2>1 DEF PayoutInv, Issued
  <2>2. PICK out : IssuedAs(chain[k], Points(k, v), out, terms[k])
    BY <2>2a
  <2>3. chain[k].output[1] = out
    BY <2>2 DEF IssuedAs, Made
  <2> QED BY <2>2, <2>3 DEF IssuedAs
<1> QED BY <1>1, PayoutInvariant, PTL

\* Coinbases of different blocks have different ids, and none is the id of an
\* update.
LEMMA PointsDiffer ==
  /\ \A j, k, v, w : j # k => CoinbasePoint(j, v) # CoinbasePoint(k, w)
  /\ \A k, v, tx, out : tx.output = <<out>> => CoinbasePoint(k, v) # UpdatePoint(tx)
<1>1. ASSUME NEW j, NEW k, NEW v, NEW w, CoinbasePoint(j, v) = CoinbasePoint(k, w)
      PROVE  j = k
  <2>1. compute_txid(Coinbase(j, v)).input = compute_txid(Coinbase(k, w)).input
    BY <1>1 DEF CoinbasePoint
  <2>2. \A n, x : compute_txid(Coinbase(n, x)).input[1] = [height |-> n]
    BY DEF compute_txid, Coinbase
  <2>3. [height |-> j] = [height |-> k]
    BY <2>1, <2>2
  <2> QED BY <2>3
<1>2. ASSUME NEW k, NEW v, NEW tx, NEW out, tx.output = <<out>>,
             CoinbasePoint(k, v) = UpdatePoint(tx)
      PROVE  FALSE
  <2>1. compute_txid(Coinbase(k, v)).output = compute_txid(tx).output
    BY <1>2 DEF CoinbasePoint, UpdatePoint
  <2>2. <<TxOut(v, CoinbaseScript), TxOut(0, "commitment")>> = <<out>>
    BY <2>1, <1>2 DEF compute_txid, Coinbase
  <2> QED BY <2>2
<1> QED BY <1>1, <1>2

\* No outpoint is spent twice along the chain, and each update spends its
\* predecessor.
THEOREM ChainIsLinked == Spec => []UpdatesFormChain
<1> DEFINE spends(tx) == {tx.input[i].previous_output : i \in DOMAIN tx.input}
<1>1. PayoutInv => UpdatesFormChain
  <2> SUFFICES ASSUME PayoutInv PROVE UpdatesFormChain
    OBVIOUS
  <2>1. DOMAIN chain = 1..Len(chain) /\ Len(chain) \in Nat
    BY DEF PayoutInv
  <2>2. ASSUME NEW k \in 1..Len(chain)
        PROVE  \E v : /\ spends(chain[k]) =
                           IF k = 1 THEN {CoinbasePoint(k, v)}
                           ELSE {CoinbasePoint(k, v), UpdatePoint(chain[k - 1])}
                      /\ compute_txid(chain[k]).input[1] = CoinbasePoint(k, v)
                      /\ \E out : chain[k].output = <<out>>
    <3>1. k \in Nat \ {0}
      OBVIOUS
    <3>2a. PICK v \in Value : \E out : IssuedAs(chain[k], Points(k, v), out, terms[k])
      BY DEF PayoutInv, Issued
    <3>2. PICK out : IssuedAs(chain[k], Points(k, v), out, terms[k])
      BY <3>2a
    <3>3. /\ DOMAIN chain[k].input = 1..Arity(k) /\ chain[k].output = <<out>>
          /\ compute_txid(chain[k]) = Id(Points(k, v), out)
          /\ \A i \in 1..Arity(k) : chain[k].input[i].previous_output = Points(k, v)[i]
      <4>1. PICK points, n, tx, term :
              points = Points(k, v) /\ n = Arity(k) /\ tx = chain[k] /\ term = terms[k]
        OBVIOUS
      <4>2. /\ n \in Nat /\ Spending(points, n)
            /\ IssuedAs(tx, points, out, term)
        BY <3>1, <3>2, <4>1, PointsFacts
      <4>3. /\ DOMAIN tx.input = 1..n /\ tx.output = <<out>>
            /\ compute_txid(tx) = Id(points, out)
            /\ \A i \in 1..n : tx.input[i].previous_output = points[i]
        BY <4>2, IssuedFacts
      <4> QED BY <4>1, <4>3
    <3>4. /\ Points(k, v)[1] = CoinbasePoint(k, v)
          /\ k > 1 => Points(k, v)[2] = UpdatePoint(chain[k - 1])
      BY <3>1, PointsFacts
    <3>5. compute_txid(chain[k]).input[1] = CoinbasePoint(k, v)
      BY <3>3, <3>4 DEF Id
    <3>6. spends(chain[k]) = IF k = 1 THEN {CoinbasePoint(k, v)}
                             ELSE {CoinbasePoint(k, v), UpdatePoint(chain[k - 1])}
      <4>1. CASE k = 1
        <5>1. Arity(k) = 1
          BY <4>1 DEF Arity
        <5>2. chain[k].input[1].previous_output = CoinbasePoint(k, v)
          BY <3>3, <3>4, <5>1
        <5>3. DOMAIN chain[k].input = {1}
          BY <3>3, <5>1
        <5> QED BY <4>1, <5>2, <5>3
      <4>2. CASE k # 1
        <5>1. Arity(k) = 2 /\ k > 1
          BY <4>2, <3>1 DEF Arity
        <5>2. /\ chain[k].input[1].previous_output = CoinbasePoint(k, v)
              /\ chain[k].input[2].previous_output = UpdatePoint(chain[k - 1])
          BY <3>3, <3>4, <5>1
        <5>3. DOMAIN chain[k].input = {1, 2}
          BY <3>3, <5>1
        <5> QED BY <4>2, <5>2, <5>3
      <4> QED BY <4>1, <4>2
    <3> QED BY <3>3, <3>5, <3>6
  <2>3. ASSUME NEW j \in 1..Len(chain), NEW k \in 1..Len(chain),
               UpdatePoint(chain[j]) = UpdatePoint(chain[k])
        PROVE  j = k
    <3>1. compute_txid(chain[j]).input[1] = compute_txid(chain[k]).input[1]
      BY <2>3 DEF UpdatePoint
    <3> QED BY <3>1, <2>2, PointsDiffer
  <2> HIDE DEF spends
  <2>4. ASSUME NEW k \in 1..Len(chain), k > 1
        PROVE  UpdatePoint(chain[k - 1]) \in spends(chain[k])
    <3>1. PICK v : spends(chain[k]) = IF k = 1 THEN {CoinbasePoint(k, v)}
                     ELSE {CoinbasePoint(k, v), UpdatePoint(chain[k - 1])}
      BY <2>2
    <3> QED BY <2>4, <3>1
  <2>5. ASSUME NEW k \in 1..Len(chain), NEW j \in 1..(k - 1)
        PROVE  spends(chain[j]) \cap spends(chain[k]) = {}
    <3>1. j \in 1..Len(chain) /\ j # k /\ k # 1 /\ k - 1 \in 1..Len(chain)
          /\ (j # 1 => j - 1 \in 1..Len(chain) /\ j - 1 # k - 1)
      BY <2>1
    <3>2. PICK v : spends(chain[k]) = {CoinbasePoint(k, v), UpdatePoint(chain[k - 1])}
      BY <2>2, <3>1
    <3>3. PICK w : spends(chain[j]) = IF j = 1 THEN {CoinbasePoint(j, w)}
                     ELSE {CoinbasePoint(j, w), UpdatePoint(chain[j - 1])}
      BY <2>2, <3>1
    <3>4. /\ CoinbasePoint(j, w) # CoinbasePoint(k, v)
          /\ CoinbasePoint(j, w) # UpdatePoint(chain[k - 1])
          /\ j # 1 => CoinbasePoint(k, v) # UpdatePoint(chain[j - 1])
      <4>1. CoinbasePoint(j, w) # CoinbasePoint(k, v)
        BY <3>1, PointsDiffer
      <4>2. PICK o : chain[k - 1].output = <<o>>
        BY <2>2, <3>1
      <4>3. CoinbasePoint(j, w) # UpdatePoint(chain[k - 1])
        BY <4>2, PointsDiffer
      <4>4. ASSUME j # 1 PROVE CoinbasePoint(k, v) # UpdatePoint(chain[j - 1])
        <5>1. PICK x : chain[j - 1].output = <<x>>
          BY <2>2, <3>1, <4>4
        <5> QED BY <5>1, PointsDiffer
      <4> QED BY <4>1, <4>3, <4>4
    <3>5. j # 1 => UpdatePoint(chain[j - 1]) # UpdatePoint(chain[k - 1])
      BY <2>3, <3>1
    <3> QED BY <3>2, <3>3, <3>4, <3>5
  <2> QED BY <2>1, <2>4, <2>5 DEF UpdatesFormChain, UpdatePoint, spends
<1> QED BY <1>1, PayoutInvariant, PTL

\* A call that fails or panics leaves the update and the chain as they were.
THEOREM FailuresAreHarmless == Spec => FailureChangesNothing
<1>1. PayoutInv /\ [Next]_vars => [result' # "Ok" => UNCHANGED <<chain, update>>]_vars
  <2> SUFFICES ASSUME PayoutInv, Next, result' # "Ok" PROVE UNCHANGED <<chain, update>>
    OBVIOUS
  <2>1. ASSUME NEW tx, NEW idx, NEW p, NEW k, NEW t, NEW verified \in BOOLEAN, NEW call,
               call = add_signature(tx, idx, p, k, t, verified), call.result # "Ok"
        PROVE  call.transaction = tx
    <3> DEFINE checked == CASE keypair(k, t) = {} -> "KeypairCreationError"
                            [] keypair(k, t) # {} /\ Len(p) # Len(tx.input) -> "TaprootError"
                            [] OTHER -> "Ok"
    <3>1. /\ call.result = IF checked = "Ok" /\ ~verified
                           THEN "SignatureVerificationError" ELSE checked
          /\ ~(checked = "Ok" /\ verified) => call.transaction = tx
      BY <2>1 DEF add_signature, Pushes
    <3> HIDE DEF checked
    <3> QED BY <2>1, <3>1
  <2>2. ASSUME NEW idx, NEW k, NEW t, SignUpdate(idx, k, t), update # <<>>
        PROVE  UNCHANGED <<chain, update>>
    <3>1. PICK verified \in BOOLEAN :
            LET call == add_signature(update[1].transaction, idx, Prevouts(update[1]), k, t, verified)
            IN  /\ update' = [update EXCEPT ![1].transaction = call.transaction]
                /\ result' = call.result
      BY <2>2 DEF SignUpdate, verify_schnorr, Returned
    <3>2. PICK call, t1 : /\ t1 = update[1].transaction
                          /\ call = add_signature(t1, idx, Prevouts(update[1]), k, t, verified)
      OBVIOUS
    <3>3. update' = [update EXCEPT ![1].transaction = call.transaction] /\ call.result # "Ok"
      BY <3>1, <3>2
    <3>4. call.transaction = t1
      BY <3>2, <3>3, <2>1
    <3>5. PICK tx, m, v : update = <<Draft(tx, m, v)>>
      BY <2>2 DEF PayoutInv, Drafted
    <3>6. t1 = tx
      <4>1. update[1] = Draft(tx, m, v)
        BY <3>5
      <4> QED BY <3>2, <4>1 DEF Draft
    <3>7. update' = update
      <4>1. update' = [<<Draft(tx, m, v)>> EXCEPT ![1].transaction = tx]
        BY <3>3, <3>4, <3>5, <3>6
      <4> QED BY <4>1, <3>5, SignedDraft
    <3> QED BY <2>2, <3>7 DEF SignUpdate
  <2>3. ASSUME NEW n \in DOMAIN chain, NEW i, NEW k, NEW t, SignBuilt(n, i, k, t)
        PROVE  UNCHANGED <<chain, update>>
    <3>1. PICK verified \in BOOLEAN :
            LET call == add_signature(chain[n], i, SpentBy(chain[n]), k, t, verified)
            IN  /\ chain' = [chain EXCEPT ![n] = call.transaction]
                /\ result' = call.result
      BY <2>3 DEF SignBuilt, verify_schnorr, Returned
    <3>4. PICK call, tx : /\ tx = chain[n]
                          /\ call = add_signature(tx, i, SpentBy(chain[n]), k, t, verified)
      OBVIOUS
    <3>5. chain' = [chain EXCEPT ![n] = call.transaction] /\ call.result # "Ok"
      BY <3>1, <3>4
    <3>6. call.transaction = tx
      BY <3>4, <3>5, <2>1
    <3>2. chain' = [chain EXCEPT ![n] = chain[n]]
      BY <3>4, <3>5, <3>6
    <3>3. PICK S : chain \in Seq(S)
      BY DEF PayoutInv
    <3> QED BY <2>3, <3>2, <3>3 DEF SignBuilt
  <2> QED BY <2>2, <2>3 DEF Next, New, NewPanics, AddCoinbaseSig, AddPrevUpdateSig,
                            NoPrevUpdate, Build
<1> QED BY <1>1, PayoutInvariant, PTL DEF Spec, FailureChangesNothing
==============================================================================
