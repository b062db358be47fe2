--------------------------- MODULE DecodingProofs ----------------------------
(***************************************************************************)
(* Theorems about Decoding, for any prompts, number of guesses, length of  *)
(* the texts and set of configurations: caches and position counters stay  *)
(* in step and have room, and what is delivered is what greedy decoding    *)
(* says, whatever the draft guesses.                                       *)
(*                                                                         *)
(* Caches are described by Holds: behind the padding of its row, a cache   *)
(* holds exactly the tokens its counter says.  Forwards and trims keep     *)
(* that, so the target sees each candidate of a round behind exactly the   *)
(* text so far and the guesses before it; up to the first wrong guess that *)
(* is the greedy text, and the rest is thrown away.                        *)
(*                                                                         *)
(* The last three parts are about what decoding takes for granted: a model *)
(* has the weights of its checkpoint (ModelLoading), a pass gives every    *)
(* block all that was computed before it (ForwardPass), and a kernel reads *)
(* weights in its own layout (Operators).                                  *)
(***************************************************************************)
EXTENDS Decoding, ModelLoading, ForwardPass, Operators,
        SequenceTheorems, FiniteSetTheorems, WellFoundedInduction, TLAPS

-----------------------------------------------------------------------------
(* Parts of sequences                                                      *)

LEMMA FirstFacts ==
  ASSUME NEW S, NEW q \in Seq(S), NEW n \in 0 .. Len(q)
  PROVE  /\ First(q, n) \in Seq(S) /\ Len(First(q, n)) = n
         /\ \A i \in 1 .. n : First(q, n)[i] = q[i]
<1>1. \A i \in 1 .. n : q[i] \in S
  OBVIOUS
<1> QED
  BY <1>1, SubSeqProperties DEF First

LEMMA LastFacts ==
  ASSUME NEW S, NEW q \in Seq(S), NEW n \in 0 .. Len(q)
  PROVE  /\ Last_(q, n) \in Seq(S) /\ Len(Last_(q, n)) = n
         /\ \A i \in 1 .. n : Last_(q, n)[i] = q[Len(q) - n + i]
<1>1. Len(q) \in Nat /\ Len(q) - n + 1 \in Int /\ n \in Int
  OBVIOUS
<1>2. \A i \in Len(q) - n + 1 .. Len(q) : q[i] \in S
  BY <1>1
<1>3. /\ Last_(q, n) \in Seq(S)
      /\ Len(Last_(q, n)) =
           IF Len(q) - n + 1 <= Len(q) THEN Len(q) - (Len(q) - n + 1) + 1 ELSE 0
      /\ \A i \in 1 .. Len(q) - (Len(q) - n + 1) + 1 :
           Last_(q, n)[i] = q[(Len(q) - n + 1) + i - 1]
  BY <1>1, <1>2, SubSeqProperties DEF Last_
<1> QED
  BY <1>1, <1>3

LEMMA DropFacts ==
  ASSUME NEW S, NEW q \in Seq(S), NEW n \in 0 .. Len(q)
  PROVE  /\ Drop(q, n) \in Seq(S) /\ Len(Drop(q, n)) = Len(q) - n
         /\ \A i \in 1 .. Len(q) - n : Drop(q, n)[i] = q[i]
<1>1. Len(q) - n \in 0 .. Len(q) /\ (n > 0 \/ n = 0)
  OBVIOUS
<1> QED
  BY <1>1, FirstFacts DEF Drop

LEMMA ConcatType ==
  ASSUME NEW S, NEW q \in Seq(S), NEW r \in Seq(S)
  PROVE  q \o r \in Seq(S) /\ Len(q \o r) = Len(q) + Len(r)
  BY ConcatProperties

LEMMA ConcatLeft ==
  ASSUME NEW S, NEW q \in Seq(S), NEW r \in Seq(S), NEW i \in 1 .. Len(q)
  PROVE  (q \o r)[i] = q[i]
<1>1. Len(q) \in Nat /\ Len(r) \in Nat
  OBVIOUS
<1>2. i \in 1 .. Len(q) + Len(r) /\ i <= Len(q)
  BY <1>1
<1> QED
  BY <1>2, ConcatProperties

LEMMA Associate ==
  ASSUME NEW S, NEW a, NEW b, NEW c, a \in Seq(S), b \in Seq(S), c \in Seq(S)
  PROVE  a \o (b \o c) = (a \o b) \o c
<1> QED
  BY ConcatAssociative, SMTT(30)

LEMMA ConcatRight ==
  ASSUME NEW S, NEW q \in Seq(S), NEW r \in Seq(S), NEW i \in 1 .. Len(r),
         NEW k, k = Len(q) + i
  PROVE  (q \o r)[k] = r[i]
<1>1. Len(q) \in Nat /\ Len(r) \in Nat
  OBVIOUS
<1>2. k \in 1 .. Len(q) + Len(r) /\ ~(k <= Len(q)) /\ k - Len(q) = i
  BY <1>1
<1> QED
  BY <1>2, ConcatProperties

LEMMA RepeatFacts ==
  ASSUME NEW S, NEW x \in S, NEW n \in Nat
  PROVE  /\ Repeat(x, n) \in Seq(S) /\ Len(Repeat(x, n)) = n
         /\ \A i \in 1 .. n : Repeat(x, n)[i] = x
  BY DEF Repeat

LEMMA SeqFacts ==
  ASSUME NEW S, NEW n \in Nat, NEW f \in [1 .. n -> S]
  PROVE  f \in Seq(S) /\ Len(f) = n
  OBVIOUS

(* The least of a set of numbers. *)
LEMMA Least ==
  ASSUME NEW T, T \subseteq Nat, T # {}
  PROVE  \E x \in T : \A y \in T : x <= y
<1>1. PICK x \in T : \A y \in T : ~ (<<y, x>> \in OpToRel(<, Nat))
  BY WFMin, NatLessThanWellFounded, Zenon
<1>2. \A y \in T : ~ (y < x)
  BY <1>1, Zenon DEF OpToRel
<1> QED
  BY <1>2

-----------------------------------------------------------------------------
(* Caches                                                                  *)

Cell == Token \union {Filler, "prompt"}

(* The padding in front of a row. *)
Lead(s) == IF config.paged THEN 0 ELSE InputLen(s) - PromptLen[s]

(* Behind l entries of padding cache holds content, and the counter n says so. *)
Holds(l, cache, n, content) ==
  /\ cache \in Seq(Cell) /\ content \in Seq(Cell)
  /\ n = Len(content) /\ Len(cache) = l + n
  /\ \A i \in 1 .. n : cache[l + i] = content[i]

(* A packed row has no padding. *)
Packed(l) == config.paged => l = 0

LEMMA LeadType ==
  ASSUME NEW s \in Seqs, config \in Configs
  PROVE  /\ Lead(s) \in Nat /\ PromptLen[s] \in Nat \ {0} /\ InputLen(s) \in Nat
         /\ Lead(s) + PromptLen[s] <= InputLen(s)
         /\ Packed(Lead(s))
<1>1. /\ PromptLen[s] \in Nat \ {0} /\ PromptLen[s] <= PaddedLen
      /\ PaddedLen \in Nat /\ config.offline \in BOOLEAN
  BY DecodingAssumption, ConfigAssumption
<1>2. InputLen(s) \in Nat /\ PromptLen[s] <= InputLen(s)
  BY <1>1 DEF InputLen
<1> QED
  BY <1>1, <1>2 DEF Lead, Packed

LEMMA HoldsSeen ==
  ASSUME NEW l \in Nat, NEW cache, NEW n \in Nat, NEW content,
         Holds(l, cache, n, content), NEW q \in Seq(Cell), Packed(l)
  PROVE  Seen(cache, n, q) = content \o q
<1>1. /\ cache \in Seq(Cell) /\ content \in Seq(Cell) /\ n \in Nat
      /\ n = Len(content) /\ Len(cache) = l + n
      /\ \A i \in 1 .. n : cache[l + i] = content[i]
  BY DEF Holds
<1>2. Len(q) \in Nat /\ content \o q \in Seq(Cell) /\ Len(content \o q) = n + Len(q)
  BY <1>1, ConcatType
<1>3. CASE config.paged
  <2>1. n \in 0 .. Len(cache) /\ l = 0
    BY <1>1, <1>3 DEF Packed
  <2>2. /\ First(cache, n) \in Seq(Cell) /\ Len(First(cache, n)) = n
        /\ \A i \in 1 .. n : First(cache, n)[i] = cache[i]
    BY <1>1, <2>1, FirstFacts
  <2>3. \A i \in 1 .. n : First(cache, n)[i] = content[i]
    BY <1>1, <2>1, <2>2
  <2>4. First(cache, n) = content
    BY <1>1, <2>2, <2>3, SeqEqual
  <2> QED
    BY <1>3, <2>4 DEF Seen
<1>4. CASE ~config.paged
  <2> DEFINE whole == cache \o q
             seen == Last_(whole, n + Len(q))
  <2>1. whole \in Seq(Cell) /\ Len(whole) = (l + n) + Len(q)
    BY <1>1, ConcatType
  <2>2. n + Len(q) \in 0 .. Len(whole) /\ Len(whole) - (n + Len(q)) = l
    BY <1>1, <1>2, <2>1
  <2> HIDE DEF whole
  <2>3. /\ seen \in Seq(Cell) /\ Len(seen) = n + Len(q)
        /\ \A i \in 1 .. n + Len(q) : seen[i] = whole[l + i]
    BY <2>1, <2>2, LastFacts
  <2> HIDE DEF seen
  <2>4. ASSUME NEW i \in 1 .. n PROVE seen[i] = (content \o q)[i]
    <3>1. i \in 1 .. n + Len(q) /\ l + i \in 1 .. Len(cache) /\ i \in 1 .. Len(content)
      BY <1>1, <1>2
    <3>2. whole[l + i] = cache[l + i]
      BY <1>1, <3>1, ConcatLeft DEF whole
    <3>3. (content \o q)[i] = content[i]
      BY <1>1, <3>1, ConcatLeft
    <3> QED
      BY <1>1, <2>3, <3>1, <3>2, <3>3
  <2>5. ASSUME NEW i \in 1 .. Len(q), NEW j, j = n + i
        PROVE  seen[j] = (content \o q)[j]
    <3>1. j \in 1 .. n + Len(q) /\ l + j = Len(cache) + i /\ j = Len(content) + i
      BY <1>1, <1>2, <2>5
    <3>2. whole[l + j] = q[i]
      BY <1>1, <3>1, ConcatRight DEF whole
    <3>3. (content \o q)[j] = q[i]
      BY <1>1, <3>1, ConcatRight
    <3> QED
      BY <2>3, <3>1, <3>2, <3>3
  <2>6. ASSUME NEW i \in 1 .. n + Len(q) PROVE seen[i] = (content \o q)[i]
    <3>1. i \in 1 .. n \/ (i - n \in 1 .. Len(q) /\ i = n + (i - n))
      BY <1>1, <1>2
    <3> QED
      BY <2>4, <2>5, <3>1
  <2>7. seen = content \o q
    BY <1>2, <2>3, <2>6, SeqEqual
  <2> QED
    BY <1>4, <2>7 DEF Seen, seen, whole
<1> QED
  BY <1>3, <1>4

(* A forward appends. *)
LEMMA HoldsAppend ==
  ASSUME NEW l \in Nat, NEW cache, NEW n \in Nat, NEW content,
         Holds(l, cache, n, content), NEW q \in Seq(Cell)
  PROVE  Holds(l, cache \o q, n + Len(q), content \o q)
<1>1. /\ cache \in Seq(Cell) /\ content \in Seq(Cell) /\ n \in Nat
      /\ n = Len(content) /\ Len(cache) = l + n
      /\ \A i \in 1 .. n : cache[l + i] = content[i]
  BY DEF Holds
<1>2. Len(q) \in Nat /\ content \o q \in Seq(Cell) /\ Len(content \o q) = n + Len(q)
  BY <1>1, ConcatType
<1>3. cache \o q \in Seq(Cell) /\ Len(cache \o q) = l + (n + Len(q))
  <2>1. Len(cache \o q) = (l + n) + Len(q) /\ cache \o q \in Seq(Cell)
    BY <1>1, ConcatType
  <2> QED
    BY <1>1, <1>2, <2>1
<1>4. ASSUME NEW i \in 1 .. n PROVE (cache \o q)[l + i] = (content \o q)[i]
  <2>1. l + i \in 1 .. Len(cache) /\ i \in 1 .. Len(content)
    BY <1>1
  <2>2. (cache \o q)[l + i] = cache[l + i]
    BY <1>1, <2>1, ConcatLeft
  <2>3. (content \o q)[i] = content[i]
    BY <1>1, <2>1, ConcatLeft
  <2> QED
    BY <1>1, <2>2, <2>3
<1>5. ASSUME NEW i \in 1 .. Len(q), NEW j, j = n + i
      PROVE  (cache \o q)[l + j] = (content \o q)[j]
  <2>1. l + j = Len(cache) + i /\ j = Len(content) + i
    BY <1>1, <1>5
  <2>2. (cache \o q)[l + j] = q[i]
    BY <1>1, <2>1, ConcatRight
  <2>3. (content \o q)[j] = q[i]
    <3>1. content \in Seq(Cell) /\ j = Len(content) + i
      BY <1>1, <2>1
    <3> QED
      BY <3>1, ConcatRight
  <2> QED
    BY <2>2, <2>3
<1>6. ASSUME NEW i \in 1 .. n + Len(q)
      PROVE  (cache \o q)[l + i] = (content \o q)[i]
  <2>1. i \in 1 .. n \/ (i - n \in 1 .. Len(q) /\ i = n + (i - n))
    BY <1>1, <1>2
  <2> QED
    BY <1>4, <1>5, <2>1
<1> QED
  BY <1>2, <1>3, <1>6 DEF Holds

(* A trim of no more than the content. *)
LEMMA HoldsDrop ==
  ASSUME NEW l \in Nat, NEW cache, NEW n \in Nat, NEW content,
         Holds(l, cache, n, content), NEW k \in 0 .. n
  PROVE  Holds(l, Drop(cache, k), n - k, Drop(content, k))
<1>1. /\ cache \in Seq(Cell) /\ content \in Seq(Cell) /\ n \in Nat
      /\ n = Len(content) /\ Len(cache) = l + n
      /\ \A i \in 1 .. n : cache[l + i] = content[i]
  BY DEF Holds
<1>2. k \in 0 .. Len(cache) /\ k \in 0 .. Len(content)
  BY <1>1
<1>3. /\ Drop(content, k) \in Seq(Cell) /\ Len(Drop(content, k)) = n - k
      /\ \A i \in 1 .. n - k : Drop(content, k)[i] = content[i]
  BY <1>1, <1>2, DropFacts
<1>4. /\ Drop(cache, k) \in Seq(Cell) /\ Len(Drop(cache, k)) = l + n - k
      /\ \A i \in 1 .. l + n - k : Drop(cache, k)[i] = cache[i]
  BY <1>1, <1>2, DropFacts, SMTT(30)
<1>5. ASSUME NEW i \in 1 .. n - k
      PROVE  Drop(cache, k)[l + i] = Drop(content, k)[i]
  <2>1. l + i \in 1 .. l + n - k /\ i \in 1 .. n
    BY <1>1
  <2> QED
    BY <1>1, <1>3, <1>4, <2>1
<1>6. l + n - k = l + (n - k)
  BY <1>1
<1> QED
  BY <1>3, <1>4, <1>5, <1>6 DEF Holds

(* Before anything is known of a row, its padding is all there is. *)
LEMMA HoldsPadding ==
  ASSUME NEW s \in Seqs, config \in Configs
  PROVE  Holds(Lead(s), Padding(s), 0, <<>>)
<1>1. /\ Filler \in Cell /\ <<>> \in Seq(Cell) /\ Len(<<>>) = 0 /\ Lead(s) \in Nat
      /\ InputLen(s) - PromptLen[s] \in Nat
  BY LeadType DEF Cell
<1>2. CASE config.paged
  BY <1>1, <1>2 DEF Padding, Lead, Holds
<1>3. CASE ~config.paged
  <2> DEFINE n == InputLen(s) - PromptLen[s]
  <2>1. n \in Nat /\ Lead(s) = n /\ Padding(s) = Repeat(Filler, n)
    BY <1>1, <1>3 DEF Padding, Lead
  <2> HIDE DEF n
  <2>2. Padding(s) \in Seq(Cell) /\ Len(Padding(s)) = n
    BY <1>1, <2>1, RepeatFacts
  <2> QED
    BY <1>1, <2>1, <2>2 DEF Holds
<1> QED
  BY <1>2, <1>3

-----------------------------------------------------------------------------
(* What verify accepts                                                     *)

Guess == [1 .. D -> Token]
Choice == [1 .. D + 1 -> Token]

LEMMA AcceptedFacts ==
  ASSUME NEW guess \in Guess, NEW out \in Choice
  PROVE  \E n \in 0 .. D :
           /\ \A i \in 1 .. n : guess[i] = out[i]
           /\ Accepted(guess, out) \in Seq(Token)
           /\ Len(Accepted(guess, out)) = n + 1
           /\ \A i \in 1 .. n + 1 : Accepted(guess, out)[i] = out[i]
<1> DEFINE Good(n) == /\ \A i \in 1 .. n : guess[i] = out[i]
                      /\ n < D => guess[n + 1] # out[n + 1]
           wrong == {i \in 1 .. D : guess[i] # out[i]}
<1>0. D \in Nat \ {0}
  BY DecodingAssumption
<1>1. \E n \in 0 .. D : Good(n)
  <2>1. CASE wrong = {}
    <3>1. D \in 0 .. D /\ Good(D)
      BY <1>0, <2>1
    <3> QED
      BY <3>1
  <2>2. CASE wrong # {}
    <3>1. PICK x \in wrong : \A y \in wrong : x <= y
      <4>1. wrong \subseteq Nat
        BY <1>0
      <4> HIDE DEF wrong
      <4> QED
        BY <2>2, <4>1, Least
    <3>2. x \in 1 .. D /\ x - 1 \in 0 .. D /\ (x - 1) + 1 = x
      BY <1>0, <3>1
    <3>3. \A i \in 1 .. x - 1 : guess[i] = out[i]
      BY <1>0, <3>1, <3>2
    <3>4. Good(x - 1)
      BY <3>1, <3>2, <3>3
    <3> QED
      BY <3>2, <3>4
  <2> QED
    BY <2>1, <2>2
<1>2. PICK n \in 0 .. D : n = NumAccepted(guess, out) /\ Good(n)
  <2>1. NumAccepted(guess, out) = CHOOSE n \in 0 .. D : Good(n)
    BY DEF NumAccepted
  <2> HIDE DEF Good
  <2> QED
    BY <1>1, <2>1
<1>3. out \in Seq(Token) /\ Len(out) = D + 1
  BY <1>0, SeqFacts DEF Choice
<1>4. n + 1 \in 0 .. Len(out)
  BY <1>0, <1>3
<1>5. /\ First(out, n + 1) \in Seq(Token) /\ Len(First(out, n + 1)) = n + 1
      /\ \A i \in 1 .. n + 1 : First(out, n + 1)[i] = out[i]
  BY <1>3, <1>4, FirstFacts
<1> QED
  BY <1>2, <1>5 DEF Accepted

-----------------------------------------------------------------------------
(* What the target ranks first                                             *)

Offsets == 0 .. MaxNewTokens + D - 1
Greedies == [Rows -> [1 .. MaxNewTokens + D -> Token]]

(* content is the prompt of s and m tokens of its greedy text. *)
IsText(s, m, content) ==
  /\ content \in Seq(Cell) /\ Len(content) = PromptLen[s] + m
  /\ \A i \in 1 .. PromptLen[s] : content[i] = "prompt"
  /\ \A i \in 1 .. m : content[PromptLen[s] + i] = greedy[s][i]

LEMMA PromptFacts ==
  ASSUME NEW s \in Seqs
  PROVE  /\ PromptLen[s] \in Nat \ {0}
         /\ Prompt(s) \in Seq(Cell) /\ Len(Prompt(s)) = PromptLen[s]
         /\ \A i \in 1 .. PromptLen[s] : Prompt(s)[i] = "prompt"
<1>1. PromptLen[s] \in Nat \ {0} /\ PromptLen[s] \in Nat /\ "prompt" \in Cell
  BY DecodingAssumption DEF Cell
<1> QED
  BY <1>1, RepeatFacts DEF Prompt

LEMMA GreedyType ==
  ASSUME NEW s \in Rows, greedy \in Greedies
  PROVE  /\ greedy[s] \in Seq(Token) /\ Len(greedy[s]) = MaxNewTokens + D
         /\ greedy[s] \in Seq(Cell)
         /\ \A i \in 1 .. MaxNewTokens + D : greedy[s][i] \in Token
<1>1. MaxNewTokens + D \in Nat /\ greedy[s] \in [1 .. MaxNewTokens + D -> Token]
  BY DecodingAssumption DEF Greedies
<1>2. greedy[s] \in [1 .. MaxNewTokens + D -> Cell]
  BY <1>1 DEF Cell
<1> QED
  BY <1>1, <1>2, SeqFacts

LEMMA TopOfText ==
  ASSUME NEW s \in Rows, s \in Seqs, greedy \in Greedies,
         NEW m \in Offsets, NEW content, IsText(s, m, content)
  PROVE  /\ Tops(s, content) = {greedy[s][m + 1]} /\ greedy[s][m + 1] \in Token
<1>0. /\ MaxNewTokens \in Nat /\ D \in Nat /\ MaxNewTokens + D \in Nat
      /\ m \in 0 .. MaxNewTokens + D - 1 /\ m \in Nat
  BY DecodingAssumption DEF Offsets
<1>a. /\ greedy[s] \in Seq(Cell) /\ Len(greedy[s]) = MaxNewTokens + D
      /\ \A i \in 1 .. MaxNewTokens + D : greedy[s][i] \in Token
  BY GreedyType
<1>b. m + 1 \in 1 .. MaxNewTokens + D /\ m \in 0 .. MaxNewTokens + D
  BY <1>0
<1>1. /\ greedy[s] \in Seq(Cell)
      /\ m \in 0 .. Len(greedy[s]) /\ m \in 0 .. Len(greedy[s]) - 1
      /\ greedy[s][m + 1] \in Token
  BY <1>a, <1>b
<1>2. /\ First(greedy[s], m) \in Seq(Cell) /\ Len(First(greedy[s], m)) = m
      /\ \A i \in 1 .. m : First(greedy[s], m)[i] = greedy[s][i]
  BY <1>1, FirstFacts
<1> DEFINE start == First(greedy[s], m)
           text == Prompt(s) \o start
<1> HIDE DEF start
<1>c. /\ start \in Seq(Cell) /\ Len(start) = m /\ PromptLen[s] \in Nat
      /\ Prompt(s) \in Seq(Cell) /\ Len(Prompt(s)) = PromptLen[s]
      /\ \A i \in 1 .. PromptLen[s] : Prompt(s)[i] = "prompt"
      /\ \A i \in 1 .. m : start[i] = greedy[s][i]
  BY <1>2, PromptFacts DEF start
<1>d. text \in Seq(Cell) /\ Len(text) = PromptLen[s] + m
  <2> DEFINE prompt == Prompt(s)
             p == PromptLen[s]
  <2>1. /\ prompt \in Seq(Cell) /\ start \in Seq(Cell)
        /\ Len(prompt) = p /\ Len(start) = m
    BY <1>c
  <2> HIDE DEF prompt, p
  <2>2. prompt \o start \in Seq(Cell) /\ Len(prompt \o start) = p + m
    BY <2>1
  <2> QED
    BY <2>2 DEF prompt, p
<1>e. \A i \in 1 .. PromptLen[s] : text[i] = Prompt(s)[i]
  BY <1>0, <1>c
<1>f. \A i \in 1 .. m : text[PromptLen[s] + i] = start[i]
  <2> SUFFICES ASSUME NEW i \in 1 .. m PROVE text[PromptLen[s] + i] = start[i]
    OBVIOUS
  <2>1. i \in 1 .. Len(start) /\ Len(Prompt(s)) = PromptLen[s]
    BY <1>c
  <2> DEFINE prompt == Prompt(s)
             x == Len(prompt) + i
  <2>2. prompt \in Seq(Cell) /\ x = Len(prompt) + i
    BY <1>c
  <2> HIDE DEF prompt, x
  <2>3. (prompt \o start)[x] = start[i]
    BY <1>c, <2>1, <2>2, ConcatRight
  <2> QED
    BY <2>1, <2>3 DEF prompt, x
<1> HIDE DEF text
<1>4. ASSUME NEW i \in 1 .. Len(content) PROVE content[i] = text[i]
  <2>1. PromptLen[s] \in Nat /\ Len(content) = PromptLen[s] + m
    BY PromptFacts DEF IsText
  <2>2. \/ i \in 1 .. PromptLen[s]
        \/ i - PromptLen[s] \in 1 .. m /\ PromptLen[s] + (i - PromptLen[s]) = i
    BY <1>0, <2>1
  <2>3. /\ \A j \in 1 .. PromptLen[s] : content[j] = "prompt"
        /\ \A j \in 1 .. m : content[PromptLen[s] + j] = greedy[s][j]
    BY DEF IsText
  <2>4. CASE i \in 1 .. PromptLen[s]
    <3>1. content[i] = "prompt" /\ Prompt(s)[i] = "prompt" /\ text[i] = Prompt(s)[i]
      BY <1>c, <1>e, <2>3, <2>4
    <3> QED
      BY <3>1
  <2>5. CASE i - PromptLen[s] \in 1 .. m /\ PromptLen[s] + (i - PromptLen[s]) = i
    <3>1. PICK j \in 1 .. m : PromptLen[s] + j = i
      BY <2>5
    <3>2. /\ content[PromptLen[s] + j] = greedy[s][j]
          /\ start[j] = greedy[s][j] /\ text[PromptLen[s] + j] = start[j]
      BY <1>c, <1>f, <2>3
    <3> QED
      BY <3>1, <3>2
  <2> QED
    BY <2>2, <2>4, <2>5
<1>5. content = text
  BY <1>d, <1>4, SeqEqual DEF IsText
<1>6. Len(content) - PromptLen[s] = m
  BY <1>0, PromptFacts DEF IsText
<1> QED
  BY <1>1, <1>5, <1>6 DEF Tops, text, start

IsFirst(f, q, n) == f = First(q, n)
IsSum(n, a, b) == n = a + b
AgreeTo(n, q, r) == \A i \in 1 .. n : q[i] = r[i]
Joins(c, inputs, k) == c \o inputs = k

(* A prefix of the last part is a prefix of the whole. *)
LEMMA PrefixOfConcat ==
  ASSUME NEW S, NEW c \in Seq(S), NEW q \in Seq(S), NEW j \in 0 .. Len(q),
         NEW f, IsFirst(f, q, j), NEW n, IsSum(n, Len(c), j)
  PROVE  /\ f \in Seq(S) /\ c \o f \in Seq(S) /\ Len(c \o f) = n
         /\ AgreeTo(n, c \o f, c \o q)
<1>0. j \in Nat /\ Len(q) \in Nat /\ Len(c) \in Nat /\ j <= Len(q)
  OBVIOUS
<1>1. f \in Seq(S) /\ Len(f) = j /\ \A i \in 1 .. j : f[i] = q[i]
  BY FirstFacts DEF IsFirst
<1>2. c \o f \in Seq(S) /\ Len(c \o f) = Len(c) + j
  BY <1>1, ConcatType
<1>3. ASSUME NEW i \in 1 .. Len(c) PROVE (c \o f)[i] = (c \o q)[i]
  <2>1. (c \o f)[i] = c[i]
    BY <1>1, ConcatLeft
  <2>2. (c \o q)[i] = c[i]
    BY ConcatLeft
  <2> QED
    BY <2>1, <2>2
<1>4. ASSUME NEW i \in 1 .. j, NEW k, k = Len(c) + i PROVE (c \o f)[k] = (c \o q)[k]
  <2>1. (c \o f)[k] = f[i]
    BY <1>1, <1>4, ConcatRight
  <2>2. i \in 1 .. Len(q)
    BY <1>0
  <2>3. (c \o q)[k] = q[i]
    BY <1>4, <2>2, ConcatRight
  <2> QED
    BY <1>1, <2>1, <2>3
<1>5. ASSUME NEW i \in 1 .. Len(c) + j PROVE (c \o f)[i] = (c \o q)[i]
  <2>1. i \in 1 .. Len(c) \/ (i - Len(c) \in 1 .. j /\ i = Len(c) + (i - Len(c)))
    BY <1>0
  <2> QED
    BY <1>3, <1>4, <2>1
<1> QED
  BY <1>1, <1>2, <1>5 DEF IsSum, AgreeTo

(* The sampler's mask of EOS says nothing about token x. *)
Unmasked(s, x) == Len(seq[s].tokens) < config.min => x # Eos

(* For the i-th of the last k inputs the target ranks x first. *)
Ranks(s, cache, n, q, k, i, x) ==
  Tops(s, Seen(cache, n, First(q, Len(q) - k + i))) = {x} /\ x \in Token

LEMMA Candidate ==
  ASSUME NEW s, NEW cache, NEW n, NEW q, NEW k, NEW i \in 1 .. k, NEW x,
         Ranks(s, cache, n, q, k, i, x), Unmasked(s, x),
         NEW out \in Sampled(s, cache, n, q, k)
  PROVE  out[i] = x
<1> DEFINE tops == Tops(s, Seen(cache, n, First(q, Len(q) - k + i)))
<1>1. out[i] \in UNION {MinNewTokens(Len(seq[s].tokens), t) : t \in tops}
  BY DEF Sampled
<1>2. tops = {x}
  BY DEF Ranks
<1> HIDE DEF tops
<1>3. PICK t \in {x} : out[i] \in MinNewTokens(Len(seq[s].tokens), t)
  BY <1>1, <1>2
<1>4. out[i] \in MinNewTokens(Len(seq[s].tokens), x)
  BY <1>3
<1> QED
  BY <1>4 DEF MinNewTokens, Unmasked

LEMMA SampledType ==
  ASSUME NEW s, NEW cache, NEW n, NEW q, NEW k, NEW out \in Sampled(s, cache, n, q, k)
  PROVE  out \in [1 .. k -> Token]
  BY DEF Sampled

LEMMA SeenFirst ==
  ASSUME NEW l \in Nat, Packed(l),
         NEW cache, NEW n \in Nat, NEW c, Holds(l, cache, n, c),
         NEW q \in Seq(Cell), NEW w \in 0 .. Len(q), NEW content, content = c \o First(q, w)
  PROVE  Seen(cache, n, First(q, w)) = content
<1> DEFINE f == First(q, w)
<1>1. f \in Seq(Cell)
  BY FirstFacts
<1>2. content = c \o f
  OBVIOUS
<1> HIDE DEF f
<1>3. Seen(cache, n, f) = c \o f
  BY <1>1, HoldsSeen
<1>4. Seen(cache, n, f) = content
  BY <1>2, <1>3
<1> QED
  BY <1>4 DEF f

(* A step without speculation. *)
LEMMA NextIsGreedy ==
  ASSUME NEW s \in Rows, s \in Seqs, greedy \in Greedies, NEW l \in Nat, Packed(l),
         NEW cache, NEW n \in Nat, NEW c, Holds(l, cache, n, c),
         NEW q \in Seq(Cell), q # <<>>, NEW text, Joins(c, q, text),
         NEW m \in Offsets, IsText(s, m, text), Unmasked(s, greedy[s][m + 1]),
         NEW out \in Sampled(s, cache, n, q, 1)
  PROVE  out[1] = greedy[s][m + 1]
<1> DEFINE top == greedy[s][m + 1]
<1>1. 1 \in 1 .. 1 /\ Len(q) - 1 + 1 = Len(q)
  OBVIOUS
<1>2. First(q, Len(q) - 1 + 1) = q
  BY <1>1, SubSeqFull DEF First
<1>3. Seen(cache, n, q) = text
  BY HoldsSeen DEF Joins
<1>4. Tops(s, text) = {top} /\ top \in Token
  BY TopOfText
<1> HIDE DEF top
<1>5. Ranks(s, cache, n, q, 1, 1, top)
  BY <1>2, <1>3, <1>4 DEF Ranks
<1>6. Unmasked(s, top)
  BY DEF top
<1>7. out[1] = top
  BY <1>1, <1>5, <1>6, Candidate
<1> QED
  BY <1>7 DEF top

(* Lengths, named to keep them out of the provers' way: of the input of a  *)
(* round, of a text that goes on, and of the guesses that are accepted.    *)
Beyond == {n \in Nat : D + 1 <= n}
Below == 0 .. MaxNewTokens - 1
Accepts == 0 .. D

SameContent(c, q, text, guess) == c \o q = text \o guess

(* A round: what the target samples is the greedy text up to the first     *)
(* wrong guess and one token beyond, for the guesses before it are the     *)
(* greedy text.                                                            *)
LEMMA RoundIsGreedy ==
  ASSUME NEW s \in Rows, s \in Seqs, greedy \in Greedies, NEW l \in Nat, Packed(l),
         NEW cache, NEW n \in Nat, NEW c, Holds(l, cache, n, c),
         NEW q \in Seq(Cell), Len(q) \in Beyond,
         NEW out \in Sampled(s, cache, n, q, D + 1),
         NEW m \in Below, NEW text, IsText(s, m, text),
         NEW guess \in Guess, SameContent(c, q, text, guess),
         ~(Len(seq[s].tokens) < config.min),
         NEW j \in Accepts, AgreeTo(j, guess, out)
  PROVE  \A i \in 1 .. j + 1 : out[i] = greedy[s][m + i]
<1> DEFINE wrong == {i \in 1 .. j + 1 : out[i] # greedy[s][m + i]}
           P == PromptLen[s]
<1>0. /\ D \in Nat \ {0} /\ MaxNewTokens \in Nat \ {0} /\ P \in Nat \ {0}
      /\ m \in 0 .. MaxNewTokens - 1 /\ j \in 0 .. D
      /\ m \in Nat /\ j \in Nat /\ Len(q) \in Nat /\ D + 1 <= Len(q)
  BY DecodingAssumption DEF Below, Beyond, Accepts
<1>1. SUFFICES ASSUME wrong # {} PROVE FALSE
  OBVIOUS
<1>2. PICK x \in wrong : \A y \in wrong : x <= y
  <2>1. wrong \subseteq Nat
    BY <1>0
  <2> HIDE DEF wrong
  <2> QED
    BY <1>1, <2>1, Least
<1>3. x \in 1 .. j + 1 /\ x \in 1 .. D + 1 /\ out[x] # greedy[s][m + x]
  BY <1>0, <1>2
<1>4. \A i \in 1 .. x - 1 : i \in 1 .. j /\ guess[i] = greedy[s][m + i]
  <2> SUFFICES ASSUME NEW i \in 1 .. x - 1
               PROVE  i \in 1 .. j /\ guess[i] = greedy[s][m + i]
    OBVIOUS
  <2>1. i \in 1 .. j /\ i \in 1 .. j + 1 /\ ~(x <= i)
    BY <1>0, <1>3
  <2>2. i \notin wrong
    BY <1>2, <2>1
  <2> QED
    BY <2>1, <2>2 DEF AgreeTo
<1> HIDE DEF wrong
<1>5. /\ text \in Seq(Cell) /\ Len(text) = P + m
      /\ \A i \in 1 .. P : text[i] = "prompt"
      /\ \A i \in 1 .. m : text[P + i] = greedy[s][i]
  BY DEF IsText
<1>6. guess \in Seq(Cell) /\ Len(guess) = D
  <2>1. guess \in [1 .. D -> Cell] /\ D \in Nat
    BY <1>0 DEF Guess, Cell
  <2> QED
    BY <2>1, SeqFacts
<1>7. c \in Seq(Cell) /\ n = Len(c)
  BY DEF Holds
<1> HIDE DEF P
<1>8. n + Len(q) = P + m + D
  <2>1. Len(c \o q) = Len(c) + Len(q)
    BY <1>7, ConcatType
  <2>2. Len(text \o guess) = Len(text) + Len(guess)
    BY <1>5, <1>6, ConcatType
  <2> QED
    BY <1>0, <1>5, <1>6, <1>7, <2>1, <2>2 DEF SameContent
<1> DEFINE w == Len(q) - (D + 1) + x
           f == First(q, w)
<1>b. w = Len(q) - (D + 1) + x
  OBVIOUS
<1> HIDE DEF w
<1>9. w \in 0 .. Len(q)
  BY <1>0, <1>3, <1>b
<1>c. Len(c) + w = P + (m + (x - 1))
  <2>1. Len(q) \in Int /\ P \in Int /\ m \in Int /\ D \in Int /\ x \in Int
    BY <1>0, <1>3
  <2> HIDE DEF wrong
  <2>2. n = P + m + D - Len(q)
    BY <1>8, <2>1
  <2> QED
    BY <1>7, <1>b, <2>1, <2>2
<1>d. f = First(q, w) /\ IsFirst(f, q, w)
  BY DEF IsFirst
<1> HIDE DEF f
<1> DEFINE k == P + (m + (x - 1))
<1>e. IsSum(k, Len(c), w)
  BY <1>c DEF IsSum
<1> HIDE DEF k
<1>f. /\ f \in Seq(Cell) /\ c \o f \in Seq(Cell) /\ Len(c \o f) = k
      /\ \A i \in 1 .. k : (c \o f)[i] = (c \o q)[i]
  <2>1. c \in Seq(Cell) /\ IsFirst(f, q, w)
    BY <1>7, <1>d
  <2>2. f \in Seq(Cell)
    BY <2>1, <1>9, <1>e, PrefixOfConcat
  <2>3. c \o f \in Seq(Cell)
    BY <2>1, <1>9, <1>e, PrefixOfConcat
  <2>4. Len(c \o f) = k
    BY <2>1, <1>9, <1>e, PrefixOfConcat
  <2>5. AgreeTo(k, c \o f, c \o q)
    BY <2>1, <1>9, <1>e, PrefixOfConcat
  <2> QED
    BY <2>2, <2>3, <2>4, <2>5 DEF AgreeTo
<1>10. /\ c \o f \in Seq(Cell) /\ Len(c \o f) = P + (m + (x - 1))
       /\ \A i \in 1 .. P + (m + (x - 1)) : (c \o f)[i] = (text \o guess)[i]
  BY <1>f DEF k, SameContent
<1>11. ASSUME NEW i \in 1 .. P PROVE (c \o f)[i] = "prompt"
  <2>1. i \in 1 .. P + (m + (x - 1)) /\ i \in 1 .. Len(text)
    BY <1>0, <1>3, <1>5
  <2>2. (text \o guess)[i] = text[i]
    BY <1>5, <1>6, <2>1, ConcatLeft
  <2> QED
    BY <1>5, <1>10, <2>1, <2>2
<1>12. ASSUME NEW i \in 1 .. m PROVE (c \o f)[P + i] = greedy[s][i]
  <2>1. P + i \in 1 .. P + (m + (x - 1)) /\ P + i \in 1 .. Len(text)
    BY <1>0, <1>3, <1>5
  <2>2. (text \o guess)[P + i] = text[P + i]
    BY <1>5, <1>6, <2>1, ConcatLeft
  <2> QED
    BY <1>5, <1>10, <2>1, <2>2
<1>13. ASSUME NEW i \in 1 .. x - 1 PROVE (c \o f)[P + (m + i)] = greedy[s][m + i]
  <2>1. /\ P + (m + i) \in 1 .. P + (m + (x - 1)) /\ i \in 1 .. Len(guess)
        /\ P + (m + i) = Len(text) + i
    BY <1>0, <1>3, <1>5, <1>6
  <2>2. (text \o guess)[P + (m + i)] = guess[i]
    BY <1>5, <1>6, <2>1, ConcatRight
  <2> QED
    BY <1>4, <1>10, <2>1, <2>2
<1>14. ASSUME NEW i \in 1 .. m + (x - 1) PROVE (c \o f)[P + i] = greedy[s][i]
  <2>1. i \in 1 .. m \/ (i - m \in 1 .. x - 1 /\ m + (i - m) = i)
    BY <1>0, <1>3
  <2> QED
    BY <1>12, <1>13, <2>1
<1>15. IsText(s, m + (x - 1), c \o f)
  BY <1>10, <1>11, <1>14 DEF IsText, P
<1>16. /\ m + (x - 1) \in 0 .. MaxNewTokens + D - 1 /\ (m + (x - 1)) + 1 = m + x
       /\ D + 1 \in 1 .. Len(q)
  BY <1>0, <1>3
<1> DEFINE content == c \o f
           past == m + (x - 1)
           top == greedy[s][past + 1]
<1>17. IsText(s, past, content) /\ past \in Offsets
  BY <1>15, <1>16 DEF Offsets
<1>18. Tops(s, content) = {top} /\ top \in Token
  BY <1>17, TopOfText
<1>19. Seen(cache, n, f) = content
  BY <1>f, HoldsSeen, ZenonT(30)
<1>20. Unmasked(s, top)
  BY DEF Unmasked
<1> HIDE DEF content, top, past
<1>21. Ranks(s, cache, n, q, D + 1, x, top)
  BY <1>18, <1>19, <1>b, <1>d DEF Ranks
<1>22. out[x] = top
  BY <1>3, <1>20, <1>21, Candidate, SMTT(30)
<1> QED
  BY <1>3, <1>16, <1>22 DEF top, past

(* The pieces of a sequence. *)
LEMMA CutInTwo ==
  ASSUME NEW S, NEW q \in Seq(S), NEW n \in 0 .. Len(q)
  PROVE  First(q, n) \o Last_(q, Len(q) - n) = q
<1>1. Len(q) \in Nat /\ n \in Nat /\ n <= Len(q)
  OBVIOUS
<1>2. Len(q) - (Len(q) - n) + 1 = n + 1
  BY <1>1
<1>3. Last_(q, Len(q) - n) = SubSeq(q, n + 1, Len(q))
  BY <1>2 DEF Last_
<1>4. SubSeq(q, 1, n) \o SubSeq(q, n + 1, Len(q)) = SubSeq(q, 1, Len(q))
  <2>1. 1 \in 1 .. Len(q) + 1 /\ n \in 1 - 1 .. Len(q) /\ Len(q) \in n .. Len(q)
    BY <1>1
  <2> QED
    BY <2>1, ConcatAdjacentSubSeq
<1>5. SubSeq(q, 1, Len(q)) = q
  BY SubSeqFull
<1> QED
  BY <1>3, <1>4, <1>5 DEF First

LEMMA SplitLast ==
  ASSUME NEW S, NEW q \in Seq(S), q # <<>>
  PROVE  /\ Drop(q, 1) \o Last_(q, 1) = q
         /\ Drop(q, 1) \in Seq(S) /\ Len(Drop(q, 1)) = Len(q) - 1
         /\ Last_(q, 1) \in Seq(S) /\ Len(Last_(q, 1)) = 1
<1>1. Len(q) \in Nat /\ 1 \in 0 .. Len(q) /\ Len(q) - 1 \in 0 .. Len(q)
      /\ Len(q) - (Len(q) - 1) = 1
  OBVIOUS
<1>2. Drop(q, 1) = First(q, Len(q) - 1)
  BY DEF Drop
<1>3. First(q, Len(q) - 1) \o Last_(q, Len(q) - (Len(q) - 1)) = q
  BY <1>1, CutInTwo
<1>4. Drop(q, 1) \o Last_(q, 1) = q
  BY <1>1, <1>2, <1>3
<1> QED
  BY <1>1, <1>4, DropFacts, LastFacts, ZenonT(30)

LEMMA DropConcat ==
  ASSUME NEW S, NEW q \in Seq(S), NEW r \in Seq(S), NEW k \in 0 .. Len(r)
  PROVE  Drop(q \o r, k) = q \o Drop(r, k)
<1> DEFINE whole == q \o r
           left == Drop(whole, k)
           rest == Drop(r, k)
<1>1. whole \in Seq(S) /\ Len(whole) = Len(q) + Len(r)
  BY ConcatType
<1>2. /\ Len(q) \in Nat /\ Len(r) \in Nat /\ k \in 0 .. Len(whole)
      /\ Len(whole) - k = Len(q) + (Len(r) - k) /\ Len(r) - k \in Nat
  BY <1>1
<1>3. \A i \in 1 .. Len(q) : whole[i] = q[i]
  BY ConcatLeft
<1>4. \A i \in 1 .. Len(r) : whole[Len(q) + i] = r[i]
  BY ConcatRight
<1> HIDE DEF whole
<1>5. /\ left \in Seq(S) /\ Len(left) = Len(q) + (Len(r) - k)
      /\ \A i \in 1 .. Len(q) + (Len(r) - k) : left[i] = whole[i]
  BY <1>1, <1>2, DropFacts
<1>6. /\ rest \in Seq(S) /\ Len(rest) = Len(r) - k
      /\ \A i \in 1 .. Len(r) - k : rest[i] = r[i]
  BY DropFacts
<1> HIDE DEF left, rest
<1>7. q \o rest \in Seq(S) /\ Len(q \o rest) = Len(q) + (Len(r) - k)
  BY <1>6, ConcatType
<1>8. ASSUME NEW i \in 1 .. Len(q) PROVE left[i] = (q \o rest)[i]
  <2>1. i \in 1 .. Len(q) + (Len(r) - k)
    BY <1>2
  <2>2. (q \o rest)[i] = q[i]
    BY <1>6, ConcatLeft
  <2> QED
    BY <1>3, <1>5, <2>1, <2>2
<1>9. ASSUME NEW i \in 1 .. Len(r) - k, NEW j, j = Len(q) + i
      PROVE  left[j] = (q \o rest)[j]
  <2>1. j \in 1 .. Len(q) + (Len(r) - k) /\ i \in 1 .. Len(r) /\ i \in 1 .. Len(rest)
    BY <1>2, <1>6, <1>9
  <2>2. (q \o rest)[j] = rest[i]
    BY <1>6, <1>9, <2>1, ConcatRight
  <2>3. left[j] = r[i]
    BY <1>4, <1>5, <1>9, <2>1
  <2> QED
    BY <1>6, <2>2, <2>3
<1>10. ASSUME NEW i \in 1 .. Len(left) PROVE left[i] = (q \o rest)[i]
  <2>1. \/ i \in 1 .. Len(q)
        \/ i - Len(q) \in 1 .. Len(r) - k /\ i = Len(q) + (i - Len(q))
    BY <1>2, <1>5
  <2> QED
    BY <1>8, <1>9, <2>1
<1>11. left = q \o rest
  BY <1>5, <1>7, <1>10, SeqEqual
<1> QED
  BY <1>11 DEF left, rest, whole

LEMMA FirstConcat ==
  ASSUME NEW S, NEW q \in Seq(S), NEW r \in Seq(S), NEW n, n = Len(q)
  PROVE  First(q \o r, n) = q
<1> DEFINE whole == q \o r
           start == First(whole, n)
<1>1. whole \in Seq(S) /\ Len(whole) = Len(q) + Len(r) /\ Len(q) \in Nat /\ Len(r) \in Nat
  BY ConcatType
<1>2. \A i \in 1 .. Len(q) : whole[i] = q[i]
  BY ConcatLeft
<1> HIDE DEF whole
<1>3. n \in 0 .. Len(whole)
  BY <1>1
<1>4. start \in Seq(S) /\ Len(start) = n /\ \A i \in 1 .. n : start[i] = whole[i]
  BY <1>1, <1>3, FirstFacts
<1> HIDE DEF start
<1>5. start = q
  BY <1>2, <1>4, SeqEqual
<1> QED
  BY <1>5 DEF start, whole

(* What is kept of two sequences that agree so far is the same. *)
LEMMA FirstSame ==
  ASSUME NEW S, NEW q \in Seq(S), NEW r \in Seq(S),
         NEW n \in 0 .. Len(q), n \in 0 .. Len(r), \A i \in 1 .. n : q[i] = r[i]
  PROVE  First(q, n) = First(r, n)
<1>1. /\ First(q, n) \in Seq(S) /\ Len(First(q, n)) = n
      /\ \A i \in 1 .. n : First(q, n)[i] = q[i]
  BY FirstFacts
<1>2. /\ First(r, n) \in Seq(S) /\ Len(First(r, n)) = n
      /\ \A i \in 1 .. n : First(r, n)[i] = r[i]
  BY FirstFacts
<1> QED
  BY <1>1, <1>2, SeqEqual

-----------------------------------------------------------------------------
(* The end of a text                                                       *)

Ends(s, m) == ~config.ignore_eos /\ greedy[s][m] = Eos

LEMMA WholeFacts ==
  ASSUME NEW s \in Rows, greedy \in Greedies
  PROVE  \E w \in 1 .. MaxNewTokens :
           /\ Whole(s) \in Seq(Token) /\ Len(Whole(s)) = w
           /\ \A i \in 1 .. w : Whole(s)[i] = greedy[s][i]
           /\ w = MaxNewTokens \/ Ends(s, w)
           /\ \A m \in 1 .. MaxNewTokens : m = MaxNewTokens \/ Ends(s, m) => w <= m
<1> DEFINE ends == {n \in 1 .. MaxNewTokens : n = MaxNewTokens \/ Ends(s, n)}
           Earliest(n) == \A m \in ends : n <= m
<1>0. MaxNewTokens \in Nat \ {0} /\ D \in Nat \ {0}
  BY DecodingAssumption
<1>1. ends # {} /\ ends \subseteq Nat
  BY <1>0
<1>2. \E n \in ends : Earliest(n)
  <2> HIDE DEF ends
  <2> QED
    BY <1>1, Least
<1>3. PICK w \in ends : Earliest(w) /\ Whole(s) = First(greedy[s], w)
  <2>1. Whole(s) = First(greedy[s], CHOOSE n \in ends : Earliest(n))
    BY DEF Whole, Ends
  <2> HIDE DEF ends, Earliest
  <2> QED
    BY <1>2, <2>1
<1>4. greedy[s] \in Seq(Token) /\ Len(greedy[s]) = MaxNewTokens + D
  BY GreedyType
<1>5. w \in 0 .. Len(greedy[s]) /\ w \in 1 .. MaxNewTokens
  BY <1>0, <1>3, <1>4
<1>6. /\ Whole(s) \in Seq(Token) /\ Len(Whole(s)) = w
      /\ \A i \in 1 .. w : Whole(s)[i] = greedy[s][i]
  BY <1>3, <1>4, <1>5, FirstFacts
<1> QED
  BY <1>3, <1>5, <1>6

-----------------------------------------------------------------------------
(* The inductive invariant                                                 *)

Entry == Token \union {Filler}
SeqRec == [tokens : Seq(Entry), target : Seq(Cell), nc : Nat,
           draft : Seq(Cell), dnc : Nat, next : Nat]
Statuses == {"new", "active", "finished", "completed", "failed"}
Running == {"active", "finished"}

(* The prompt of s and the tokens of its record q. *)
KnownOf(s, q) == Prompt(s) \o q.tokens

(* What the draft will be given in the next round is what it has not seen. *)
DraftInStep(s, q) ==
  IF config.spec
  THEN /\ q.dnc < Len(KnownOf(s, q))
       /\ Holds(Lead(s), q.draft, q.dnc, First(KnownOf(s, q), q.dnc))
       /\ config.offline => q.dnc + q.next = Len(KnownOf(s, q))
  ELSE q.draft = <<>> /\ q.dnc = 0

(* Between two rounds. *)
InStep(s, q) ==
  /\ q.tokens # <<>>
  /\ Holds(Lead(s), q.target, q.nc, Drop(KnownOf(s, q), 1))
  /\ DraftInStep(s, q)

(* In a round, until it is verified. *)
Pending(s, q, at, guess) ==
  /\ q.tokens # <<>>
  /\ Holds(Lead(s), q.draft, q.dnc, KnownOf(s, q) \o Repeat(Filler, D - 1))
  /\ Holds(Lead(s), q.target, q.nc,
           IF at = "target" THEN Drop(KnownOf(s, q), 1) ELSE KnownOf(s, q) \o guess)

LenBound == MaxNewTokens + IF config.offline THEN D ELSE 0
Fits(s, q) ==
  /\ q \in SeqRec /\ Len(q.tokens) <= LenBound
  /\ q.nc <= Len(q.target) /\ q.dnc <= Len(q.draft)
  /\ Len(q.target) <= TargetRoom(s) /\ Len(q.draft) <= DraftRoom(s)

Types ==
  /\ config \in Configs /\ greedy \in Greedies
  /\ seq \in [Seqs -> SeqRec] /\ sent \in [Seqs -> Seq(Entry)]
  /\ status \in [Seqs -> Statuses]

RowsFit == \A s \in Seqs : Fits(s, seq[s])

Fresh ==
  \A s \in Seqs : /\ status[s] = "new" => seq[s] = NoSeq /\ sent[s] = <<>>
                  /\ s \notin Rows => status[s] = "new"

Verified(s) == s \notin step.batch \/ s \in DOMAIN step.result

RowsInStep ==
  \A s \in Seqs : /\ status[s] = "active" => Len(seq[s].tokens) \in Below
                  /\ status[s] \in Running /\ Verified(s) => InStep(s, seq[s])

Stepping ==
  /\ ~config.offline /\ config.spec /\ step.at \in {"target", "verify"}
  /\ Active \subseteq step.batch /\ step.batch \subseteq Rows
  /\ step.guess \in [step.batch -> Guess]
  /\ DOMAIN step.result \subseteq step.batch
  /\ step.result \in [DOMAIN step.result -> Seq(Token)]
  /\ step \in [at : {"target", "verify"}, batch : {step.batch},
               guess : {step.guess}, result : {step.result}]
  /\ step.at = "target" => step.result = [s \in {} |-> <<>>]
  /\ \A s \in DOMAIN step.result : status[s] \in {"active", "completed"}
  /\ \A s \in step.batch \ DOMAIN step.result :
       status[s] = "active" /\ Pending(s, seq[s], step.at, step.guess[s])

StepInv == step = Idle \/ Stepping

Phase(x) == IF x \in Running THEN "running" ELSE x
Lockstep ==
  config.offline => \A s, t \in Rows : /\ Phase(status[s]) = Phase(status[t])
                                       /\ Len(seq[s].tokens) = Len(seq[t].tokens)

IInv == Types /\ RowsFit /\ Fresh /\ RowsInStep /\ StepInv /\ Lockstep

-----------------------------------------------------------------------------
(* Rows                                                                    *)

LEMMA SeqSub ==
  ASSUME NEW S, NEW T, S \subseteq T, NEW q \in Seq(S)
  PROVE  q \in Seq(T)
<1>1. q \in [1 .. Len(q) -> T] /\ Len(q) \in Nat
  BY ElementOfSeq
<1> QED
  BY <1>1, SeqFacts

LEMMA KnownFacts ==
  ASSUME NEW s \in Seqs, NEW q, q.tokens \in Seq(Entry)
  PROVE  /\ KnownOf(s, q) \in Seq(Cell)
         /\ Len(KnownOf(s, q)) = PromptLen[s] + Len(q.tokens)
         /\ KnownOf(s, q) # <<>> /\ q.tokens \in Seq(Cell)
         /\ PromptLen[s] \in Nat \ {0}
<1>1. Prompt(s) \in Seq(Cell) /\ Len(Prompt(s)) = PromptLen[s] /\ PromptLen[s] \in Nat \ {0}
  BY PromptFacts
<1>2. q.tokens \in Seq(Cell)
  <2>1. Entry \subseteq Cell
    BY DEF Entry, Cell
  <2> QED
    BY <2>1, SeqSub
<1>3. /\ KnownOf(s, q) \in Seq(Cell)
      /\ Len(KnownOf(s, q)) = Len(Prompt(s)) + Len(q.tokens)
  BY <1>1, <1>2, ConcatType DEF KnownOf
<1>4. Len(q.tokens) \in Nat
  OBVIOUS
<1>5. KnownOf(s, q) # <<>>
  <2>1. Len(KnownOf(s, q)) > 0
    BY <1>1, <1>3, <1>4
  <2>2. Len(<<>>) = 0
    OBVIOUS
  <2> QED
    BY <2>1, <2>2
<1> QED
  BY <1>1, <1>2, <1>3, <1>5

(* New tokens are new known tokens. *)
LEMMA KnownGrows ==
  ASSUME NEW s \in Seqs, NEW q, q.tokens \in Seq(Entry), NEW x \in Seq(Entry),
         NEW r, r.tokens = q.tokens \o x
  PROVE  /\ KnownOf(s, r) = KnownOf(s, q) \o x
         /\ x \in Seq(Cell)
         /\ r.tokens \in Seq(Entry) /\ Len(r.tokens) = Len(q.tokens) + Len(x)
<1>1. Entry \subseteq Cell
  BY DEF Entry, Cell
<1>2. x \in Seq(Cell) /\ q.tokens \in Seq(Cell) /\ Prompt(s) \in Seq(Cell)
  BY <1>1, SeqSub, KnownFacts, PromptFacts
<1>3. Prompt(s) \o (q.tokens \o x) = (Prompt(s) \o q.tokens) \o x
  <2> DEFINE tokens == q.tokens
             prompt == Prompt(s)
  <2>1. x \in Seq(Cell) /\ tokens \in Seq(Cell) /\ prompt \in Seq(Cell)
    BY <1>2
  <2> HIDE DEF tokens, prompt
  <2>2. prompt \o (tokens \o x) = (prompt \o tokens) \o x
    BY <2>1, Associate, SMTT(30)
  <2> QED
    BY <2>2, Zenon DEF tokens, prompt
<1>4. q.tokens \o x \in Seq(Entry) /\ Len(q.tokens \o x) = Len(q.tokens) + Len(x)
  BY ConcatType
<1> QED
  BY <1>2, <1>3, <1>4 DEF KnownOf

LEMMA DropNew ==
  ASSUME NEW S, NEW q \in Seq(S), NEW x \in Seq(S), Len(x) = 1
  PROVE  Drop(q \o x, 1) = q
<1>1. Len(q \o x) = Len(q) + 1 /\ Len(q) \in Nat
  <2>1. Len(q \o x) = Len(q) + Len(x)
    BY ConcatType
  <2> QED
    BY <2>1
<1>2. Drop(q \o x, 1) = First(q \o x, Len(q \o x) - 1)
  BY DEF Drop
<1>3. Len(q \o x) - 1 = Len(q)
  BY <1>1
<1>4. First(q \o x, Len(q)) = q
  BY FirstConcat
<1> QED
  BY <1>2, <1>3, <1>4

(* A forward whose one new token is not in the cache yet. *)
LEMMA ForwardHolds ==
  ASSUME NEW l \in Nat, NEW cache, NEW n \in Nat, NEW c, Holds(l, cache, n, c),
         NEW q \in Seq(Cell), NEW known, known = c \o q,
         NEW x \in Seq(Cell), Len(x) = 1, NEW k, k = n + Len(q)
  PROVE  Holds(l, cache \o q, k, Drop(known \o x, 1))
<1>1. known \in Seq(Cell) /\ Holds(l, cache \o q, k, known)
  <2>1. c \in Seq(Cell)
    BY DEF Holds
  <2>2. known \in Seq(Cell)
    BY <2>1, ConcatType
  <2>3. Holds(l, cache \o q, k, known)
    BY HoldsAppend
  <2> QED
    BY <2>2, <2>3
<1>2. Drop(known \o x, 1) = known
  BY <1>1, DropNew
<1> QED
  BY <1>1, <1>2

Bound(s) == Lead(s) + PromptLen[s] + MaxNewTokens
Reach == {n \in Nat : n <= MaxNewTokens + IF config.offline /\ config.spec THEN D ELSE 0}

LEMMA RoomFacts ==
  ASSUME NEW s \in Seqs, config \in Configs
  PROVE  /\ TargetRoom(s) \in Nat /\ DraftRoom(s) \in Nat /\ Bound(s) \in Nat
         /\ Bound(s) <= TargetRoom(s)
         /\ config.spec => Bound(s) + D <= TargetRoom(s)
         /\ Bound(s) + 2 * D <= DraftRoom(s)
<1>1. /\ Lead(s) \in Nat /\ PromptLen[s] \in Nat /\ InputLen(s) \in Nat
      /\ Lead(s) + PromptLen[s] <= InputLen(s)
  BY LeadType
<1>2. MaxNewTokens \in Nat /\ D \in Nat
  BY DecodingAssumption
<1>3. DraftRoom(s) \in Nat /\ Bound(s) \in Nat /\ Bound(s) + 2 * D <= DraftRoom(s)
  BY <1>1, <1>2 DEF DraftRoom, Bound
<1>4. /\ TargetRoom(s) \in Nat /\ Bound(s) <= TargetRoom(s)
      /\ config.spec => Bound(s) + D <= TargetRoom(s)
  BY <1>1, <1>2 DEF TargetRoom, Bound
<1> QED
  BY <1>3, <1>4

LEMMA CacheFits ==
  ASSUME NEW l \in Nat, NEW cache, NEW n, NEW c, Holds(l, cache, n, c),
         NEW room \in Nat, l + Len(c) <= room
  PROVE  /\ cache \in Seq(Cell) /\ n \in Nat /\ n <= Len(cache) /\ Len(cache) <= room
         /\ n = Len(c) /\ Len(cache) = l + Len(c)
<1>1. /\ cache \in Seq(Cell) /\ c \in Seq(Cell) /\ n = Len(c) /\ Len(cache) = l + n
  BY DEF Holds
<1>2. Len(c) \in Nat
  BY <1>1
<1> QED
  BY <1>1, <1>2

LEMMA DropIsFirst ==
  ASSUME NEW S, NEW q \in Seq(S), NEW n \in 0 .. Len(q), NEW k, k = Len(q) - n
  PROVE  Drop(q, n) = First(q, k)
<1>1. CASE n > 0
  BY <1>1 DEF Drop
<1>2. CASE ~(n > 0)
  <2>1. k = Len(q)
    BY <1>2
  <2>2. First(q, k) = q
    BY <2>1, SubSeqFull DEF First
  <2> QED
    BY <1>2, <2>2 DEF Drop
<1> QED
  BY <1>1, <1>2

LEMMA KnownDrop ==
  ASSUME NEW s \in Seqs, NEW q, q.tokens \in Seq(Entry)
  PROVE  /\ Drop(KnownOf(s, q), 1) \in Seq(Cell)
         /\ Len(Drop(KnownOf(s, q), 1)) = PromptLen[s] + Len(q.tokens) - 1
<1>1. /\ KnownOf(s, q) \in Seq(Cell) /\ KnownOf(s, q) # <<>>
      /\ Len(KnownOf(s, q)) = PromptLen[s] + Len(q.tokens)
  BY KnownFacts
<1> DEFINE k == KnownOf(s, q)
           p == PromptLen[s]
           n == Len(q.tokens)
<1> HIDE DEF k, p, n
<1>2. k \in Seq(Cell) /\ k # <<>> /\ Len(k) = p + n
  BY <1>1 DEF k, p, n
<1>a. p \in Nat /\ n \in Nat
  BY DecodingAssumption DEF p, n
<1>3. Drop(k, 1) \in Seq(Cell) /\ Len(Drop(k, 1)) = Len(k) - 1
  BY <1>2, SplitLast
<1>4. Drop(k, 1) \in Seq(Cell) /\ Len(Drop(k, 1)) = p + n - 1
  BY <1>a, <1>2, <1>3
<1> QED
  BY <1>4 DEF k, p, n

(* What is in step has room. *)
LEMMA InStepFits ==
  ASSUME NEW s \in Seqs, config \in Configs, NEW q \in SeqRec, InStep(s, q),
         Len(q.tokens) \in Reach
  PROVE  /\ Fits(s, q)
         /\ Len(q.target) = Lead(s) + (PromptLen[s] + Len(q.tokens) - 1)
         /\ config.spec => Len(q.draft) = Lead(s) + q.dnc
<1>1. /\ TargetRoom(s) \in Nat /\ DraftRoom(s) \in Nat /\ Bound(s) \in Nat
      /\ Bound(s) <= TargetRoom(s)
      /\ config.spec => Bound(s) + D <= TargetRoom(s)
      /\ Bound(s) + 2 * D <= DraftRoom(s)
  BY RoomFacts
<1>2. /\ Lead(s) \in Nat /\ PromptLen[s] \in Nat /\ MaxNewTokens \in Nat /\ D \in Nat
  BY LeadType, DecodingAssumption
<1>3. /\ q.tokens \in Seq(Entry) /\ Len(q.tokens) \in Nat
  BY DEF SeqRec
<1>4. /\ Drop(KnownOf(s, q), 1) \in Seq(Cell)
      /\ Len(Drop(KnownOf(s, q), 1)) = PromptLen[s] + Len(q.tokens) - 1
      /\ Len(KnownOf(s, q)) = PromptLen[s] + Len(q.tokens)
      /\ KnownOf(s, q) \in Seq(Cell)
  BY <1>3, KnownDrop, KnownFacts
<1>5. Holds(Lead(s), q.target, q.nc, Drop(KnownOf(s, q), 1)) /\ DraftInStep(s, q)
  BY DEF InStep
<1> DEFINE l == Lead(s)
           p == PromptLen[s]
           n == Len(q.tokens)
           rest == Drop(KnownOf(s, q), 1)
           start == First(KnownOf(s, q), q.dnc)
           target == q.target
           nc == q.nc
           draft == q.draft
           dnc == q.dnc
           troom == TargetRoom(s)
           droom == DraftRoom(s)
<1>6. /\ l \in Nat /\ p \in Nat /\ n \in Nat /\ troom \in Nat /\ droom \in Nat
      /\ Len(rest) = p + n - 1 /\ dnc \in Nat
      /\ Holds(l, target, nc, rest)
      /\ l + p + MaxNewTokens <= troom
      /\ config.spec => l + p + MaxNewTokens + D <= troom
      /\ l + p + MaxNewTokens + 2 * D <= droom
      /\ n <= MaxNewTokens + D
      /\ ~config.spec => n <= MaxNewTokens
  <2>1. /\ n <= MaxNewTokens + D /\ (~config.spec => n <= MaxNewTokens)
    BY <1>2, <1>3 DEF Reach
  <2>2. dnc \in Nat
    BY DEF SeqRec
  <2> QED
    BY <1>1, <1>2, <1>3, <1>4, <1>5, <2>1, <2>2 DEF Bound
<1>7. /\ config.spec => /\ dnc < p + n
                        /\ Holds(l, draft, dnc, start) /\ Len(start) = dnc
      /\ ~config.spec => draft = <<>> /\ dnc = 0
  <2>1. ASSUME config.spec
        PROVE dnc < p + n /\ Holds(l, draft, dnc, start) /\ Len(start) = dnc
    <3>1. dnc < Len(KnownOf(s, q)) /\ dnc \in Nat /\ Holds(l, draft, dnc, start)
      BY <1>5, <2>1 DEF DraftInStep, SeqRec
    <3>2. dnc \in 0 .. Len(KnownOf(s, q))
      BY <1>2, <1>3, <1>4, <3>1
    <3>3. Len(start) = dnc
      BY <1>4, <3>2, FirstFacts
    <3> QED
      BY <1>4, <3>1, <3>3
  <2>2. ASSUME ~config.spec PROVE draft = <<>> /\ dnc = 0
    BY <1>5, <2>2 DEF DraftInStep
  <2> QED
    BY <2>1, <2>2
<1> HIDE DEF l, p, n, rest, start, target, nc, draft, dnc, troom, droom
<1>8. l + Len(rest) <= troom
  BY <1>2, <1>6
<1>9. nc <= Len(target) /\ Len(target) <= troom /\ Len(target) = l + (p + n - 1)
  <2>1. nc <= Len(target) /\ Len(target) <= troom /\ Len(target) = l + Len(rest)
    BY <1>6, <1>8, CacheFits
  <2> QED
    BY <1>6, <2>1
<1>10. /\ dnc <= Len(draft) /\ Len(draft) <= droom
       /\ config.spec => Len(draft) = l + dnc
  <2>1. CASE config.spec
    <3>1. l + Len(start) <= droom
      BY <1>2, <1>6, <1>7, <2>1
    <3> QED
      BY <1>6, <1>7, <2>1, <3>1, CacheFits
  <2>2. CASE ~config.spec
    BY <1>6, <1>7, <2>2
  <2> QED
    BY <2>1, <2>2
<1>11. Len(q.tokens) <= LenBound
  BY <1>2, <1>3 DEF Reach, LenBound
<1> QED
  BY <1>9, <1>10, <1>11 DEF Fits, l, p, n, rest, start, target, nc, draft, dnc, troom, droom

LEMMA DropOneConcat ==
  ASSUME NEW S, NEW q \in Seq(S), NEW r \in Seq(S), NEW n \in Nat, Len(r) = n + 1
  PROVE  Drop(q \o r, 1) = q \o First(r, n)
<1>1. 1 \in 0 .. Len(r) /\ n = Len(r) - 1
  OBVIOUS
<1>2. Drop(q \o r, 1) = q \o Drop(r, 1)
  BY <1>1, DropConcat
<1>3. Drop(r, 1) = First(r, n)
  BY <1>1, DropIsFirst
<1> QED
  BY <1>2, <1>3

LEMMA NonEmptyConcat ==
  ASSUME NEW S, NEW q \in Seq(S), NEW r \in Seq(S), Len(r) > 0
  PROVE  q \o r # <<>>
<1>1. Len(q \o r) = Len(q) + Len(r)
  BY ConcatType
<1>2. Len(q) \in Nat /\ Len(r) \in Nat /\ Len(<<>>) = 0
  OBVIOUS
<1>3. Len(q \o r) > 0
  BY <1>1, <1>2
<1> QED
  BY <1>2, <1>3

LEMMA GuessFacts ==
  ASSUME NEW g \in Guess
  PROVE  /\ g \in Seq(Token) /\ g \in Seq(Entry) /\ g \in Seq(Cell) /\ Len(g) = D
         /\ D \in Nat \ {0}
<1>1. D \in Nat /\ D \in Nat \ {0}
  BY DecodingAssumption
<1>2. g \in Seq(Token) /\ Len(g) = D
  BY <1>1, SeqFacts DEF Guess
<1>3. Token \subseteq Entry /\ Token \subseteq Cell
  BY DEF Entry, Cell
<1> QED
  BY <1>1, <1>2, <1>3, SeqSub

LEMMA FillFacts ==
  /\ Repeat(Filler, D - 1) \in Seq(Cell) /\ Len(Repeat(Filler, D - 1)) = D - 1
  /\ D - 1 \in Nat
<1>1. D - 1 \in Nat /\ Filler \in Cell
  BY DecodingAssumption DEF Cell
<1> QED
  BY <1>1, RepeatFacts

(* One token without speculation. *)
LEMMA StandardRow ==
  ASSUME NEW s \in Seqs, config \in Configs, ~config.spec,
         NEW q \in SeqRec, InStep(s, q), NEW x \in Seq(Entry), Len(x) = 1,
         NEW r, r.tokens = q.tokens \o x, r.nc = q.nc + 1,
         r.target = q.target \o Last_(KnownOf(s, q), 1),
         r.draft = q.draft, r.dnc = q.dnc
  PROVE  InStep(s, r)
<1> DEFINE l == Lead(s)
           k == KnownOf(s, q)
           rest == Drop(k, 1)
           last == Last_(k, 1)
           target == q.target
           nc == q.nc
<1>1. q.tokens \in Seq(Entry) /\ nc \in Nat /\ l \in Nat
  BY LeadType DEF SeqRec
<1>2. KnownOf(s, r) = k \o x /\ x \in Seq(Cell)
  BY <1>1, KnownGrows
<1>3. k \in Seq(Cell) /\ k # <<>>
  BY <1>1, KnownFacts
<1>4. Holds(l, target, nc, rest) /\ DraftInStep(s, q)
  BY DEF InStep
<1> HIDE DEF k
<1>5. rest \o last = k /\ last \in Seq(Cell) /\ Len(last) = 1
  BY <1>3, SplitLast
<1> HIDE DEF l, rest, last, target, nc
<1>6. nc + 1 = nc + Len(last)
  BY <1>5
<1>7. Holds(l, target \o last, nc + 1, Drop(k \o x, 1))
  BY <1>1, <1>2, <1>4, <1>5, <1>6, ForwardHolds
<1>8. r.target = target \o last /\ r.nc = nc + 1
  BY DEF target, last, nc, k
<1>9. Holds(Lead(s), r.target, r.nc, Drop(KnownOf(s, r), 1))
  BY <1>2, <1>7, <1>8 DEF l
<1>10. DraftInStep(s, r)
  BY <1>4 DEF DraftInStep
<1>11. r.tokens # <<>>
  <2>1. Len(x) > 0
    OBVIOUS
  <2>2. q.tokens \o x # <<>>
    BY <1>1, <2>1, NonEmptyConcat
  <2> QED
    BY <2>2
<1> QED
  BY <1>9, <1>10, <1>11 DEF InStep

(* What verify leaves in the caches: the text so far and the accepted      *)
(* guesses in the target's, the text so far in the draft's.                *)
LEMMA RoundTrims ==
  ASSUME NEW l \in Nat, NEW k \in Seq(Cell), NEW g \in Guess, NEW n \in Accepts,
         NEW t, NEW nc \in Nat, Holds(l, t, nc, k \o g),
         NEW d, NEW dnc \in Nat, Holds(l, d, dnc, k \o Repeat(Filler, D - 1))
  PROVE  /\ Holds(l, Drop(t, D - n), nc - (D - n), k \o First(g, n))
         /\ Holds(l, Drop(d, D - 1), dnc - (D - 1), k)
         /\ nc = Len(k) + D /\ dnc = Len(k) + (D - 1)
<1> DEFINE fill == Repeat(Filler, D - 1)
           m == D - n
           e == D - 1
<1>1. /\ g \in Seq(Cell) /\ Len(g) = D /\ D \in Nat /\ n \in Nat /\ n <= D
      /\ fill \in Seq(Cell) /\ Len(fill) = e /\ e \in Nat /\ D \in Nat \ {0}
      /\ m \in 0 .. Len(g) /\ n = Len(g) - m /\ Len(k) \in Nat
  BY GuessFacts, FillFacts DEF Accepts
<1>2. Holds(l, d, dnc, k \o fill)
  OBVIOUS
<1> HIDE DEF fill, m, e
<1>3. Len(k \o g) = Len(k) + Len(g) /\ Len(k \o fill) = Len(k) + Len(fill)
  BY <1>1, ConcatType
<1>4. nc = Len(k \o g) /\ dnc = Len(k \o fill)
  BY <1>2 DEF Holds
<1>5. nc = Len(k) + D /\ dnc = Len(k) + e
  BY <1>1, <1>3, <1>4
<1>6. m \in 0 .. nc /\ e \in 0 .. dnc /\ e \in 0 .. Len(fill)
  BY <1>1, <1>5
<1>7. Holds(l, Drop(t, m), nc - m, Drop(k \o g, m))
  BY <1>6, HoldsDrop
<1>8. Drop(k \o g, m) = k \o First(g, n)
  <2>1. Drop(k \o g, m) = k \o Drop(g, m)
    BY <1>1, DropConcat, SMTT(30)
  <2>2. Drop(g, m) = First(g, n)
    BY <1>1, DropIsFirst
  <2> QED
    BY <2>1, <2>2
<1>9. Holds(l, Drop(d, e), dnc - e, Drop(k \o fill, e))
  BY <1>2, <1>6, HoldsDrop
<1>10. Drop(k \o fill, e) = k
  <2>1. k \o fill \in Seq(Cell) /\ e \in 0 .. Len(k \o fill)
        /\ Len(k) = Len(k \o fill) - e
    BY <1>1, <1>3, ConcatType
  <2>2. Drop(k \o fill, e) = First(k \o fill, Len(k))
    BY <2>1, DropIsFirst
  <2> QED
    BY <1>1, <2>2, FirstConcat
<1> QED
  BY <1>5, <1>7, <1>8, <1>9, <1>10 DEF m, e

(* What the Generator gives the draft next: the tokens accepted last. *)
NextIs(r, x) == config.offline => r.next = Len(x)

(* A verified row, nothing cut off: in step again. *)
LEMMA RoundRow ==
  ASSUME NEW s \in Seqs, config \in Configs, config.spec,
         NEW q, q.tokens \in Seq(Entry),
         NEW g \in Guess, NEW n \in Accepts,
         NEW x \in Seq(Token), Len(x) = n + 1, \A i \in 1 .. n : g[i] = x[i],
         NEW r, r.tokens = q.tokens \o x,
         Holds(Lead(s), r.target, r.nc, KnownOf(s, q) \o First(g, n)),
         Holds(Lead(s), r.draft, r.dnc, KnownOf(s, q)),
         NextIs(r, x)
  PROVE  InStep(s, r)
<1> DEFINE k == KnownOf(s, q)
<1>1. x \in Seq(Entry)
  <2>1. Token \subseteq Entry
    BY DEF Entry
  <2> QED
    BY <2>1, SeqSub
<1>2. KnownOf(s, r) = k \o x /\ x \in Seq(Cell)
  BY <1>1, KnownGrows
<1>3. k \in Seq(Cell)
  BY KnownFacts
<1>b. Holds(Lead(s), r.draft, r.dnc, k)
  OBVIOUS
<1> DEFINE known == k \o x
<1>c. Holds(Lead(s), r.target, r.nc, k \o First(g, n))
  OBVIOUS
<1> HIDE DEF k
<1>4. /\ n \in Nat /\ g \in Seq(Cell) /\ n \in 0 .. Len(g) /\ n \in 0 .. Len(x)
      /\ n = Len(x) - 1 /\ 1 \in 0 .. Len(x) /\ Len(k) \in Nat
  BY <1>3, GuessFacts DEF Accepts
<1>5. Drop(k \o x, 1) = k \o First(g, n)
  <2>1. Drop(k \o x, 1) = k \o First(x, n)
    BY <1>2, <1>3, <1>4, DropOneConcat
  <2>3. First(g, n) = First(x, n)
    BY <1>2, <1>4, FirstSame
  <2> QED
    BY <2>1, <2>3
<1>6. r.dnc = Len(k)
  BY <1>b DEF Holds
<1>7. Len(known) = Len(k) + Len(x)
  BY <1>2, <1>3, ConcatType
<1>8. First(known, Len(k)) = k
  BY <1>2, <1>3, FirstConcat
<1>d. KnownOf(s, r) = known
  BY <1>2
<1> HIDE DEF known
<1>9. /\ r.dnc < Len(KnownOf(s, r))
      /\ config.offline => r.dnc + r.next = Len(KnownOf(s, r))
  <2>1. Len(k) < Len(known)
    BY <1>4, <1>7
  <2> QED
    BY <2>1, <1>6, <1>7, <1>d DEF NextIs
<1>10. First(KnownOf(s, r), r.dnc) = k
  BY <1>6, <1>8, <1>d
<1>11. DraftInStep(s, r)
  BY <1>b, <1>9, <1>10 DEF DraftInStep
<1>12. r.tokens # <<>>
  <2>1. Len(x) > 0
    BY <1>4
  <2>2. q.tokens \o x # <<>>
    BY <1>1, <2>1, NonEmptyConcat
  <2> QED
    BY <2>2
<1> QED
  BY <1>2, <1>5, <1>11, <1>12, <1>c DEF InStep

LEMMA RoundRoom ==
  ASSUME NEW l \in Nat, NEW p \in Nat, NEW m \in Nat, NEW d \in Nat,
         NEW k \in Nat, NEW c \in Nat, NEW room \in Nat,
         k < p + m, c <= d, l + p + m + d <= room
  PROVE  l + (k + c) <= room
  OBVIOUS

(* A row of a round has room, whatever is cut off of it. *)
LEMMA RoundFits ==
  ASSUME NEW s \in Seqs, config \in Configs, config.spec,
         NEW k \in Seq(Cell), Len(k) \in Nat, Len(k) < PromptLen[s] + MaxNewTokens,
         NEW c \in Seq(Cell), Len(c) <= D, NEW e \in Seq(Cell), Len(e) <= D,
         NEW r \in SeqRec, Len(r.tokens) <= LenBound,
         Holds(Lead(s), r.target, r.nc, k \o c),
         Holds(Lead(s), r.draft, r.dnc, k \o e)
  PROVE  Fits(s, r)
<1> DEFINE l == Lead(s)
           p == PromptLen[s]
           troom == TargetRoom(s)
           droom == DraftRoom(s)
           kc == k \o c
           ke == k \o e
           target == r.target
           nc == r.nc
           draft == r.draft
           dnc == r.dnc
<1>1. /\ troom \in Nat /\ droom \in Nat
      /\ l + p + MaxNewTokens + D <= troom
      /\ l + p + MaxNewTokens + 2 * D <= droom
  BY RoomFacts DEF Bound
<1>2. l \in Nat /\ p \in Nat /\ MaxNewTokens \in Nat /\ D \in Nat
  BY LeadType, DecodingAssumption
<1>3. Len(kc) = Len(k) + Len(c) /\ Len(ke) = Len(k) + Len(e)
  BY ConcatType
<1>4. /\ Holds(l, target, nc, kc) /\ Holds(l, draft, dnc, ke)
      /\ Len(k) < p + MaxNewTokens
  OBVIOUS
<1> HIDE DEF l, p, troom, droom, kc, ke, target, nc, draft, dnc
<1>5. l + Len(kc) <= troom /\ l + Len(ke) <= droom
  <2>1. Len(c) \in Nat /\ Len(e) \in Nat /\ Len(k) \in Nat /\ Len(c) <= D /\ Len(e) <= D
    OBVIOUS
  <2>2. l + p + MaxNewTokens + D <= droom
    BY <1>1, <1>2
  <2>3. l + (Len(k) + Len(c)) <= troom
    BY <1>1, <1>2, <1>4, <2>1, RoundRoom
  <2>4. l + (Len(k) + Len(e)) <= droom
    BY <1>1, <1>2, <1>4, <2>1, <2>2, RoundRoom
  <2> QED
    BY <1>3, <2>3, <2>4
<1>6. nc <= Len(target) /\ Len(target) <= troom
  BY <1>1, <1>2, <1>4, <1>5, CacheFits
<1>7. dnc <= Len(draft) /\ Len(draft) <= droom
  BY <1>1, <1>2, <1>4, <1>5, CacheFits
<1> QED
  BY <1>6, <1>7 DEF Fits, target, nc, draft, dnc, troom, droom

-----------------------------------------------------------------------------
(* The steps of the engine                                                 *)

LEMMA SameConfig ==
  ASSUME config' = config, NEW s, NEW q
  PROVE  /\ InStep(s, q)' <=> InStep(s, q)
         /\ Fits(s, q)' <=> Fits(s, q)
         /\ Lead(s)' = Lead(s) /\ InputLen(s)' = InputLen(s)
<1>1. Lead(s)' = Lead(s) /\ InputLen(s)' = InputLen(s) /\ LenBound' = LenBound
  BY DEF Lead, InputLen, LenBound
<1>2. TargetRoom(s)' = TargetRoom(s) /\ DraftRoom(s)' = DraftRoom(s)
  BY <1>1 DEF TargetRoom, DraftRoom
<1>3. DraftInStep(s, q)' <=> DraftInStep(s, q)
  BY <1>1 DEF DraftInStep
<1> QED
  BY <1>1, <1>2, <1>3 DEF InStep, Fits

LEMMA ConfigFacts ==
  ASSUME config \in Configs
  PROVE  /\ Rows \subseteq Seqs /\ config.spec \in BOOLEAN /\ config.offline \in BOOLEAN
         /\ config.paged \in BOOLEAN /\ config.ignore_eos \in BOOLEAN /\ config.min \in Nat
         /\ config.offline /\ config.spec => \E s \in Seqs : Rows = {s}
  BY ConfigAssumption DEF Rows

LEMMA NoSeqFacts ==
  ASSUME NEW s \in Seqs, config \in Configs
  PROVE  NoSeq \in SeqRec /\ Fits(s, NoSeq)
<1>1. NoSeq \in SeqRec
  BY DEF NoSeq, SeqRec
<1>2. TargetRoom(s) \in Nat /\ DraftRoom(s) \in Nat /\ LenBound \in Nat
  BY RoomFacts, DecodingAssumption, ConfigFacts DEF LenBound
<1>3. /\ NoSeq.tokens = <<>> /\ NoSeq.target = <<>> /\ NoSeq.draft = <<>>
      /\ NoSeq.nc = 0 /\ NoSeq.dnc = 0 /\ Len(<<>>) = 0
  BY DEF NoSeq
<1> QED
  BY <1>1, <1>2, <1>3 DEF Fits

LEMMA InitInv == Init => IInv
<1> SUFFICES ASSUME Init PROVE IInv
  OBVIOUS
<1>1. config \in Configs /\ greedy \in Greedies
  BY DEF Init, Greedies
<1>2. /\ \A s \in Seqs : seq[s] = NoSeq /\ sent[s] = <<>> /\ status[s] = "new"
      /\ seq \in [Seqs -> {NoSeq}] /\ sent \in [Seqs -> {<<>>}] /\ status \in [Seqs -> {"new"}]
      /\ step = Idle
  BY DEF Init
<1>3. Types
  <2>1. \A s \in Seqs : NoSeq \in SeqRec
    BY <1>1, NoSeqFacts
  <2>2. seq \in [Seqs -> SeqRec]
    BY <1>2, <2>1
  <2>3. <<>> \in Seq(Entry) /\ "new" \in Statuses
    BY DEF Statuses
  <2>4. sent \in [Seqs -> Seq(Entry)] /\ status \in [Seqs -> Statuses]
    BY <1>2, <2>3
  <2> QED
    BY <1>1, <2>2, <2>4 DEF Types
<1>4. RowsFit
  BY <1>1, <1>2, NoSeqFacts DEF RowsFit
<1>5. Fresh /\ RowsInStep /\ StepInv
  BY <1>2 DEF Fresh, RowsInStep, StepInv, Running
<1>6. Lockstep
  BY <1>1, <1>2, ConfigFacts DEF Lockstep
<1> QED
  BY <1>3, <1>4, <1>5, <1>6 DEF IInv

(* A row after its prefill. *)
LEMMA PrefillRow ==
  ASSUME NEW s \in Seqs, config \in Configs, ~config.offline,
         NEW out \in Seq(Token), Len(out) = 1,
         NEW r \in SeqRec, r.tokens = out, r.target = Prompt(s), r.nc = PromptLen[s],
         r.draft = IF config.spec THEN Prompt(s) ELSE <<>>,
         r.dnc = IF config.spec THEN PromptLen[s] ELSE 0
  PROVE  InStep(s, r)
<1> DEFINE p == Prompt(s)
           n == PromptLen[s]
<1>1. p \in Seq(Cell) /\ Len(p) = n /\ n \in Nat /\ n > 0
  BY PromptFacts
<1>2. out \in Seq(Cell)
  <2>1. Token \subseteq Cell
    BY DEF Cell
  <2> QED
    BY <2>1, SeqSub
<1>3. Lead(s) = 0
  BY <1>1 DEF Lead, InputLen
<1>4. KnownOf(s, r) = p \o out
  BY DEF KnownOf
<1>a. /\ r.target = p /\ r.nc = n
      /\ r.draft = IF config.spec THEN p ELSE <<>>
      /\ r.dnc = IF config.spec THEN n ELSE 0
  OBVIOUS
<1> HIDE DEF p, n
<1>5. Holds(0, p, n, p)
  BY <1>1 DEF Holds
<1>6. Drop(p \o out, 1) = p
  BY <1>1, <1>2, DropNew
<1>7. Len(p \o out) = n + 1
  <2>1. Len(p \o out) = Len(p) + Len(out)
    BY <1>1, <1>2, ConcatType
  <2> QED
    BY <1>1, <2>1
<1>8. First(p \o out, n) = p
  BY <1>1, <1>2, FirstConcat
<1>9. DraftInStep(s, r)
  <2>1. CASE config.spec
    <3>1. r.draft = p /\ r.dnc = n /\ n < n + 1
      BY <1>1, <1>a, <2>1
    <3> QED
      BY <1>3, <1>4, <1>5, <1>7, <1>8, <2>1, <3>1 DEF DraftInStep
  <2>2. CASE ~config.spec
    BY <1>a, <2>2 DEF DraftInStep
  <2> QED
    BY <2>1, <2>2
<1>10. r.tokens # <<>>
  <2>1. Len(out) # Len(<<>>)
    OBVIOUS
  <2> QED
    BY <2>1
<1> QED
  BY <1>3, <1>4, <1>5, <1>6, <1>9, <1>10, <1>a DEF InStep

LEMMA LenType ==
  /\ MaxNewTokens \in Nat /\ D \in Nat /\ MaxNewTokens > 0 /\ D > 0
  /\ \A n \in Nat : n <= MaxNewTokens => n \in Reach
  /\ \A n \in Nat : ~(n >= MaxNewTokens) => n \in Below
  /\ \A n \in Below : n \in Nat /\ n < MaxNewTokens /\ n + 1 \in Reach
<1>1. MaxNewTokens \in Nat /\ D \in Nat /\ MaxNewTokens > 0 /\ D > 0
  BY DecodingAssumption
<1>2. \A n \in Nat : n <= MaxNewTokens => n \in Reach
  BY <1>1 DEF Reach
<1>3. \A n \in Nat : ~(n >= MaxNewTokens) => n \in Below
  BY <1>1 DEF Below
<1>4. ASSUME NEW n \in Below PROVE n \in Nat /\ n < MaxNewTokens /\ n + 1 \in Nat /\ n + 1 <= MaxNewTokens
  BY <1>1 DEF Below
<1> QED
  BY <1>1, <1>2, <1>3, <1>4

LEMMA PrefillInv ==
  ASSUME IInv, NEW s \in Seqs, Prefill(s)
  PROVE  IInv'
<1>1. /\ config \in Configs /\ ~config.offline /\ s \in Rows /\ step = Idle
      /\ config' = config /\ greedy' = greedy /\ step' = step
  BY DEF Prefill, IInv, Types
<1>2. PICK out \in Sampled(s, <<>>, 0, Prompt(s), 1) :
        /\ seq' = [seq EXCEPT ![s] =
             [tokens |-> out, target |-> Prompt(s), nc |-> PromptLen[s],
              draft |-> IF config.spec THEN Prompt(s) ELSE <<>>,
              dnc |-> IF config.spec THEN PromptLen[s] ELSE 0, next |-> 0]]
        /\ sent' = [sent EXCEPT ![s] = out]
        /\ status' = [status EXCEPT ![s] =
                        IF StopNow(out, 1) THEN "completed" ELSE "active"]
  BY DEF Prefill
<1>3. out \in Seq(Token) /\ out \in Seq(Entry) /\ Len(out) = 1
  <2>1. out \in [1 .. 1 -> Token]
    BY SampledType
  <2>2. Token \subseteq Entry /\ 1 \in Nat
    BY DEF Entry
  <2>3. out \in Seq(Token) /\ Len(out) = 1
    BY <2>1, <2>2, SeqFacts
  <2> QED
    BY <2>2, <2>3, SeqSub
<1> DEFINE r == [tokens |-> out, target |-> Prompt(s), nc |-> PromptLen[s],
                 draft |-> IF config.spec THEN Prompt(s) ELSE <<>>,
                 dnc |-> IF config.spec THEN PromptLen[s] ELSE 0, next |-> 0]
<1>4. /\ r \in SeqRec /\ r.tokens = out /\ r.target = Prompt(s) /\ r.nc = PromptLen[s]
      /\ r.draft = (IF config.spec THEN Prompt(s) ELSE <<>>)
      /\ r.dnc = (IF config.spec THEN PromptLen[s] ELSE 0)
  <2>1. Prompt(s) \in Seq(Cell) /\ PromptLen[s] \in Nat
    BY PromptFacts
  <2>2. config.spec \in BOOLEAN
    BY <1>1, ConfigFacts
  <2> QED
    BY <1>3, <2>1, <2>2 DEF SeqRec
<1>5. seq' = [seq EXCEPT ![s] = r]
  BY <1>2
<1> HIDE DEF r
<1>6. InStep(s, r)
  BY <1>1, <1>3, <1>4, PrefillRow
<1>7. Fits(s, r)
  <2>1. 1 \in Nat /\ 1 <= MaxNewTokens
    BY LenType
  <2>2. 1 \in Reach
    BY <2>1, LenType
  <2>3. Len(r.tokens) \in Reach
    BY <1>3, <1>4, <2>2
  <2> QED
    BY <1>1, <1>4, <1>6, <2>3, InStepFits
<1>8. /\ seq \in [Seqs -> SeqRec] /\ sent \in [Seqs -> Seq(Entry)]
      /\ status \in [Seqs -> Statuses] /\ greedy \in Greedies
  BY DEF IInv, Types
<1>9. Types'
  <2>1. Greedies' = Greedies
    BY <1>1 DEF Greedies, Rows
  <2> QED
    BY <1>1, <1>2, <1>3, <1>4, <1>5, <1>8, <2>1 DEF Types, Statuses
<1>10. RowsFit'
  <2>1. RowsFit
    BY DEF IInv
  <2> QED
    BY <1>1, <1>5, <1>7, <1>8, <2>1, SameConfig DEF RowsFit
<1>11. Fresh'
  <2>1. Fresh
    BY DEF IInv
  <2> QED
    BY <1>1, <1>2, <1>5, <1>8, <2>1 DEF Fresh, Rows
<1>12. RowsInStep'
  <2>1. RowsInStep
    BY DEF IInv
  <2>2. SUFFICES ASSUME NEW t \in Seqs
                 PROVE  /\ status'[t] = "active" => Len(seq'[t].tokens) \in Below
                        /\ status'[t] \in Running /\ Verified(t)' => InStep(t, seq[t])'
    BY DEF RowsInStep
  <2>3. CASE t = s
    <3>1. seq'[t] = r
      BY <1>5, <1>8, <2>3
    <3>2. InStep(t, seq[t])'
      BY <1>1, <1>6, <2>3, <3>1, SameConfig
    <3>3. ASSUME status'[t] = "active" PROVE Len(seq'[t].tokens) \in Below
      <4>1. ~StopNow(out, 1)
        BY <1>2, <1>8, <2>3, <3>3
      <4>2. ~(Len(out) >= MaxNewTokens)
        BY <4>1 DEF StopNow, StopIfMaxLen
      <4> QED
        BY <1>3, <1>4, <3>1, <4>2, LenType
    <3> QED
      BY <3>2, <3>3
  <2>4. CASE t # s
    <3>1. seq'[t] = seq[t] /\ status'[t] = status[t] /\ (Verified(t)' <=> Verified(t))
      BY <1>1, <1>2, <1>5, <1>8, <2>4 DEF Verified
    <3> QED
      BY <1>1, <2>1, <3>1, SameConfig DEF RowsInStep
  <2> QED
    BY <2>3, <2>4
<1>13. StepInv' /\ Lockstep'
  BY <1>1 DEF StepInv, Lockstep, Idle
<1> QED
  BY <1>9, <1>10, <1>11, <1>12, <1>13 DEF IInv

LEMMA PrefillFailsInv ==
  ASSUME IInv, NEW s \in Seqs, PrefillFails(s)
  PROVE  IInv'
<1>1. /\ config \in Configs /\ ~config.offline /\ s \in Rows /\ step = Idle
      /\ config' = config /\ greedy' = greedy /\ step' = step /\ seq' = seq /\ sent' = sent
      /\ status' = [status EXCEPT ![s] = "failed"]
  BY DEF PrefillFails, IInv, Types
<1>2. /\ seq \in [Seqs -> SeqRec] /\ sent \in [Seqs -> Seq(Entry)]
      /\ status \in [Seqs -> Statuses] /\ greedy \in Greedies
  BY DEF IInv, Types
<1>3. RowsFit /\ Fresh /\ RowsInStep
  BY DEF IInv
<1>4. Types'
  <2>1. Greedies' = Greedies
    BY <1>1 DEF Greedies, Rows
  <2> QED
    BY <1>1, <1>2, <2>1 DEF Types, Statuses
<1>5. RowsFit'
  BY <1>1, <1>3, SameConfig DEF RowsFit
<1>6. Fresh'
  BY <1>1, <1>2, <1>3 DEF Fresh, Rows
<1>7. RowsInStep'
  BY <1>1, <1>2, <1>3, SameConfig DEF RowsInStep, Verified, Running
<1>8. StepInv' /\ Lockstep'
  BY <1>1 DEF StepInv, Lockstep, Idle
<1> QED
  BY <1>4, <1>5, <1>6, <1>7, <1>8 DEF IInv

LEMMA DecodeFailsInv ==
  ASSUME IInv, DecodeFails
  PROVE  IInv'
<1> DEFINE batch == IF config.spec THEN step.batch ELSE Active
<1>1. /\ config \in Configs /\ ~config.offline /\ step' = Idle
      /\ config' = config /\ greedy' = greedy /\ seq' = seq /\ sent' = sent
      /\ status' = [s \in Seqs |-> IF s \in batch THEN "failed" ELSE status[s]]
  BY DEF DecodeFails, IInv, Types
<1>2. /\ seq \in [Seqs -> SeqRec] /\ sent \in [Seqs -> Seq(Entry)]
      /\ status \in [Seqs -> Statuses] /\ greedy \in Greedies
  BY DEF IInv, Types
<1>3. RowsFit /\ Fresh /\ RowsInStep /\ StepInv
  BY DEF IInv
<1>a. \A t \in batch : t \in Rows
  <2>1. step = Idle => step.batch = {}
    BY DEF Idle
  <2> QED
    BY <1>3, <2>1 DEF StepInv, Stepping, Active
<1>b. \A t \in Seqs : t \notin batch /\ status[t] \in Running => Verified(t)
  <2>1. CASE step = Idle
    BY <2>1 DEF Idle, Verified
  <2>2. CASE Stepping
    BY <2>2 DEF Stepping, Verified
  <2> QED
    BY <1>3, <2>1, <2>2 DEF StepInv
<1> HIDE DEF batch
<1>4. Types'
  <2>1. Greedies' = Greedies
    BY <1>1 DEF Greedies, Rows
  <2> QED
    BY <1>1, <1>2, <2>1 DEF Types, Statuses
<1>5. RowsFit'
  BY <1>1, <1>3, SameConfig DEF RowsFit
<1>6. Fresh'
  BY <1>1, <1>2, <1>3, <1>a DEF Fresh, Rows
<1>7. RowsInStep'
  <2>1. \A t \in Seqs : status'[t] = (IF t \in batch THEN "failed" ELSE status[t])
    BY <1>1
  <2> QED
    BY <1>1, <1>3, <1>b, <2>1, SameConfig DEF RowsInStep, Running
<1>8. StepInv' /\ Lockstep'
  BY <1>1 DEF StepInv, Lockstep, Idle
<1> QED
  BY <1>4, <1>5, <1>6, <1>7, <1>8 DEF IInv

LEMMA StepAnsweredInv ==
  ASSUME IInv, StepAnswered
  PROVE  IInv'
<1>1. /\ config \in Configs /\ step' = Idle /\ step.at = "verify"
      /\ DOMAIN step.result = step.batch
      /\ config' = config /\ greedy' = greedy /\ seq' = seq /\ status' = status
      /\ sent' = [s \in Seqs |-> IF s \in step.batch THEN sent[s] \o step.result[s]
                                                     ELSE sent[s]]
  BY DEF StepAnswered, IInv, Types
<1>2. /\ seq \in [Seqs -> SeqRec] /\ sent \in [Seqs -> Seq(Entry)]
      /\ status \in [Seqs -> Statuses] /\ greedy \in Greedies
  BY DEF IInv, Types
<1>3. RowsFit /\ Fresh /\ RowsInStep /\ StepInv
  BY DEF IInv
<1>4. Stepping
  BY <1>1, <1>3 DEF StepInv, Idle
<1>5. \A s \in step.batch : step.result[s] \in Seq(Token) /\ status[s] \in {"active", "completed"}
  BY <1>1, <1>4 DEF Stepping
<1>6. Types'
  <2>1. Greedies' = Greedies
    BY <1>1 DEF Greedies, Rows
  <2>2. ASSUME NEW s \in Seqs PROVE sent'[s] \in Seq(Entry)
    <3>1. CASE s \in step.batch
      <4>1. Token \subseteq Entry
        BY DEF Entry
      <4>2. step.result[s] \in Seq(Entry)
        BY <1>5, <3>1, <4>1, SeqSub
      <4>3. sent[s] \in Seq(Entry)
        BY <1>2
      <4>4. sent[s] \o step.result[s] \in Seq(Entry)
        BY <4>2, <4>3, ConcatType
      <4> QED
        BY <1>1, <3>1, <4>4
    <3>2. CASE s \notin step.batch
      BY <1>1, <1>2, <3>2
    <3> QED
      BY <3>1, <3>2
  <2>3. sent' \in [Seqs -> Seq(Entry)]
    BY <1>1, <2>2
  <2> QED
    BY <1>1, <1>2, <2>1, <2>3 DEF Types
<1>7. RowsFit'
  BY <1>1, <1>3, SameConfig DEF RowsFit
<1>8. Fresh'
  <2>1. ASSUME NEW s \in Seqs, status[s] = "new" PROVE sent'[s] = sent[s]
    BY <1>1, <1>5, <2>1
  <2> QED
    BY <1>1, <1>3, <2>1 DEF Fresh, Rows
<1>9. RowsInStep'
  <2>1. \A s \in Seqs : Verified(s)
    BY <1>1 DEF Verified
  <2> QED
    BY <1>1, <1>3, <2>1, SameConfig DEF RowsInStep
<1>10. StepInv' /\ Lockstep'
  BY <1>1, <1>4 DEF StepInv, Lockstep, Stepping
<1> QED
  BY <1>6, <1>7, <1>8, <1>9, <1>10 DEF IInv

LEMMA StandardDecodeInv ==
  ASSUME IInv, StandardDecode
  PROVE  IInv'
<1>1. /\ config \in Configs /\ ~config.offline /\ ~config.spec /\ step = Idle
      /\ config' = config /\ greedy' = greedy /\ step' = step
  BY DEF StandardDecode, IInv, Types
<1>2. PICK out \in [Active -> [1 .. 1 -> Token]] :
        /\ seq' = [s \in Seqs |-> IF s \in Active
             THEN [seq[s] EXCEPT !.tokens = [t \in Active |-> seq[t].tokens \o out[t]][s],
                                 !.nc = @ + 1, !.target = @ \o Last_(Known(s), 1)]
             ELSE seq[s]]
        /\ sent' = [s \in Seqs |-> IF s \in Active
             THEN [t \in Active |-> seq[t].tokens \o out[t]][s] ELSE sent[s]]
        /\ status' = [s \in Seqs |->
             IF s \in Active /\ StopNow([t \in Active |-> seq[t].tokens \o out[t]][s], 1)
             THEN "completed" ELSE status[s]]
  BY DEF StandardDecode
<1>3. /\ seq \in [Seqs -> SeqRec] /\ sent \in [Seqs -> Seq(Entry)]
      /\ status \in [Seqs -> Statuses] /\ greedy \in Greedies
  BY DEF IInv, Types
<1>4. RowsFit /\ Fresh /\ RowsInStep
  BY DEF IInv
<1>5. ASSUME NEW s \in Seqs, s \in Active
      PROVE  /\ seq'[s] \in SeqRec /\ InStep(s, seq'[s]) /\ Fits(s, seq'[s])
             /\ sent'[s] \in Seq(Entry)
             /\ status'[s] \in {"completed", "active"}
             /\ status'[s] = "active" => Len(seq'[s].tokens) \in Below
  <2> DEFINE x == out[s]
             q == seq[s]
             new == q.tokens \o x
             r == [q EXCEPT !.tokens = new, !.nc = @ + 1, !.target = @ \o Last_(Known(s), 1)]
  <2>1. x \in Seq(Token) /\ x \in Seq(Entry) /\ Len(x) = 1
    <3>1. x \in [1 .. 1 -> Token] /\ 1 \in Nat
      BY <1>5
    <3>2. Token \subseteq Entry
      BY DEF Entry
    <3>3. x \in Seq(Token) /\ Len(x) = 1
      BY <3>1, SeqFacts
    <3> QED
      BY <3>2, <3>3, SeqSub
  <2>2. q \in SeqRec /\ q.tokens \in Seq(Entry) /\ q.target \in Seq(Cell) /\ q.nc \in Nat
    BY <1>3 DEF SeqRec
  <2>3. status[s] = "active" /\ Verified(s) /\ InStep(s, q) /\ Len(q.tokens) \in Below
    BY <1>1, <1>4, <1>5 DEF Active, RowsInStep, Running, Verified, Idle
  <2>4. KnownOf(s, q) = Known(s) /\ KnownOf(s, q) \in Seq(Cell) /\ KnownOf(s, q) # <<>>
    BY <2>2, KnownFacts DEF KnownOf, Known
  <2>5. Last_(Known(s), 1) \in Seq(Cell)
    BY <2>4, SplitLast
  <2>6. new \in Seq(Entry) /\ Len(new) = Len(q.tokens) + 1
    <3>1. new \in Seq(Entry) /\ Len(new) = Len(q.tokens) + Len(x)
      BY <2>1, <2>2, ConcatType
    <3> QED
      BY <2>1, <3>1
  <2>7. q.target \o Last_(Known(s), 1) \in Seq(Cell) /\ q.nc + 1 \in Nat
    BY <2>2, <2>5, ConcatType
  <2>8. /\ seq'[s] = r
        /\ sent'[s] = new
        /\ status'[s] = IF StopNow(new, 1) THEN "completed" ELSE "active"
    <3>1. [t \in Active |-> seq[t].tokens \o out[t]][s] = new
      BY <1>5
    <3> HIDE DEF new
    <3> QED
      BY <1>2, <1>5, <2>3, <3>1
  <2> HIDE DEF x, q, new
  <2>9. /\ r \in SeqRec /\ r.tokens = new /\ r.nc = q.nc + 1
        /\ r.target = q.target \o Last_(KnownOf(s, q), 1)
        /\ r.draft = q.draft /\ r.dnc = q.dnc
    BY <2>2, <2>4, <2>6, <2>7 DEF SeqRec
  <2> HIDE DEF r
  <2>10. r.tokens = q.tokens \o x
    BY <2>9 DEF new
  <2>11. InStep(s, r)
    BY <1>1, <2>1, <2>2, <2>3, <2>9, <2>10, StandardRow
  <2>12. Len(r.tokens) \in Reach
    BY <2>3, <2>6, <2>9, LenType
  <2>13. Fits(s, r)
    BY <1>1, <2>9, <2>11, <2>12, InStepFits
  <2>14. ASSUME status'[s] = "active" PROVE Len(r.tokens) \in Below
    <3>1. ~StopNow(new, 1)
      BY <2>8, <2>14
    <3>2. ~(Len(new) >= MaxNewTokens) /\ Len(new) \in Nat
      BY <2>6, <3>1 DEF StopNow, StopIfMaxLen
    <3> QED
      BY <2>9, <3>2, LenType
  <2> QED
    BY <2>6, <2>8, <2>9, <2>11, <2>13, <2>14
<1>6. ASSUME NEW s \in Seqs, s \notin Active
      PROVE seq'[s] = seq[s] /\ sent'[s] = sent[s] /\ status'[s] = status[s]
  BY <1>2, <1>6
<1>7. Types'
  <2>1. Greedies' = Greedies
    BY <1>1 DEF Greedies, Rows
  <2>2. /\ \A s \in Seqs : seq'[s] \in SeqRec /\ sent'[s] \in Seq(Entry)
        /\ \A s \in Seqs : status'[s] \in Statuses
    BY <1>3, <1>5, <1>6 DEF Statuses
  <2>3. /\ seq' \in [Seqs -> SeqRec] /\ sent' \in [Seqs -> Seq(Entry)]
        /\ status' \in [Seqs -> Statuses]
    BY <1>2, <2>2
  <2> QED
    BY <1>1, <1>3, <2>1, <2>3 DEF Types
<1>8. RowsFit'
  BY <1>1, <1>4, <1>5, <1>6, SameConfig DEF RowsFit
<1>9. Fresh'
  <2>1. \A s \in Active : s \in Rows /\ status[s] = "active"
    BY DEF Active
  <2> QED
    BY <1>1, <1>4, <1>5, <1>6, <2>1 DEF Fresh, Rows
<1>10. RowsInStep'
  <2>1. \A s \in Seqs : Verified(s)
    BY <1>1 DEF Verified, Idle
  <2> QED
    BY <1>1, <1>4, <1>5, <1>6, <2>1, SameConfig DEF RowsInStep
<1>11. StepInv' /\ Lockstep'
  BY <1>1 DEF StepInv, Lockstep, Idle
<1> QED
  BY <1>7, <1>8, <1>9, <1>10, <1>11 DEF IInv

(* The draft's forward: what it has not seen, and a PARD token for every   *)
(* guess but one.                                                          *)
LEMMA DraftForward ==
  ASSUME NEW l \in Nat, NEW d, NEW dnc \in Nat, NEW c, Holds(l, d, dnc, c),
         NEW inputs \in Seq(Cell), NEW k, Joins(c, inputs, k)
  PROVE  /\ PrepareDraftInput(inputs) \in Seq(Cell)
         /\ Holds(l, d \o PrepareDraftInput(inputs), dnc + Len(PrepareDraftInput(inputs)),
                  k \o Repeat(Filler, D - 1))
<1> DEFINE fill == Repeat(Filler, D - 1)
           draft == inputs \o fill
<1>1. fill \in Seq(Cell) /\ c \in Seq(Cell)
  BY FillFacts DEF Holds
<1> HIDE DEF fill
<1>2. draft \in Seq(Cell)
  BY <1>1, ConcatType
<1>3. c \o draft = (c \o inputs) \o fill
  BY <1>1, ConcatAssociative, SMTT(30)
<1> HIDE DEF draft
<1>4. Holds(l, d \o draft, dnc + Len(draft), c \o draft)
  BY <1>2, HoldsAppend
<1>5. c \o draft = k \o fill
  BY <1>3 DEF Joins
<1> QED
  BY <1>2, <1>4, <1>5 DEF draft, fill, PrepareDraftInput

LEMMA TargetForward ==
  ASSUME NEW l \in Nat, NEW t, NEW nc \in Nat, NEW c, Holds(l, t, nc, c),
         NEW inputs \in Seq(Cell), NEW k, Joins(c, inputs, k), NEW g \in Guess
  PROVE  /\ inputs \o g \in Seq(Cell) /\ Len(inputs \o g) = Len(inputs) + D
         /\ Holds(l, t \o (inputs \o g), nc + Len(inputs \o g), k \o g)
         /\ SameContent(c, inputs \o g, k, g)
<1> DEFINE all == inputs \o g
<1>1. g \in Seq(Cell) /\ Len(g) = D /\ c \in Seq(Cell)
  BY GuessFacts DEF Holds
<1>2. all \in Seq(Cell) /\ Len(all) = Len(inputs) + Len(g)
  BY <1>1, ConcatType
<1>3. c \o all = (c \o inputs) \o g
  BY <1>1, ConcatAssociative, SMTT(30)
<1> HIDE DEF all
<1>4. Holds(l, t \o all, nc + Len(all), c \o all)
  BY <1>2, HoldsAppend
<1>5. c \o all = k \o g
  BY <1>3 DEF Joins
<1> QED
  BY <1>1, <1>2, <1>4, <1>5 DEF all, SameContent

(* What the two caches of a row in step lack of the known tokens. *)
LEMMA InStepLacks ==
  ASSUME NEW s \in Seqs, config \in Configs, config.spec, NEW q \in SeqRec, InStep(s, q)
  PROVE  /\ Joins(Drop(KnownOf(s, q), 1), Last_(KnownOf(s, q), 1), KnownOf(s, q))
         /\ Last_(KnownOf(s, q), 1) \in Seq(Cell) /\ Len(Last_(KnownOf(s, q), 1)) = 1
         /\ Joins(First(KnownOf(s, q), q.dnc),
                  Last_(KnownOf(s, q), Len(KnownOf(s, q)) - q.dnc), KnownOf(s, q))
         /\ Last_(KnownOf(s, q), Len(KnownOf(s, q)) - q.dnc) \in Seq(Cell)
<1> DEFINE k == KnownOf(s, q)
           n == q.dnc
<1>1. k \in Seq(Cell) /\ k # <<>>
  BY KnownFacts DEF SeqRec
<1>2. n \in Nat /\ n < Len(k)
  BY DEF InStep, DraftInStep, SeqRec
<1> HIDE DEF k, n
<1>3. n \in 0 .. Len(k) /\ Len(k) - n \in 0 .. Len(k)
  BY <1>1, <1>2
<1>4. Drop(k, 1) \o Last_(k, 1) = k /\ Last_(k, 1) \in Seq(Cell) /\ Len(Last_(k, 1)) = 1
  BY <1>1, SplitLast
<1>5. First(k, n) \o Last_(k, Len(k) - n) = k
  BY <1>1, <1>3, CutInTwo
<1>6. Last_(k, Len(k) - n) \in Seq(Cell)
  BY <1>1, <1>3, LastFacts
<1> QED
  BY <1>4, <1>5, <1>6 DEF k, n, Joins

IsDraftInput(s, q, inputs) ==
  inputs = PrepareDraftInput(Last_(KnownOf(s, q), Len(KnownOf(s, q)) - q.dnc))
IsDrafted(q, inputs, r) == r = [q EXCEPT !.draft = @ \o inputs, !.dnc = @ + Len(inputs)]
IsTargetInput(s, q, guess, inputs) == inputs = Last_(KnownOf(s, q), 1) \o guess
IsTargeted(q, inputs, r) == r = [q EXCEPT !.target = @ \o inputs, !.nc = @ + D + 1]

LEMMA DraftRow ==
  ASSUME NEW s \in Seqs, config \in Configs, config.spec,
         NEW q \in SeqRec, InStep(s, q), Fits(s, q), Len(q.tokens) \in Below,
         NEW inputs, IsDraftInput(s, q, inputs), NEW r, IsDrafted(q, inputs, r),
         NEW guess
  PROVE  r \in SeqRec /\ Fits(s, r) /\ Pending(s, r, "target", guess) /\ r.tokens = q.tokens
<1> DEFINE l == Lead(s)
           k == KnownOf(s, q)
           draft == q.draft
           dnc == q.dnc
           start == First(k, dnc)
           rest == Last_(k, Len(k) - dnc)
           fill == Repeat(Filler, D - 1)
           droom == DraftRoom(s)
           p == PromptLen[s]
<1>1. /\ q.tokens \in Seq(Entry) /\ draft \in Seq(Cell) /\ dnc \in Nat /\ l \in Nat
      /\ p \in Nat
  BY LeadType DEF SeqRec
<1>2. k \in Seq(Cell) /\ Len(k) = p + Len(q.tokens)
  BY <1>1, KnownFacts
<1>3. Joins(start, rest, k) /\ rest \in Seq(Cell)
  BY InStepLacks
<1>4. Holds(l, draft, dnc, start)
  BY DEF InStep, DraftInStep
<1>5. inputs = PrepareDraftInput(rest)
  BY DEF IsDraftInput
<1>6. /\ r.tokens = q.tokens /\ r.target = q.target /\ r.nc = q.nc /\ r.next = q.next
      /\ r.draft = draft \o inputs /\ r.dnc = dnc + Len(inputs)
  BY DEF SeqRec, IsDrafted
<1>7. fill \in Seq(Cell) /\ Len(fill) = D - 1 /\ D \in Nat
  BY FillFacts, LenType
<1>a. l + p + MaxNewTokens + 2 * D <= droom /\ droom \in Nat /\ D >= 0
  BY RoomFacts, LenType DEF Bound
<1> HIDE DEF l, k, draft, dnc, start, rest, fill, droom, p
<1>8. inputs \in Seq(Cell) /\ Holds(l, draft \o inputs, dnc + Len(inputs), k \o fill)
  BY <1>1, <1>3, <1>4, <1>5, DraftForward DEF fill
<1>9. draft \o inputs \in Seq(Cell) /\ dnc + Len(inputs) \in Nat
  BY <1>1, <1>8, ConcatType
<1>10. r \in SeqRec
  BY <1>9 DEF SeqRec, draft, dnc, IsDrafted
<1>11. Len(k \o fill) = Len(k) + Len(fill)
  BY <1>2, <1>7, ConcatType
<1>12. l + Len(k \o fill) <= droom
  <2>1. Len(q.tokens) \in Nat /\ Len(q.tokens) < MaxNewTokens /\ MaxNewTokens \in Nat
    BY LenType
  <2>2. Len(k) < p + MaxNewTokens /\ Len(k) \in Nat /\ Len(fill) \in Nat /\ Len(fill) <= D
    BY <1>1, <1>2, <1>7, <2>1
  <2>3. l + p + MaxNewTokens + D <= droom
    BY <1>1, <1>7, <1>a, <2>1
  <2>4. l + (Len(k) + Len(fill)) <= droom
    BY <1>1, <1>7, <1>a, <2>1, <2>2, <2>3, RoundRoom
  <2> QED
    BY <1>11, <2>4
<1>13. r.dnc <= Len(r.draft) /\ Len(r.draft) <= droom
  <2>1. /\ dnc + Len(inputs) <= Len(draft \o inputs) /\ Len(draft \o inputs) <= droom
    BY <1>1, <1>8, <1>12, <1>a, CacheFits
  <2> QED
    BY <1>6, <2>1
<1>14. Fits(s, r)
  BY <1>6, <1>10, <1>13 DEF Fits, droom
<1>15. KnownOf(s, r) = k
  BY <1>6 DEF KnownOf, k
<1>16. /\ q.tokens # <<>>
       /\ Holds(l, q.target, q.nc, Drop(k, 1))
  BY DEF InStep, l, k
<1>17. Pending(s, r, "target", guess)
  BY <1>6, <1>8, <1>15, <1>16 DEF Pending, l, fill
<1> QED
  BY <1>6, <1>10, <1>14, <1>17

LEMMA TargetRow ==
  ASSUME NEW s \in Seqs, config \in Configs, config.spec, NEW guess \in Guess,
         NEW q \in SeqRec, Pending(s, q, "target", guess), Fits(s, q),
         Len(q.tokens) \in Below,
         NEW inputs, IsTargetInput(s, q, guess, inputs), NEW r, IsTargeted(q, inputs, r)
  PROVE  r \in SeqRec /\ Fits(s, r) /\ Pending(s, r, "verify", guess) /\ r.tokens = q.tokens
<1> DEFINE l == Lead(s)
           k == KnownOf(s, q)
           target == q.target
           nc == q.nc
           last == Last_(k, 1)
           fill == Repeat(Filler, D - 1)
<1>1. /\ q.tokens \in Seq(Entry) /\ target \in Seq(Cell) /\ nc \in Nat /\ l \in Nat
      /\ PromptLen[s] \in Nat
  BY LeadType DEF SeqRec
<1>2. k \in Seq(Cell) /\ k # <<>> /\ Len(k) = PromptLen[s] + Len(q.tokens)
  BY <1>1, KnownFacts
<1>3. /\ Holds(l, target, nc, Drop(k, 1)) /\ q.tokens # <<>>
      /\ Holds(l, q.draft, q.dnc, k \o fill)
  BY DEF Pending
<1>4. inputs = last \o guess
  BY DEF IsTargetInput
<1>5. /\ r.tokens = q.tokens /\ r.draft = q.draft /\ r.dnc = q.dnc /\ r.next = q.next
      /\ r.target = target \o inputs /\ r.nc = nc + D + 1
  BY DEF SeqRec, IsTargeted
<1> HIDE DEF l, k, target, nc, fill
<1>6. Joins(Drop(k, 1), last, k) /\ last \in Seq(Cell) /\ Len(last) = 1
  BY <1>2, SplitLast DEF Joins
<1> HIDE DEF last
<1>7. /\ inputs \in Seq(Cell) /\ Len(inputs) = Len(last) + D
      /\ Holds(l, target \o inputs, nc + Len(inputs), k \o guess)
  <2> DEFINE past == Drop(k, 1)
  <2>2. Holds(l, target, nc, past) /\ Joins(past, last, k)
    BY <1>3, <1>6
  <2> HIDE DEF past
  <2>3. l \in Nat /\ nc \in Nat /\ last \in Seq(Cell)
    BY <1>1, <1>6
  <2>1. /\ last \o guess \in Seq(Cell) /\ Len(last \o guess) = Len(last) + D
        /\ Holds(l, target \o (last \o guess), nc + Len(last \o guess), k \o guess)
    <3>1. last \o guess \in Seq(Cell)
      BY <2>2, <2>3, TargetForward
    <3>2. Len(last \o guess) = Len(last) + D
      <4>1. guess \in Seq(Cell) /\ Len(guess) = D
        BY GuessFacts
      <4>2. Len(last \o guess) = Len(last) + Len(guess)
        BY <2>3, <4>1, ConcatType
      <4> QED
        BY <4>1, <4>2
    <3>3. Holds(l, target \o (last \o guess), nc + Len(last \o guess), k \o guess)
      BY <2>2, <2>3, TargetForward
    <3> QED
      BY <3>1, <3>2, <3>3
  <2> QED
    BY <1>4, <2>1, Zenon
<1>8. nc + Len(inputs) = nc + D + 1 /\ nc + D + 1 \in Nat
  BY <1>1, <1>6, <1>7, LenType
<1>9. target \o inputs \in Seq(Cell)
  BY <1>1, <1>7, ConcatType
<1>10. r \in SeqRec
  BY <1>8, <1>9 DEF SeqRec, target, nc, IsTargeted
<1>11. KnownOf(s, r) = k
  BY <1>5 DEF KnownOf, k
<1>12. Holds(l, r.target, r.nc, k \o guess) /\ Holds(l, r.draft, r.dnc, k \o fill)
  BY <1>3, <1>5, <1>7, <1>8
<1>13. Pending(s, r, "verify", guess)
  BY <1>3, <1>5, <1>11, <1>12 DEF Pending, l, fill
<1>14. Fits(s, r)
  <2>1. Len(k) \in Nat /\ Len(k) < PromptLen[s] + MaxNewTokens
    BY <1>1, <1>2, LenType
  <2>2. guess \in Seq(Cell) /\ Len(guess) <= D
    BY GuessFacts
  <2>3. fill \in Seq(Cell) /\ Len(fill) <= D
    BY FillFacts, LenType DEF fill
  <2>4. Len(r.tokens) <= LenBound
    BY <1>5 DEF Fits
  <2> QED
    BY <1>2, <1>10, <1>12, <2>1, <2>2, <2>3, <2>4, RoundFits DEF l
<1> QED
  BY <1>5, <1>10, <1>13, <1>14

(* What verify makes of the caches of q: t and d with their counters are   *)
(* those after the forwards of the round, r is what the round leaves.      *)
Trimmed(r, t, nc, d, dnc, accepted) ==
  /\ r.target = Drop(t, TargetTrim(accepted)) /\ r.nc = nc - TargetTrim(accepted)
  /\ r.draft = Drop(d, D - 1) /\ r.dnc = dnc - (D - 1)

Accept(g, out, accepted, n) ==
  /\ accepted = Accepted(g, out) /\ accepted \in Seq(Token) /\ Len(accepted) = n + 1
  /\ \A i \in 1 .. n : g[i] = out[i]
  /\ \A i \in 1 .. n + 1 : accepted[i] = out[i]

LEMMA AcceptExists ==
  ASSUME NEW g \in Guess, NEW out \in Choice
  PROVE  \E n \in Accepts : Accept(g, out, Accepted(g, out), n)
<1>1. PICK n \in 0 .. D : /\ \A i \in 1 .. n : g[i] = out[i]
                          /\ Accepted(g, out) \in Seq(Token)
                          /\ Len(Accepted(g, out)) = n + 1
                          /\ \A i \in 1 .. n + 1 : Accepted(g, out)[i] = out[i]
  BY AcceptedFacts
<1> QED
  BY <1>1 DEF Accept, Accepts

LEMMA RoundCaches ==
  ASSUME NEW s \in Seqs, NEW k \in Seq(Cell), config \in Configs,
         NEW g \in Guess, NEW out, NEW accepted, NEW n \in Accepts,
         Accept(g, out, accepted, n),
         NEW t, NEW nc \in Nat, Holds(Lead(s), t, nc, k \o g),
         NEW d, NEW dnc \in Nat, Holds(Lead(s), d, dnc, k \o Repeat(Filler, D - 1)),
         NEW r, Trimmed(r, t, nc, d, dnc, accepted)
  PROVE  /\ Holds(Lead(s), r.target, r.nc, k \o First(g, n))
         /\ Holds(Lead(s), r.draft, r.dnc, k)
         /\ r.nc \in Nat /\ r.dnc \in Nat
         /\ r.target \in Seq(Cell) /\ r.draft \in Seq(Cell)
<1>1. TargetTrim(accepted) = D - n
  <2>1. Len(accepted) = n + 1 /\ n \in Nat /\ D \in Nat
    BY LenType DEF Accept, Accepts
  <2> QED
    BY <2>1 DEF TargetTrim
<1>2. Lead(s) \in Nat
  BY LeadType
<1>3. /\ Holds(Lead(s), Drop(t, D - n), nc - (D - n), k \o First(g, n))
      /\ Holds(Lead(s), Drop(d, D - 1), dnc - (D - 1), k)
  BY <1>2, RoundTrims
<1>4. /\ Holds(Lead(s), r.target, r.nc, k \o First(g, n))
      /\ Holds(Lead(s), r.draft, r.dnc, k)
  BY <1>1, <1>3 DEF Trimmed
<1>5. r.target \in Seq(Cell) /\ r.draft \in Seq(Cell)
  BY <1>4 DEF Holds
<1>6. k \o First(g, n) \in Seq(Cell) /\ r.nc = Len(k \o First(g, n)) /\ r.dnc = Len(k)
  BY <1>4 DEF Holds
<1>7. r.nc \in Nat /\ r.dnc \in Nat
  <2> DEFINE whole == k \o First(g, n)
  <2>1. whole \in Seq(Cell) /\ r.nc = Len(whole)
    BY <1>6
  <2> HIDE DEF whole
  <2>2. Len(whole) \in Nat /\ Len(k) \in Nat
    BY <2>1
  <2> QED
    BY <1>6, <2>1, <2>2
<1> QED
  BY <1>4, <1>5, <1>7

(* A verified row is in step if nothing was cut off, and has room anyhow. *)
LEMMA RoundDone ==
  ASSUME NEW s \in Seqs, config \in Configs, config.spec,
         NEW q, q.tokens \in Seq(Entry), Len(q.tokens) \in Below,
         NEW g \in Guess, NEW out, NEW accepted, NEW n \in Accepts,
         Accept(g, out, accepted, n),
         NEW t, NEW nc \in Nat, Holds(Lead(s), t, nc, KnownOf(s, q) \o g),
         NEW d, NEW dnc \in Nat,
         Holds(Lead(s), d, dnc, KnownOf(s, q) \o Repeat(Filler, D - 1)),
         NEW r \in SeqRec, Trimmed(r, t, nc, d, dnc, accepted),
         Len(r.tokens) <= LenBound
  PROVE  /\ Fits(s, r)
         /\ r.tokens = q.tokens \o accepted /\ NextIs(r, accepted) => InStep(s, r)
<1> DEFINE k == KnownOf(s, q)
           start == First(g, n)
<1>1. /\ k \in Seq(Cell) /\ Len(k) = PromptLen[s] + Len(q.tokens)
      /\ PromptLen[s] \in Nat
  BY KnownFacts
<1>a. /\ Holds(Lead(s), t, nc, k \o g)
      /\ Holds(Lead(s), d, dnc, k \o Repeat(Filler, D - 1))
  OBVIOUS
<1>b. k = KnownOf(s, q)
  OBVIOUS
<1> HIDE DEF k
<1>2. /\ Holds(Lead(s), r.target, r.nc, k \o start) /\ Holds(Lead(s), r.draft, r.dnc, k)
  BY <1>1, <1>a, RoundCaches
<1>3. /\ accepted \in Seq(Token) /\ Len(accepted) = n + 1
      /\ \A i \in 1 .. n : g[i] = accepted[i]
  <2>1. n \in Nat
    BY LenType DEF Accepts
  <2> QED
    BY <2>1 DEF Accept
<1>4. start \in Seq(Cell) /\ Len(start) <= D
  <2>1. g \in Seq(Cell) /\ n \in 0 .. Len(g) /\ n <= D
    BY GuessFacts DEF Accepts
  <2> QED
    BY <2>1, FirstFacts
<1>5. ASSUME r.tokens = q.tokens \o accepted, NextIs(r, accepted) PROVE InStep(s, r)
  <2>1. /\ Holds(Lead(s), r.target, r.nc, KnownOf(s, q) \o First(g, n))
        /\ Holds(Lead(s), r.draft, r.dnc, KnownOf(s, q))
    BY <1>2, <1>b
  <2> QED
    BY <1>3, <1>5, <2>1, RoundRow
<1>6. Fits(s, r)
  <2> HIDE DEF start
  <2>1. k \o <<>> = k /\ <<>> \in Seq(Cell) /\ Len(<<>>) <= D
    BY <1>1, ConcatEmptySeq, LenType
  <2>2. Holds(Lead(s), r.draft, r.dnc, k \o <<>>)
    BY <1>2, <2>1
  <2>3. Len(k) \in Nat /\ Len(k) < PromptLen[s] + MaxNewTokens
    <3>1. Len(q.tokens) \in Nat /\ Len(q.tokens) < MaxNewTokens /\ MaxNewTokens \in Nat
      BY LenType
    <3> QED
      BY <1>1, <3>1
  <2> QED
    BY <1>1, <1>2, <1>4, <2>1, <2>2, <2>3, RoundFits
<1> QED
  BY <1>5, <1>6

LEMMA SamePending ==
  ASSUME config' = config, NEW s, NEW q, NEW at, NEW guess
  PROVE  Pending(s, q, at, guess)' <=> Pending(s, q, at, guess)
<1>1. Lead(s)' = Lead(s)
  BY SameConfig
<1> QED
  BY <1>1 DEF Pending

LEMMA DraftInv ==
  ASSUME IInv, Draft
  PROVE  IInv'
<1> DEFINE missing(s) == Len(Known(s)) - seq[s].dnc
           input(s) == PrepareDraftInput(Last_(Known(s), missing(s)))
<1>1. /\ config \in Configs /\ ~config.offline /\ config.spec /\ step = Idle
      /\ config' = config /\ greedy' = greedy /\ sent' = sent /\ status' = status
      /\ seq' = [s \in Seqs |-> IF s \in Active
           THEN [seq[s] EXCEPT !.draft = @ \o input(s), !.dnc = @ + Len(input(s))]
           ELSE seq[s]]
  BY DEF Draft, IInv, Types
<1>2. PICK guess \in [Active -> Guess] :
        step' = [at |-> "target", batch |-> Active, guess |-> guess,
                 result |-> [s \in {} |-> <<>>]]
  BY DEF Draft, Guess
<1>3. /\ seq \in [Seqs -> SeqRec] /\ sent \in [Seqs -> Seq(Entry)]
      /\ status \in [Seqs -> Statuses] /\ greedy \in Greedies
  BY DEF IInv, Types
<1>4. RowsFit /\ Fresh /\ RowsInStep
  BY DEF IInv
<1>5. Active \subseteq Rows /\ Rows \subseteq Seqs /\ Active' = Active
      /\ \A s \in Active : status[s] = "active"
  BY <1>1, ConfigFacts DEF Active, Rows
<1>6. ASSUME NEW s \in Active, NEW guess_s
      PROVE  /\ seq'[s] \in SeqRec /\ Fits(s, seq'[s])
             /\ Pending(s, seq'[s], "target", guess_s)
             /\ seq'[s].tokens = seq[s].tokens
  <2> DEFINE q == seq[s]
             r == [q EXCEPT !.draft = @ \o input(s), !.dnc = @ + Len(input(s))]
  <2>1. s \in Seqs /\ q \in SeqRec
    BY <1>3, <1>5
  <2>2. InStep(s, q) /\ Len(q.tokens) \in Below /\ Fits(s, q)
    BY <1>1, <1>4, <1>5, <2>1 DEF RowsInStep, RowsFit, Running, Verified, Idle
  <2>3. Known(s) = KnownOf(s, q)
    BY DEF Known, KnownOf
  <2>4. input(s) = PrepareDraftInput(
                     Last_(KnownOf(s, q), Len(KnownOf(s, q)) - q.dnc))
    BY <2>3
  <2>5. seq'[s] = r
    BY <1>1, <2>1
  <2> DEFINE i == input(s)
  <2>6. IsDrafted(q, i, r)
    BY DEF IsDrafted
  <2>7. IsDraftInput(s, q, i)
    BY <2>4 DEF IsDraftInput
  <2> HIDE DEF q, r, i, input
  <2>8. r \in SeqRec /\ Fits(s, r) /\ Pending(s, r, "target", guess_s) /\ r.tokens = q.tokens
    BY <1>1, <2>1, <2>2, <2>6, <2>7, DraftRow
  <2> QED
    BY <2>5, <2>8 DEF q
<1> HIDE DEF input
<1>7. ASSUME NEW s \in Seqs, s \notin Active PROVE seq'[s] = seq[s]
  BY <1>1, <1>7
<1>8. Types'
  <2>1. Greedies' = Greedies
    BY <1>1 DEF Greedies, Rows
  <2>2. \A s \in Seqs : seq'[s] \in SeqRec
    BY <1>3, <1>6, <1>7
  <2>3. seq' \in [Seqs -> SeqRec]
    BY <1>1, <2>2
  <2> QED
    BY <1>1, <1>3, <2>1, <2>3 DEF Types
<1>9. RowsFit'
  BY <1>1, <1>4, <1>6, <1>7, SameConfig DEF RowsFit
<1>10. Fresh'
  BY <1>1, <1>4, <1>5, <1>7 DEF Fresh, Rows
<1>11. RowsInStep'
  <2>1. SUFFICES ASSUME NEW s \in Seqs
                 PROVE  /\ status'[s] = "active" => Len(seq'[s].tokens) \in Below
                        /\ status'[s] \in Running /\ Verified(s)' => InStep(s, seq[s])'
    BY DEF RowsInStep
  <2>2. CASE s \in Active
    <3>1. ~Verified(s)'
      BY <1>2, <2>2 DEF Verified
    <3> QED
      BY <1>1, <1>4, <1>6, <2>2, <3>1 DEF RowsInStep
  <2>3. CASE s \notin Active
    <3>1. Verified(s)
      BY <1>1 DEF Verified, Idle
    <3> QED
      BY <1>1, <1>4, <1>7, <2>3, <3>1, SameConfig DEF RowsInStep
  <2> QED
    BY <2>2, <2>3
<1>12. StepInv'
  <2>1. /\ step'.at = "target" /\ step'.batch = Active /\ step'.guess = guess
        /\ step'.result = [s \in {} |-> <<>>] /\ DOMAIN step'.result = {}
    BY <1>2
  <2>2. ASSUME NEW s \in Active
        PROVE  status'[s] = "active" /\ Pending(s, seq[s], step.at, step.guess[s])'
    <3>1. Pending(s, seq'[s], "target", guess[s])
      BY <1>6
    <3>2. Pending(s, seq[s], step.at, step.guess[s])'
      BY <1>1, <2>1, <3>1, SamePending
    <3> QED
      BY <1>1, <1>5, <3>2
  <2>3. /\ ~config'.offline /\ config'.spec /\ Rows' = Rows
    BY <1>1 DEF Rows
  <2>4. step'.result \in [DOMAIN step'.result -> Seq(Token)]
    BY <2>1
  <2>5. step' \in [at : {"target", "verify"}, batch : {step'.batch},
                   guess : {step'.guess}, result : {step'.result}]
    BY <1>2
  <2>6. Stepping'
    BY <1>2, <1>5, <2>1, <2>2, <2>3, <2>4, <2>5 DEF Stepping
  <2> QED
    BY <2>6 DEF StepInv
<1>13. Lockstep'
  BY <1>1 DEF Lockstep
<1> QED
  BY <1>8, <1>9, <1>10, <1>11, <1>12, <1>13 DEF IInv

LEMMA TargetInv ==
  ASSUME IInv, Target
  PROVE  IInv'
<1>1. /\ config \in Configs /\ step.at = "target"
      /\ config' = config /\ greedy' = greedy /\ sent' = sent /\ status' = status
      /\ seq' = [s \in Seqs |-> IF s \in step.batch
           THEN [seq[s] EXCEPT !.target = @ \o TargetInput(s), !.nc = @ + D + 1]
           ELSE seq[s]]
      /\ step' = [step EXCEPT !.at = "verify"]
  BY DEF Target, IInv, Types
<1>2. /\ seq \in [Seqs -> SeqRec] /\ sent \in [Seqs -> Seq(Entry)]
      /\ status \in [Seqs -> Statuses] /\ greedy \in Greedies
  BY DEF IInv, Types
<1>3. RowsFit /\ Fresh /\ RowsInStep /\ StepInv
  BY DEF IInv
<1>4. Stepping
  <2>1. step.at = "target" /\ Idle.at = "idle"
    BY <1>1 DEF Idle
  <2>2. step # Idle
    BY <2>1
  <2> QED
    BY <1>3, <2>2 DEF StepInv
<1>5. /\ step.batch \subseteq Rows /\ Rows \subseteq Seqs /\ step.result = [s \in {} |-> <<>>]
      /\ step.guess \in [step.batch -> Guess] /\ DOMAIN step.result = {}
      /\ \A s \in step.batch : status[s] = "active" /\ Pending(s, seq[s], "target", step.guess[s])
      /\ config.spec /\ ~config.offline
      /\ step \in [at : {"target", "verify"}, batch : {step.batch},
                   guess : {step.guess}, result : {step.result}]
  BY <1>1, <1>4, ConfigFacts DEF Stepping
<1>6. ASSUME NEW s \in step.batch
      PROVE  /\ seq'[s] \in SeqRec /\ Fits(s, seq'[s])
             /\ Pending(s, seq'[s], "verify", step.guess[s])
             /\ seq'[s].tokens = seq[s].tokens
  <2> DEFINE q == seq[s]
             i == TargetInput(s)
             r == [q EXCEPT !.target = @ \o i, !.nc = @ + D + 1]
             guess == step.guess[s]
  <2>1. s \in Seqs /\ q \in SeqRec
    BY <1>2, <1>5
  <2>2. Pending(s, q, "target", guess) /\ Len(q.tokens) \in Below /\ Fits(s, q)
        /\ guess \in Guess
    BY <1>3, <1>5, <2>1 DEF RowsInStep, RowsFit
  <2>3. seq'[s] = r
    BY <1>1, <2>1
  <2>4. IsTargeted(q, i, r)
    BY DEF IsTargeted
  <2>5. IsTargetInput(s, q, guess, i)
    BY DEF IsTargetInput, TargetInput, Known, KnownOf
  <2>7. config \in Configs /\ config.spec
    BY <1>1, <1>5
  <2> HIDE DEF q, r, i, guess
  <2>6. r \in SeqRec /\ Fits(s, r) /\ Pending(s, r, "verify", guess) /\ r.tokens = q.tokens
    BY <2>1, <2>2, <2>4, <2>5, <2>7, TargetRow
  <2> QED
    BY <2>3, <2>6 DEF q, guess
<1>7. ASSUME NEW s \in Seqs, s \notin step.batch PROVE seq'[s] = seq[s]
  BY <1>1, <1>7
<1>8. Types'
  <2>1. Greedies' = Greedies
    BY <1>1 DEF Greedies, Rows
  <2>2. \A s \in Seqs : seq'[s] \in SeqRec
    BY <1>2, <1>6, <1>7
  <2>3. seq' \in [Seqs -> SeqRec]
    BY <1>1, <2>2, ZenonT(30)
  <2> QED
    BY <1>1, <1>2, <2>1, <2>3 DEF Types
<1>9. RowsFit'
  BY <1>1, <1>3, <1>6, <1>7, SameConfig DEF RowsFit
<1>10. Fresh'
  BY <1>1, <1>3, <1>5, <1>7 DEF Fresh, Rows
<1>a. /\ step'.at = "verify" /\ step'.batch = step.batch /\ step'.guess = step.guess
      /\ step'.result = step.result
      /\ step' \in [at : {"target", "verify"}, batch : {step'.batch},
                    guess : {step'.guess}, result : {step'.result}]
  BY <1>1, <1>5
<1>11. RowsInStep'
  <2>1. SUFFICES ASSUME NEW s \in Seqs
                 PROVE  /\ status'[s] = "active" => Len(seq'[s].tokens) \in Below
                        /\ status'[s] \in Running /\ Verified(s)' => InStep(s, seq[s])'
    BY DEF RowsInStep
  <2>2. CASE s \in step.batch
    <3>1. ~Verified(s)'
      BY <1>5, <1>a, <2>2 DEF Verified
    <3> QED
      BY <1>1, <1>3, <1>6, <2>2, <3>1 DEF RowsInStep
  <2>3. CASE s \notin step.batch
    <3>1. Verified(s)
      BY <2>3 DEF Verified
    <3> QED
      BY <1>1, <1>3, <1>7, <2>3, <3>1, SameConfig DEF RowsInStep
  <2> QED
    BY <2>2, <2>3, SMTT(30)
<1>12. StepInv'
  <2>2. ASSUME NEW s \in step.batch
        PROVE  status'[s] = "active" /\ Pending(s, seq[s], step.at, step.guess[s])'
    <3>1. Pending(s, seq'[s], "verify", step.guess[s])
      BY <1>6
    <3>2. Pending(s, seq[s], step.at, step.guess[s])'
      BY <1>1, <1>a, <3>1, SamePending
    <3> QED
      BY <1>1, <1>5, <3>2
  <2>3. /\ ~config'.offline /\ config'.spec /\ Rows' = Rows /\ Active' = Active
    BY <1>1, <1>5 DEF Rows, Active
  <2>4. step'.result \in [DOMAIN step'.result -> Seq(Token)]
    BY <1>5, <1>a
  <2>5. Active \subseteq step.batch
    BY <1>4 DEF Stepping
  <2>6. Stepping'
    BY <1>5, <1>a, <2>2, <2>3, <2>4, <2>5 DEF Stepping
  <2> QED
    BY <2>6 DEF StepInv
<1>13. Lockstep'
  BY <1>1, <1>5 DEF Lockstep
<1> QED
  BY <1>8, <1>9, <1>10, <1>11, <1>12, <1>13 DEF IInv

(* What is kept of the accepted tokens fits; if any is cut off, the row    *)
(* has all its tokens.                                                     *)
LEMMA KeptFacts ==
  ASSUME NEW s \in Seqs, seq[s].tokens \in Seq(Entry), Len(seq[s].tokens) \in Below,
         NEW accepted \in Seq(Token), accepted # <<>>
  PROVE  /\ Kept(s, accepted) \in Seq(Token) /\ Kept(s, accepted) \in Seq(Entry)
         /\ Len(Kept(s, accepted)) > 0
         /\ Len(Kept(s, accepted)) <= Len(accepted)
         /\ \A i \in 1 .. Len(Kept(s, accepted)) : Kept(s, accepted)[i] = accepted[i]
         /\ seq[s].tokens \o Kept(s, accepted) \in Seq(Entry)
         /\ Len(seq[s].tokens \o Kept(s, accepted)) <= MaxNewTokens
         /\ \/ Kept(s, accepted) = accepted
            \/ Len(seq[s].tokens \o Kept(s, accepted)) = MaxNewTokens
<1> DEFINE n == Len(seq[s].tokens)
           a == Len(accepted)
           k == IF a <= Room(s) THEN a ELSE Room(s)
           kept == First(accepted, k)
           tokens == seq[s].tokens
<1>1. n \in Nat /\ n < MaxNewTokens /\ MaxNewTokens \in Nat /\ a \in Nat /\ a > 0
  BY LenType
<1>2. Room(s) = MaxNewTokens - n
  BY DEF Room
<1>b. tokens \in Seq(Entry) /\ Len(tokens) = n
  OBVIOUS
<1>c. kept = Kept(s, accepted)
  BY DEF Kept
<1> HIDE DEF n, a, tokens
<1>3. k \in 0 .. a /\ k > 0 /\ n + k <= MaxNewTokens /\ (k = a \/ n + k = MaxNewTokens)
  BY <1>1, <1>2
<1> HIDE DEF k
<1>4. kept \in Seq(Token) /\ Len(kept) = k /\ \A i \in 1 .. k : kept[i] = accepted[i]
  BY <1>3, FirstFacts DEF a
<1>5. k = a => kept = accepted
  BY SubSeqFull DEF First, a
<1> HIDE DEF kept
<1>6. kept \in Seq(Entry)
  <2>1. Token \subseteq Entry
    BY DEF Entry
  <2> QED
    BY <1>4, <2>1, SeqSub
<1>7. tokens \o kept \in Seq(Entry) /\ Len(tokens \o kept) = n + k
  BY <1>b, <1>4, <1>6, ConcatType
<1>8. k <= a
  BY <1>1, <1>3
<1> QED
  BY <1>3, <1>4, <1>5, <1>6, <1>7, <1>8, <1>c DEF a, tokens

(* The row that verify leaves of q. *)
IsVerified(q, accepted, tokens, r) ==
  r = [DraftVerified(q) EXCEPT !.tokens = tokens, !.target = Drop(@, TargetTrim(accepted)),
                               !.nc = @ - TargetTrim(accepted)]

LEMMA VerifiedFields ==
  ASSUME NEW q \in SeqRec, NEW accepted, NEW tokens, NEW r, IsVerified(q, accepted, tokens, r)
  PROVE  /\ Trimmed(r, q.target, q.nc, q.draft, q.dnc, accepted)
         /\ r.tokens = tokens
         /\ tokens \in Seq(Entry) /\ r.nc \in Nat /\ r.dnc \in Nat
              /\ r.target \in Seq(Cell) /\ r.draft \in Seq(Cell) => r \in SeqRec
<1> DEFINE trim == TargetTrim(accepted)
           target == Drop(q.target, trim)
           draft == Drop(q.draft, D - 1)
           nc == q.nc - trim
           dnc == q.dnc - (D - 1)
<1>1. r = [DraftVerified(q) EXCEPT !.tokens = tokens, !.target = target, !.nc = nc]
  BY DEF IsVerified, DraftVerified, SeqRec
<1>2. DraftVerified(q) = [q EXCEPT !.draft = draft, !.dnc = dnc]
  BY DEF DraftVerified
<1> HIDE DEF target, draft, nc, dnc
<1>3. /\ r.tokens = tokens /\ r.target = target /\ r.nc = nc /\ r.draft = draft /\ r.dnc = dnc
      /\ r = [tokens |-> tokens, target |-> target, nc |-> nc, draft |-> draft,
              dnc |-> dnc, next |-> q.next]
      /\ q.next \in Nat
  BY <1>1, <1>2 DEF SeqRec
<1>4. Trimmed(r, q.target, q.nc, q.draft, q.dnc, accepted)
  BY <1>3 DEF Trimmed, target, draft, nc, dnc
<1>5. ASSUME tokens \in Seq(Entry), nc \in Nat, dnc \in Nat, target \in Seq(Cell), draft \in Seq(Cell)
      PROVE  r \in SeqRec
  BY <1>3, <1>5 DEF SeqRec
<1> QED
  BY <1>3, <1>4, <1>5

LEMMA VerifyRow ==
  ASSUME NEW s \in Seqs, config \in Configs, config.spec, ~config.offline,
         seq[s] \in SeqRec, Len(seq[s].tokens) \in Below,
         NEW g \in Guess, Pending(s, seq[s], "verify", g),
         NEW out \in Choice, NEW accepted, NEW n \in Accepts, Accept(g, out, accepted, n),
         NEW r, IsVerified(seq[s], accepted, seq[s].tokens \o Kept(s, accepted), r)
  PROVE  /\ r \in SeqRec /\ Fits(s, r)
         /\ Len(r.tokens) \in Below => InStep(s, r)
         /\ r.tokens = seq[s].tokens \o Kept(s, accepted)
<1> DEFINE q == seq[s]
           k == KnownOf(s, q)
           tokens == q.tokens \o Kept(s, accepted)
           t == q.target
           nc == q.nc
           d == q.draft
           dnc == q.dnc
<1>1. q \in SeqRec /\ q.tokens \in Seq(Entry) /\ nc \in Nat /\ dnc \in Nat
  BY DEF SeqRec
<1>2. /\ Holds(Lead(s), t, nc, k \o g)
      /\ Holds(Lead(s), d, dnc, k \o Repeat(Filler, D - 1))
  BY DEF Pending
<1>3. k \in Seq(Cell)
  BY <1>1, KnownFacts
<1>4. accepted \in Seq(Token) /\ accepted # <<>>
  <2>1. accepted \in Seq(Token) /\ Len(accepted) = n + 1 /\ n \in Nat /\ Len(<<>>) = 0
    BY LenType DEF Accept, Accepts
  <2>2. Len(accepted) # Len(<<>>)
    BY <2>1
  <2> QED
    BY <2>1, <2>2
<1>5. /\ tokens \in Seq(Entry) /\ Len(tokens) <= MaxNewTokens
      /\ Kept(s, accepted) = accepted \/ Len(tokens) = MaxNewTokens
  BY <1>1, <1>4, KeptFacts
<1>6. IsVerified(q, accepted, tokens, r)
  OBVIOUS
<1> HIDE DEF tokens, k, q, t, nc, d, dnc
<1>7. /\ Trimmed(r, q.target, q.nc, q.draft, q.dnc, accepted) /\ r.tokens = tokens
      /\ tokens \in Seq(Entry) /\ r.nc \in Nat /\ r.dnc \in Nat
           /\ r.target \in Seq(Cell) /\ r.draft \in Seq(Cell) => r \in SeqRec
  BY <1>1, <1>6, VerifiedFields
<1>8. Trimmed(r, t, nc, d, dnc, accepted)
  BY <1>7 DEF t, nc, d, dnc
<1>9. /\ r.nc \in Nat /\ r.dnc \in Nat /\ r.target \in Seq(Cell) /\ r.draft \in Seq(Cell)
  BY <1>1, <1>2, <1>3, <1>8, RoundCaches
<1>10. r \in SeqRec
  BY <1>5, <1>7, <1>9
<1>11. Len(r.tokens) <= LenBound
  BY <1>5, <1>7, LenType DEF LenBound
<1>12. NextIs(r, accepted)
  BY DEF NextIs
<1>13. /\ Holds(Lead(s), t, nc, KnownOf(s, q) \o g)
       /\ Holds(Lead(s), d, dnc, KnownOf(s, q) \o Repeat(Filler, D - 1))
       /\ Len(q.tokens) \in Below
  BY <1>2 DEF k, q
<1>14. /\ Fits(s, r)
       /\ r.tokens = q.tokens \o accepted /\ NextIs(r, accepted) => InStep(s, r)
  BY <1>1, <1>8, <1>10, <1>11, <1>13, RoundDone
<1>15. ASSUME Len(r.tokens) \in Below PROVE InStep(s, r)
  <2>1. Len(tokens) # MaxNewTokens
    BY <1>7, <1>15, LenType
  <2>2. Kept(s, accepted) = accepted
    BY <1>5, <2>1
  <2>3. r.tokens = q.tokens \o accepted
    BY <1>7, <2>2 DEF tokens
  <2> QED
    BY <1>12, <1>14, <2>3
<1> QED
  BY <1>7, <1>10, <1>14, <1>15 DEF tokens, q

VerifyTakes(s, out, accepted, n, kept, r) ==
  /\ out \in Sampled(s, Drop(seq[s].target, D + 1), seq[s].nc - (D + 1), TargetInput(s), D + 1)
  /\ out \in Choice /\ n \in Accepts /\ Accept(step.guess[s], out, accepted, n)
  /\ kept = Kept(s, accepted) /\ kept \in Seq(Token)
  /\ IsVerified(seq[s], accepted, seq[s].tokens \o kept, r)
  /\ seq' = [seq EXCEPT ![s] = r]
  /\ r \in SeqRec /\ Fits(s, r)
  /\ Len(r.tokens) \in Below => InStep(s, r)
  /\ r.tokens = seq[s].tokens \o kept /\ Len(r.tokens) \in Nat
  /\ status' = [status EXCEPT ![s] =
                  IF StopNow(r.tokens, Len(kept)) THEN "completed" ELSE @]
  /\ step' = [step EXCEPT !.result =
                [t \in DOMAIN @ \union {s} |-> IF t = s THEN kept ELSE @[t]]]

LEMMA VerifyStep ==
  ASSUME IInv, NEW s \in Seqs, Verify(s)
  PROVE  /\ Stepping /\ step.at = "verify" /\ s \in step.batch /\ s \notin DOMAIN step.result
         /\ status[s] = "active" /\ s \in Rows /\ step.guess[s] \in Guess
         /\ Pending(s, seq[s], "verify", step.guess[s])
         /\ config \in Configs /\ config.spec /\ ~config.offline
         /\ seq[s] \in SeqRec /\ Len(seq[s].tokens) \in Below
         /\ UNCHANGED <<config, greedy, sent>>
         /\ \E out, accepted, n, kept, r : VerifyTakes(s, out, accepted, n, kept, r)
<1>1. /\ step.at = "verify" /\ s \in step.batch \ DOMAIN step.result
      /\ UNCHANGED <<config, greedy, sent>>
  BY DEF Verify
<1>2. /\ config \in Configs /\ seq \in [Seqs -> SeqRec] /\ StepInv /\ RowsInStep
  BY DEF IInv, Types
<1>3. Stepping
  <2>1. Idle.at = "idle"
    BY DEF Idle
  <2>2. step # Idle
    BY <1>1, <2>1
  <2> QED
    BY <1>2, <2>2 DEF StepInv
<1>4. /\ status[s] = "active" /\ s \in Rows /\ step.guess[s] \in Guess
      /\ Pending(s, seq[s], "verify", step.guess[s]) /\ config.spec /\ ~config.offline
  BY <1>1, <1>3 DEF Stepping
<1>5. seq[s] \in SeqRec /\ Len(seq[s].tokens) \in Below
  BY <1>2, <1>4 DEF RowsInStep
<1>6. \E out, accepted, n, kept, r : VerifyTakes(s, out, accepted, n, kept, r)
  <2>1. PICK out \in Sampled(s, Drop(seq[s].target, D + 1), seq[s].nc - (D + 1),
                             TargetInput(s), D + 1) :
          LET accepted == Accepted(step.guess[s], out)
              trim == TargetTrim(accepted)
              kept == Kept(s, accepted)
              tokens == seq[s].tokens \o kept
          IN /\ seq' = [seq EXCEPT ![s] =
                  [DraftVerified(seq[s]) EXCEPT !.tokens = tokens,
                     !.target = Drop(@, trim), !.nc = @ - trim]]
             /\ status' = [status EXCEPT ![s] =
                  IF StopNow(tokens, Len(kept)) THEN "completed" ELSE @]
             /\ step' = [step EXCEPT !.result =
                  [t \in DOMAIN @ \union {s} |-> IF t = s THEN kept ELSE @[t]]]
    BY DEF Verify
  <2> DEFINE accepted == Accepted(step.guess[s], out)
             kept == Kept(s, accepted)
             tokens == seq[s].tokens \o kept
             trim == TargetTrim(accepted)
             r == [DraftVerified(seq[s]) EXCEPT !.tokens = tokens,
                     !.target = Drop(@, trim), !.nc = @ - trim]
  <2>2. /\ seq' = [seq EXCEPT ![s] = r]
        /\ status' = [status EXCEPT ![s] =
             IF StopNow(tokens, Len(kept)) THEN "completed" ELSE @]
        /\ step' = [step EXCEPT !.result =
             [t \in DOMAIN @ \union {s} |-> IF t = s THEN kept ELSE @[t]]]
    <3>1. seq' = [seq EXCEPT ![s] = r]
      BY <2>1, Zenon
    <3>2. status' = [status EXCEPT ![s] =
               IF StopNow(tokens, Len(kept)) THEN "completed" ELSE @]
      BY <2>1, Zenon
    <3>3. step' = [step EXCEPT !.result =
             [t \in DOMAIN @ \union {s} |-> IF t = s THEN kept ELSE @[t]]]
      BY <2>1, Zenon
    <3> QED
      BY <3>1, <3>2, <3>3
  <2>3. IsVerified(seq[s], accepted, seq[s].tokens \o Kept(s, accepted), r)
    BY DEF IsVerified
  <2>4. out \in Choice
    BY SampledType DEF Choice
  <2> HIDE DEF r, accepted
  <2>5. PICK n \in Accepts : Accept(step.guess[s], out, accepted, n)
    BY <1>4, <2>4, AcceptExists DEF accepted
  <2>6. /\ r \in SeqRec /\ Fits(s, r)
        /\ Len(r.tokens) \in Below => InStep(s, r)
        /\ r.tokens = seq[s].tokens \o Kept(s, accepted)
    BY <1>2, <1>4, <1>5, <2>3, <2>4, <2>5, VerifyRow
  <2>7. kept \in Seq(Token) /\ Len(r.tokens) \in Nat
    <3>1. accepted \in Seq(Token) /\ accepted # <<>>
      <4>1. accepted \in Seq(Token) /\ Len(accepted) = n + 1 /\ n \in Nat /\ Len(<<>>) = 0
        BY <2>5, LenType DEF Accept, Accepts
      <4>2. Len(accepted) # Len(<<>>)
        BY <4>1
      <4> QED
        BY <4>1, <4>2
    <3>2. seq[s].tokens \in Seq(Entry)
      BY <1>5 DEF SeqRec
    <3>3. Kept(s, accepted) \in Seq(Token)
      BY <1>5, <3>1, <3>2, KeptFacts
    <3>4. r.tokens \in Seq(Entry)
      BY <2>6 DEF SeqRec
    <3> QED
      BY <3>3, <3>4
  <2> HIDE DEF kept
  <2>8. VerifyTakes(s, out, accepted, n, kept, r)
    <3>1. kept = Kept(s, accepted) /\ tokens = r.tokens
      BY <2>6 DEF kept
    <3>2. status' = [status EXCEPT ![s] =
             IF StopNow(r.tokens, Len(kept)) THEN "completed" ELSE @]
      BY <2>2, <3>1
    <3> QED
      BY <2>1, <2>2, <2>3, <2>4, <2>5, <2>6, <2>7, <3>1, <3>2 DEF VerifyTakes
  <2> QED
    BY <2>8
<1> QED
  BY <1>1, <1>2, <1>3, <1>4, <1>5, <1>6

LEMMA VerifyInv ==
  ASSUME IInv, NEW s \in Seqs, Verify(s)
  PROVE  IInv'
<1>1. /\ Stepping /\ step.at = "verify" /\ s \in step.batch /\ s \notin DOMAIN step.result
      /\ status[s] = "active" /\ s \in Rows
      /\ config \in Configs /\ config.spec /\ ~config.offline
      /\ config' = config /\ greedy' = greedy /\ sent' = sent
  BY VerifyStep
<1>2. PICK out, accepted, n, kept, r : VerifyTakes(s, out, accepted, n, kept, r)
  BY VerifyStep
<1>3. /\ seq \in [Seqs -> SeqRec] /\ sent \in [Seqs -> Seq(Entry)]
      /\ status \in [Seqs -> Statuses] /\ greedy \in Greedies
      /\ RowsFit /\ Fresh /\ RowsInStep
  BY DEF IInv, Types
<1>4. /\ seq'[s] = r /\ r \in SeqRec /\ Fits(s, r) /\ kept \in Seq(Token)
      /\ status'[s] \in {"completed", "active"}
      /\ \A t \in Seqs : t # s => seq'[t] = seq[t] /\ status'[t] = status[t]
      /\ seq' \in [Seqs -> SeqRec] /\ status' \in [Seqs -> Statuses]
  BY <1>1, <1>2, <1>3 DEF VerifyTakes, Statuses
<1>5. status'[s] = "active" => Len(r.tokens) \in Below /\ InStep(s, r)
  <2>1. ASSUME status'[s] = "active" PROVE Len(r.tokens) \in Below
    <3>1. ~StopNow(r.tokens, Len(kept)) /\ Len(r.tokens) \in Nat
      BY <1>2, <1>3, <2>1 DEF VerifyTakes
    <3>2. ~(Len(r.tokens) >= MaxNewTokens)
      BY <3>1 DEF StopNow, StopIfMaxLen
    <3> QED
      BY <3>1, <3>2, LenType
  <2> QED
    BY <1>2, <2>1 DEF VerifyTakes
<1>6. /\ step'.at = "verify" /\ step'.batch = step.batch /\ step'.guess = step.guess
      /\ DOMAIN step'.result = DOMAIN step.result \union {s}
      /\ step'.result[s] = kept
      /\ \A t \in DOMAIN step.result : step'.result[t] = step.result[t]
      /\ step'.result \in [DOMAIN step.result \union {s} -> Seq(Token)]
      /\ step' \in [at : {"target", "verify"}, batch : {step'.batch},
                    guess : {step'.guess}, result : {step'.result}]
  <2> DEFINE result == [t \in DOMAIN step.result \union {s} |->
                          IF t = s THEN kept ELSE step.result[t]]
  <2>1. step' = [step EXCEPT !.result = result]
    BY <1>2 DEF VerifyTakes
  <2>2. step \in [at : {"target", "verify"}, batch : {step.batch},
                  guess : {step.guess}, result : {step.result}]
        /\ step.result \in [DOMAIN step.result -> Seq(Token)]
    BY <1>1 DEF Stepping
  <2>3. /\ DOMAIN result = DOMAIN step.result \union {s} /\ result[s] = kept
        /\ \A t \in DOMAIN step.result : result[t] = step.result[t]
        /\ result \in [DOMAIN step.result \union {s} -> Seq(Token)]
    BY <1>1, <1>4, <2>2
  <2> HIDE DEF result
  <2>4. step'.result = result /\ step'.at = "verify" /\ step'.batch = step.batch
        /\ step'.guess = step.guess
        /\ step' \in [at : {"target", "verify"}, batch : {step.batch},
                      guess : {step.guess}, result : {result}]
    BY <1>1, <2>1, <2>2
  <2> QED
    BY <2>3, <2>4
<1>7. Types'
  <2>1. Greedies' = Greedies
    BY <1>1 DEF Greedies, Rows
  <2> QED
    BY <1>1, <1>3, <1>4, <2>1 DEF Types
<1>8. RowsFit'
  BY <1>1, <1>3, <1>4, SameConfig DEF RowsFit
<1>9. Fresh'
  BY <1>1, <1>3, <1>4 DEF Fresh, Rows
<1>10. RowsInStep'
  <2>1. SUFFICES ASSUME NEW t \in Seqs
                 PROVE  /\ status'[t] = "active" => Len(seq'[t].tokens) \in Below
                        /\ status'[t] \in Running /\ Verified(t)' => InStep(t, seq[t])'
    BY DEF RowsInStep
  <2>2. CASE t = s
    BY <1>1, <1>4, <1>5, <2>2, SameConfig DEF Running
  <2>3. CASE t # s
    <3>1. Verified(t)' <=> Verified(t)
      BY <1>6, <2>3 DEF Verified
    <3> QED
      BY <1>1, <1>3, <1>4, <2>3, <3>1, SameConfig DEF RowsInStep
  <2> QED
    BY <2>2, <2>3
<1>11. StepInv'
  <2>1. /\ ~config'.offline /\ config'.spec /\ Rows' = Rows
    BY <1>1 DEF Rows
  <2>2. /\ Active \subseteq step.batch /\ step.batch \subseteq Rows /\ Rows \subseteq Seqs
        /\ step.guess \in [step.batch -> Guess] /\ DOMAIN step.result \subseteq step.batch
        /\ \A t \in DOMAIN step.result : status[t] \in {"active", "completed"}
        /\ \A t \in step.batch \ DOMAIN step.result :
             status[t] = "active" /\ Pending(t, seq[t], step.at, step.guess[t])
    BY <1>1, ConfigFacts DEF Stepping
  <2>3. Active' \subseteq step'.batch
    <3>1. ASSUME NEW t \in Active' PROVE t \in step.batch
      <4>1. t \in Rows /\ status'[t] = "active"
        BY <1>1 DEF Active, Rows
      <4>2. t = s \/ t \in Active
        BY <1>4, <2>2, <4>1 DEF Active
      <4> QED
        BY <1>1, <2>2, <4>2
    <3> QED
      BY <1>6, <3>1
  <2>4. ASSUME NEW t \in step'.batch \ DOMAIN step'.result
        PROVE  status'[t] = "active" /\ Pending(t, seq[t], step.at, step.guess[t])'
    <3>1. t # s /\ t \in step.batch \ DOMAIN step.result /\ t \in Seqs
      BY <1>6, <2>2, <2>4
    <3>2. seq'[t] = seq[t] /\ status'[t] = status[t] /\ step'.guess[t] = step.guess[t]
      BY <1>4, <1>6, <3>1
    <3>3. Pending(t, seq'[t], step'.at, step'.guess[t])
      BY <1>1, <1>6, <2>2, <3>1, <3>2
    <3> QED
      BY <1>1, <2>2, <3>1, <3>2, <3>3, SamePending
  <2>5. ASSUME NEW t \in DOMAIN step'.result PROVE status'[t] \in {"active", "completed"}
    <3>1. t = s \/ (t # s /\ t \in DOMAIN step.result /\ t \in Seqs)
      BY <1>1, <1>6, <2>2
    <3> QED
      BY <1>4, <2>2, <3>1
  <2>6. /\ step'.at = "verify" /\ step'.batch \subseteq Rows
        /\ step'.guess \in [step'.batch -> Guess]
        /\ DOMAIN step'.result \subseteq step'.batch
        /\ step'.result \in [DOMAIN step'.result -> Seq(Token)]
    BY <1>1, <1>6, <2>2
  <2>7. step' \in [at : {"target", "verify"}, batch : {step'.batch},
                    guess : {step'.guess}, result : {step'.result}]
    BY <1>6
  <2>8. Stepping'
    BY <2>1, <2>3, <2>4, <2>5, <2>6, <2>7 DEF Stepping
  <2> QED
    BY <2>8 DEF StepInv
<1>12. Lockstep'
  BY <1>1 DEF Lockstep
<1> QED
  BY <1>7, <1>8, <1>9, <1>10, <1>11, <1>12 DEF IInv

-----------------------------------------------------------------------------
(* The steps of the Generator                                              *)

(* What a row gets. *)
NewTokens(s, out) == IF status[s] = "finished" THEN Repeat(Filler, Len(out[s])) ELSE out[s]

LEMMA OfflineIdle ==
  ASSUME IInv, config.offline
  PROVE  step = Idle /\ step.batch = {} /\ config \in Configs /\ Rows \subseteq Seqs
<1>1. step = Idle
  BY DEF IInv, StepInv, Stepping
<1>2. config \in Configs
  BY SMTT(30) DEF IInv, Types
<1> QED
  BY <1>1, <1>2, ConfigFacts DEF Idle

LEMMA PostprocessInv ==
  ASSUME IInv, config.offline, NEW out, NEW rows, Postprocess(out, rows),
         \A s \in Rows : seq'[s] \in SeqRec /\ Fits(s, seq'[s]) /\ InStep(s, seq'[s]),
         \A s, t \in Rows : Len(seq'[s].tokens) = Len(seq'[t].tokens)
  PROVE  IInv'
<1>1. /\ step = Idle /\ config \in Configs /\ Rows \subseteq Seqs
      /\ config' = config /\ greedy' = greedy /\ step' = step /\ config'.offline
      /\ Rows' = Rows
  BY OfflineIdle DEF Postprocess, Rows
<1>2. /\ seq \in [Seqs -> SeqRec] /\ sent \in [Seqs -> Seq(Entry)]
      /\ status \in [Seqs -> Statuses] /\ greedy \in Greedies
      /\ RowsFit /\ Fresh /\ RowsInStep
  BY DEF IInv, Types
<1>3. /\ \A s \in Seqs : s \notin Rows => seq'[s] = seq[s]
      /\ seq' = [s \in Seqs |-> IF s \in Rows
           THEN [rows[s] EXCEPT !.tokens = @ \o NewTokens(s, out), !.next = Len(NewTokens(s, out))]
           ELSE seq[s]]
      /\ sent' = [s \in Seqs |-> seq'[s].tokens]
      /\ status' = [s \in Seqs |->
           IF s \notin Rows THEN status[s]
           ELSE IF status[s] = "finished" \/ StopNow(seq'[s].tokens, Len(NewTokens(s, out)))
           THEN "finished" ELSE "active"]
  BY ZenonT(30) DEF Postprocess, NewTokens
<1>4. \A s \in Seqs : seq'[s] \in SeqRec
  BY <1>2, <1>3
<1>5. \A s \in Seqs : seq'[s].tokens \in Seq(Entry)
  BY <1>4, SMTT(30) DEF SeqRec
<1>6. /\ \A s \in Rows : status'[s] \in {"active", "finished"}
      /\ \A s \in Seqs : s \notin Rows => status'[s] = status[s]
  BY <1>1, <1>3
<1>7. \A s \in Seqs : status'[s] \in Statuses
  BY <1>2, <1>6 DEF Statuses
<1>8. Types'
  <2>1. Greedies' = Greedies
    BY <1>1, SMTT(30) DEF Greedies
  <2>2. seq' \in [Seqs -> SeqRec]
    BY <1>3, <1>4, ZenonT(30)
  <2>3. sent' \in [Seqs -> Seq(Entry)]
    BY <1>3, <1>5
  <2>4. status' \in [Seqs -> Statuses]
    BY <1>3, <1>7, ZenonT(30)
  <2> QED
    BY <1>1, <1>2, <2>1, <2>2, <2>3, <2>4 DEF Types
<1>9. RowsFit'
  BY <1>1, <1>2, <1>3, SameConfig DEF RowsFit
<1>10. Fresh'
  <2>1. ASSUME NEW s \in Seqs, s \notin Rows
        PROVE  seq'[s] = NoSeq /\ sent'[s] = <<>> /\ status'[s] = "new"
    <3>1. status[s] = "new" /\ seq[s] = NoSeq
      BY <1>2, <2>1, SMTT(30) DEF Fresh
    <3>2. NoSeq.tokens = <<>>
      BY DEF NoSeq
    <3>3. sent'[s] = seq'[s].tokens
      BY <1>3
    <3> QED
      BY <1>3, <1>6, <2>1, <3>1, <3>2, <3>3
  <2>2. \A s \in Seqs : status'[s] = "new" => s \notin Rows
    BY <1>6
  <2> QED
    BY <1>1, <2>1, <2>2, SMTT(30) DEF Fresh
<1>11. RowsInStep'
  <2>1. ASSUME NEW s \in Seqs
        PROVE  /\ status'[s] = "active" => Len(seq'[s].tokens) \in Below
               /\ status'[s] \in Running => InStep(s, seq[s])'
    <3>1. CASE s \in Rows
      <4>1. ASSUME status'[s] = "active" PROVE Len(seq'[s].tokens) \in Below
        <5>1. ~StopNow(seq'[s].tokens, Len(NewTokens(s, out)))
          BY <1>3, <3>1, <4>1
        <5>2. ~(Len(seq'[s].tokens) >= MaxNewTokens)
          BY <5>1 DEF StopNow, StopIfMaxLen
        <5>3. Len(seq'[s].tokens) \in Nat
          BY <1>5
        <5> QED
          BY <5>2, <5>3, LenType
      <4>2. InStep(s, seq[s])'
        BY <1>1, <3>1, SameConfig
      <4> QED
        BY <4>1, <4>2, SMTT(30)
    <3>2. CASE s \notin Rows
      BY <1>2, <1>6, <3>2 DEF Fresh, Running
    <3> QED
      BY <3>1, <3>2, SMTT(30)
  <2> QED
    BY <2>1 DEF RowsInStep
<1>12. StepInv'
  BY <1>1 DEF StepInv, Idle
<1>13. Lockstep'
  BY <1>1, <1>6 DEF Lockstep, Phase, Running
<1> QED
  BY <1>8, <1>9, <1>10, <1>11, <1>12, <1>13, SMTT(30) DEF IInv

IsGenerated(s, inputs, q, x, r) ==
  r = [GenerateForward(s, inputs, q) EXCEPT !.tokens = @ \o x, !.next = Len(x)]

(* The row of a Generator without speculation, after a forward. *)
LEMMA GenerateRow ==
  ASSUME NEW s \in Seqs, config \in Configs, ~config.spec,
         NEW q \in SeqRec, Len(q.tokens) \in Below, q.draft = <<>>, q.dnc = 0,
         NEW inputs \in Seq(Cell), NEW c, Holds(Lead(s), q.target, q.nc, c),
         Joins(c, inputs, KnownOf(s, q)),
         NEW x \in Seq(Entry), Len(x) = 1,
         NEW r, IsGenerated(s, inputs, q, x, r)
  PROVE  /\ r \in SeqRec /\ InStep(s, r) /\ Fits(s, r)
         /\ r.tokens = q.tokens \o x /\ Len(r.tokens) = Len(q.tokens) + 1
<1> DEFINE l == Lead(s)
           k == KnownOf(s, q)
           target == q.target
           nc == q.nc
           tokens == q.tokens
           new == tokens \o x
           after == target \o inputs
           n == nc + Len(inputs)
<1>1. tokens \in Seq(Entry) /\ target \in Seq(Cell) /\ nc \in Nat /\ l \in Nat
  BY LeadType DEF SeqRec
<1>2. k \in Seq(Cell)
  BY <1>1, KnownFacts
<1>3. Holds(l, target, nc, c) /\ Joins(c, inputs, k) /\ Len(tokens) \in Below
  OBVIOUS
<1>4. r = [GenerateForward(s, inputs, q) EXCEPT !.tokens = new, !.next = Len(x)]
  BY DEF IsGenerated, GenerateForward, SeqRec
<1>5. GenerateForward(s, inputs, q) = [q EXCEPT !.target = after, !.nc = n]
  BY DEF GenerateForward
<1> HIDE DEF l, k, target, nc, new, after, n
<1>6. new \in Seq(Entry) /\ Len(new) = Len(tokens) + 1
  <2>1. new \in Seq(Entry) /\ Len(new) = Len(tokens) + Len(x)
    BY <1>1, ConcatType DEF new
  <2> QED
    BY <2>1
<1>7. after \in Seq(Cell) /\ n \in Nat
  BY <1>1, ConcatType DEF after, n
<1>8. /\ r \in SeqRec /\ r.tokens = new /\ r.target = after /\ r.nc = n
      /\ r.draft = <<>> /\ r.dnc = 0
  <2>1. Len(x) \in Nat /\ <<>> \in Seq(Cell) /\ 0 \in Nat
    OBVIOUS
  <2>2. r = [tokens |-> new, target |-> after, nc |-> n, draft |-> q.draft,
             dnc |-> q.dnc, next |-> Len(x)]
    <3>1. q \in SeqRec
      OBVIOUS
    <3> HIDE DEF tokens
    <3> QED
      BY <1>4, <1>5, <3>1 DEF SeqRec
  <2>3. r = [tokens |-> new, target |-> after, nc |-> n, draft |-> <<>>,
             dnc |-> 0, next |-> Len(x)]
    BY <2>2
  <2>4. r.tokens = new /\ r.target = after /\ r.nc = n /\ r.draft = <<>> /\ r.dnc = 0
    BY <2>3
  <2> HIDE DEF tokens
  <2>5. r \in SeqRec
    BY <1>6, <1>7, <2>1, <2>3 DEF SeqRec
  <2> QED
    BY <2>4, <2>5
<1>9. KnownOf(s, r) = k \o x /\ x \in Seq(Cell)
  <2>1. r.tokens = q.tokens \o x
    BY <1>8 DEF new
  <2> QED
    BY <1>1, <2>1, KnownGrows DEF k
<1>10. Holds(l, after, n, Drop(k \o x, 1))
  <2> HIDE DEF tokens
  <2>1. k = c \o inputs
    BY <1>3 DEF Joins
  <2> QED
    BY <1>1, <1>2, <1>3, <1>9, <2>1, ForwardHolds DEF after, n
<1>11. r.tokens # <<>>
  <2>1. Len(x) > 0
    OBVIOUS
  <2>2. tokens \o x # <<>>
    BY <1>1, <2>1, NonEmptyConcat
  <2> QED
    BY <1>8, <2>2 DEF new
<1>12. InStep(s, r)
  <2>1. Holds(Lead(s), r.target, r.nc, Drop(KnownOf(s, r), 1))
    BY <1>8, <1>9, <1>10 DEF l
  <2>2. DraftInStep(s, r)
    BY <1>8 DEF DraftInStep
  <2> QED
    BY <1>11, <2>1, <2>2 DEF InStep
<1>13. Len(r.tokens) \in Reach
  BY <1>3, <1>6, <1>8, LenType
<1>14. Fits(s, r)
  BY <1>8, <1>12, <1>13, InStepFits
<1> QED
  BY <1>6, <1>8, <1>12, <1>14 DEF new

(* A row q whose target has seen all but the inputs of what is known. *)
Lacks(s, q, inputs, c) ==
  /\ inputs \in Seq(Cell) /\ Holds(Lead(s), q.target, q.nc, c)
  /\ Joins(c, inputs, KnownOf(s, q))

Generating(s, q, inputs) ==
  /\ q \in SeqRec /\ Len(q.tokens) \in Below /\ q.draft = <<>> /\ q.dnc = 0
  /\ \E c : Lacks(s, q, inputs, c)

LEMMA NewTokensFacts ==
  ASSUME NEW s, NEW out, out[s] \in Seq(Token), NEW n \in Nat, Len(out[s]) = n
  PROVE  NewTokens(s, out) \in Seq(Entry) /\ Len(NewTokens(s, out)) = n
<1>1. CASE status[s] = "finished"
  <2>1. Filler \in Entry
    BY DEF Entry
  <2> QED
    BY <1>1, <2>1, RepeatFacts DEF NewTokens
<1>2. CASE status[s] # "finished"
  <2>1. Token \subseteq Entry
    BY DEF Entry
  <2>2. out[s] \in Seq(Entry)
    BY <2>1, SeqSub
  <2> QED
    BY <1>2, <2>2 DEF NewTokens
<1> QED
  BY <1>1, <1>2

GenerateTakes(inputs, rows, out) ==
  /\ out \in [Rows -> [1 .. 1 -> Token]]
  /\ \A s \in Rows : IF status[s] = "finished" THEN out[s] = <<Eos>>
       ELSE out[s] \in Sampled(s, rows[s].target, rows[s].nc, inputs[s], 1)
  /\ Postprocess(out, [s \in Rows |-> GenerateForward(s, inputs[s], rows[s])])

LEMMA GenerateRows ==
  ASSUME IInv, config.offline, ~config.spec, NEW inputs, NEW rows,
         NEW out, GenerateTakes(inputs, rows, out),
         NEW s \in Rows, Generating(s, rows[s], inputs[s])
  PROVE  /\ seq'[s] \in SeqRec /\ Fits(s, seq'[s]) /\ InStep(s, seq'[s])
         /\ out[s] \in Seq(Token) /\ Len(out[s]) = 1
         /\ seq'[s].tokens = rows[s].tokens \o NewTokens(s, out)
         /\ Len(seq'[s].tokens) = Len(rows[s].tokens) + 1
<1> DEFINE q == rows[s]
           i == inputs[s]
           x == NewTokens(s, out)
           r == [GenerateForward(s, i, q) EXCEPT !.tokens = @ \o x, !.next = Len(x)]
<1>1. s \in Seqs /\ config \in Configs
  BY OfflineIdle
<1>2. out[s] \in Seq(Token) /\ Len(out[s]) = 1
  <2>1. out[s] \in [1 .. 1 -> Token] /\ 1 \in Nat
    BY DEF GenerateTakes
  <2> QED
    BY <2>1, SeqFacts
<1>3. x \in Seq(Entry) /\ Len(x) = 1
  BY <1>2, NewTokensFacts
<1>4. seq'[s] = r
  <2>1. Postprocess(out, [t \in Rows |-> GenerateForward(t, inputs[t], rows[t])])
    BY DEF GenerateTakes
  <2>2. seq' = [t \in Seqs |-> IF t \in Rows
           THEN [[u \in Rows |-> GenerateForward(u, inputs[u], rows[u])][t] EXCEPT
                   !.tokens = @ \o NewTokens(t, out), !.next = Len(NewTokens(t, out))]
           ELSE seq[t]]
    BY <2>1 DEF Postprocess, NewTokens
  <2>3. [u \in Rows |-> GenerateForward(u, inputs[u], rows[u])][s] = GenerateForward(s, i, q)
    OBVIOUS
  <2> QED
    BY <1>1, <2>2, <2>3
<1>5. IsGenerated(s, i, q, x, r)
  BY DEF IsGenerated
<1>6. /\ q \in SeqRec /\ Len(q.tokens) \in Below /\ q.draft = <<>> /\ q.dnc = 0
      /\ \E c : Lacks(s, q, i, c)
  BY DEF Generating
<1> HIDE DEF q, i, x, r
<1>7. PICK c : i \in Seq(Cell) /\ Holds(Lead(s), q.target, q.nc, c) /\ Joins(c, i, KnownOf(s, q))
  BY <1>6 DEF Lacks
<1>8. /\ r \in SeqRec /\ InStep(s, r) /\ Fits(s, r)
      /\ r.tokens = q.tokens \o x /\ Len(r.tokens) = Len(q.tokens) + 1
  BY <1>1, <1>3, <1>5, <1>6, <1>7, GenerateRow
<1> QED
  BY <1>2, <1>4, <1>8 DEF q, x

LEMMA GenerateInv ==
  ASSUME IInv, config.offline, ~config.spec, NEW inputs, NEW rows, Generate(inputs, rows),
         \A s \in Rows : Generating(s, rows[s], inputs[s]),
         \A s, t \in Rows : Len(rows[s].tokens) = Len(rows[t].tokens)
  PROVE  IInv'
<1>1. PICK out : GenerateTakes(inputs, rows, out)
  BY DEF Generate, GenerateTakes
<1>2. ASSUME NEW s \in Rows
      PROVE  /\ seq'[s] \in SeqRec /\ Fits(s, seq'[s]) /\ InStep(s, seq'[s])
             /\ Len(seq'[s].tokens) = Len(rows[s].tokens) + 1
  BY <1>1, GenerateRows
<1>3. \A s, t \in Rows : Len(seq'[s].tokens) = Len(seq'[t].tokens)
  BY <1>2
<1>4. Postprocess(out, [s \in Rows |-> GenerateForward(s, inputs[s], rows[s])])
  BY <1>1 DEF GenerateTakes
<1> QED
  BY <1>2, <1>3, <1>4, PostprocessInv

LEMMA GeneratePrefillRows ==
  ASSUME IInv, config.offline, ~config.spec, NEW s \in Rows
  PROVE  /\ Generating(s, [NoSeq EXCEPT !.target = Padding(s)], Prompt(s))
         /\ Holds(Lead(s), Padding(s), 0, <<>>)
<1> DEFINE q == [NoSeq EXCEPT !.target = Padding(s)]
<1>1. s \in Seqs /\ config \in Configs
  BY OfflineIdle
<1>2. Holds(Lead(s), Padding(s), 0, <<>>)
  BY <1>1, HoldsPadding
<1>3. Padding(s) \in Seq(Cell) /\ Prompt(s) \in Seq(Cell)
  BY <1>1, <1>2, PromptFacts DEF Holds
<1>4. /\ q \in SeqRec /\ q.tokens = <<>> /\ q.draft = <<>> /\ q.dnc = 0 /\ q.nc = 0
      /\ q.target = Padding(s)
  <2>1. NoSeq \in SeqRec
    BY <1>1, NoSeqFacts
  <2>2. q \in SeqRec /\ q.target = Padding(s)
    BY <1>3, <2>1 DEF SeqRec
  <2>3. q.tokens = <<>> /\ q.draft = <<>> /\ q.dnc = 0 /\ q.nc = 0
    BY DEF NoSeq
  <2> QED
    BY <2>2, <2>3
<1>5. KnownOf(s, q) = Prompt(s)
  BY <1>3, <1>4, ConcatEmptySeq DEF KnownOf
<1>6. <<>> \o Prompt(s) = Prompt(s)
  BY <1>3, ConcatEmptySeq
<1> HIDE DEF q
<1>7. Lacks(s, q, Prompt(s), <<>>)
  BY <1>2, <1>3, <1>4, <1>5, <1>6 DEF Lacks, Joins
<1>8. Len(q.tokens) \in Below
  BY <1>4, LenType DEF Below
<1>9. Generating(s, q, Prompt(s))
  BY <1>4, <1>7, <1>8 DEF Generating
<1> QED
  BY <1>2, <1>9 DEF q

LEMMA GeneratePrefillInv ==
  ASSUME IInv, GeneratePrefill
  PROVE  IInv'
<1> DEFINE inputs == [s \in Rows |-> Prompt(s)]
           rows == [s \in Rows |-> [NoSeq EXCEPT !.target = Padding(s)]]
<1>1. config.offline /\ ~config.spec /\ Generate(inputs, rows)
  BY DEF GeneratePrefill
<1>2. \A s \in Rows : /\ rows[s] = [NoSeq EXCEPT !.target = Padding(s)]
                      /\ inputs[s] = Prompt(s) /\ rows[s].tokens = <<>>
  BY DEF NoSeq
<1>3. \A s \in Rows : Generating(s, [NoSeq EXCEPT !.target = Padding(s)], Prompt(s))
  BY <1>1, GeneratePrefillRows
<1>4. \A s \in Rows : Generating(s, rows[s], inputs[s])
  BY <1>2, <1>3
<1>5. \A s, t \in Rows : Len(rows[s].tokens) = Len(rows[t].tokens)
  BY <1>2
<1> HIDE DEF inputs, rows
<1> QED
  BY <1>1, <1>4, <1>5, GenerateInv

LEMMA GenerateStepRows ==
  ASSUME IInv, config.offline, Active # {}, NEW s \in Rows
  PROVE  /\ InStep(s, seq[s]) /\ seq[s] \in SeqRec /\ Len(seq[s].tokens) \in Below
         /\ status[s] \in Running /\ s \in Seqs /\ config \in Configs
         /\ \A t \in Rows : Len(seq[s].tokens) = Len(seq[t].tokens)
         /\ Known(s) = KnownOf(s, seq[s])
<1>1. s \in Seqs /\ config \in Configs /\ step = Idle /\ Rows \subseteq Seqs
  BY OfflineIdle
<1>2. PICK t \in Rows : status[t] = "active"
  BY DEF Active
<1>3. Phase(status[s]) = Phase(status[t]) /\ Len(seq[s].tokens) = Len(seq[t].tokens)
  BY <1>2 DEF IInv, Lockstep
<1>4. status[s] \in Running
  <2>1. status[t] \in Running
    BY <1>2 DEF Running
  <2>2. Phase(status[s]) = "running"
    BY <1>3, <2>1 DEF Phase
  <2>3. status[s] # "running"
    <3>1. status[s] \in Statuses
      BY <1>1 DEF IInv, Types
    <3> QED
      BY <3>1 DEF Statuses
  <2> QED
    BY <2>2, <2>3 DEF Phase
<1>5. InStep(s, seq[s]) /\ Len(seq[t].tokens) \in Below
  BY <1>1, <1>2, <1>4 DEF IInv, RowsInStep, Verified, Idle
<1>6. seq[s] \in SeqRec
  BY <1>1 DEF IInv, Types
<1>7. \A u \in Rows : Len(seq[s].tokens) = Len(seq[u].tokens)
  BY DEF IInv, Lockstep
<1> QED
  BY <1>1, <1>3, <1>4, <1>5, <1>6, <1>7 DEF Known, KnownOf

LEMMA GenerateStepRow ==
  ASSUME IInv, config.offline, ~config.spec, Active # {}, NEW s \in Rows
  PROVE  Generating(s, seq[s], Last_(Known(s), 1))
<1> DEFINE q == seq[s]
           k == KnownOf(s, q)
<1>1. InStep(s, q) /\ q \in SeqRec /\ Len(q.tokens) \in Below /\ s \in Seqs /\ Known(s) = k
  BY GenerateStepRows
<1>2. k \in Seq(Cell) /\ k # <<>>
  BY <1>1, KnownFacts DEF SeqRec
<1>3. /\ Holds(Lead(s), q.target, q.nc, Drop(k, 1))
      /\ q.draft = <<>> /\ q.dnc = 0
  BY <1>1 DEF InStep, DraftInStep
<1>4. Known(s) = k /\ k = KnownOf(s, q)
  BY <1>1
<1> HIDE DEF q, k
<1>5. Drop(k, 1) \o Last_(k, 1) = k /\ Last_(k, 1) \in Seq(Cell)
  BY <1>2, SplitLast
<1>6. Lacks(s, q, Last_(Known(s), 1), Drop(k, 1))
  BY <1>3, <1>4, <1>5 DEF Lacks, Joins
<1> QED
  BY <1>1, <1>3, <1>6 DEF Generating, q

LEMMA GenerateStepInv ==
  ASSUME IInv, GenerateStep
  PROVE  IInv'
<1> DEFINE inputs == [s \in Rows |-> Last_(Known(s), 1)]
           rows == [s \in Rows |-> seq[s]]
<1>1. config.offline /\ ~config.spec /\ Active # {} /\ Generate(inputs, rows)
  BY DEF GenerateStep
<1>2. \A s \in Rows : Generating(s, seq[s], Last_(Known(s), 1))
  BY <1>1, GenerateStepRow
<1>3. \A s \in Rows : rows[s] = seq[s] /\ inputs[s] = Last_(Known(s), 1)
  OBVIOUS
<1>4. \A s \in Rows : Generating(s, rows[s], inputs[s])
  BY <1>2, <1>3
<1>5. \A s, t \in Rows : Len(rows[s].tokens) = Len(rows[t].tokens)
  BY <1>1, <1>3, GenerateStepRows
<1> HIDE DEF inputs, rows
<1> QED
  BY <1>1, <1>4, <1>5, GenerateInv

-----------------------------------------------------------------------------
(* The Generator with speculation                                          *)

(* The row that a round leaves of q after forwards of the target and draft *)
(* with these inputs.                                                      *)
IsRound(q, target, draft, accepted, r) ==
  r = [DraftVerified([q EXCEPT
         !.target = Drop(@ \o target, TargetTrim(accepted)),
         !.nc = @ + Len(target) - TargetTrim(accepted),
         !.draft = @ \o draft, !.dnc = @ + Len(draft)]) EXCEPT
         !.tokens = @ \o accepted, !.next = Len(accepted)]

LEMMA RoundFields ==
  ASSUME NEW q \in SeqRec, NEW target \in Seq(Cell), NEW draft \in Seq(Cell),
         NEW accepted \in Seq(Token), NEW r, IsRound(q, target, draft, accepted, r)
  PROVE  /\ Trimmed(r, q.target \o target, q.nc + Len(target),
                    q.draft \o draft, q.dnc + Len(draft), accepted)
         /\ r.tokens = q.tokens \o accepted /\ r.next = Len(accepted)
         /\ r.nc \in Nat /\ r.dnc \in Nat /\ r.target \in Seq(Cell) /\ r.draft \in Seq(Cell)
              => r \in SeqRec
<1> DEFINE trim == TargetTrim(accepted)
           grown == q.target \o target
           count == q.nc + Len(target)
           t == Drop(q.target \o target, trim)
           nc == q.nc + Len(target) - trim
           d == q.draft \o draft
           dnc == q.dnc + Len(draft)
           after == [q EXCEPT !.target = t, !.nc = nc, !.draft = d, !.dnc = dnc]
           x == q.tokens \o accepted
           n == Len(accepted)
<1>1. r = [DraftVerified(after) EXCEPT !.tokens = @ \o accepted, !.next = Len(accepted)]
  BY DEF IsRound
<1>3. after = [q EXCEPT !.target = t, !.nc = nc, !.draft = d, !.dnc = dnc]
  OBVIOUS
<1> DEFINE verified == DraftVerified(after)
           e == Drop(d, D - 1)
           enc == dnc - (D - 1)
<1>a. verified = [after EXCEPT !.draft = Drop(@, D - 1), !.dnc = @ - (D - 1)]
  BY DEF DraftVerified
<1>b. r = [verified EXCEPT !.tokens = @ \o accepted, !.next = n]
  BY <1>1
<1> HIDE DEF after, verified, t, nc, d, dnc, n
<1>c. after = [tokens |-> q.tokens, target |-> t, nc |-> nc, draft |-> d,
               dnc |-> dnc, next |-> q.next]
  BY <1>3 DEF SeqRec
<1>d. after.draft = d /\ after.dnc = dnc
  BY <1>c
<1>e. verified = [after EXCEPT !.draft = e, !.dnc = enc]
  BY <1>a, <1>d
<1> HIDE DEF e, enc
<1>f. verified = [tokens |-> q.tokens, target |-> t, nc |-> nc, draft |-> e,
                  dnc |-> enc, next |-> q.next]
  BY <1>c, <1>e
<1>g. verified.tokens = q.tokens
  BY <1>f
<1>h. r = [verified EXCEPT !.tokens = x, !.next = n]
  BY <1>b, <1>g
<1> HIDE DEF x
<1>5. r = [tokens |-> x, target |-> t, nc |-> nc, draft |-> e, dnc |-> enc, next |-> n]
  BY <1>f, <1>h
<1>6. /\ r.tokens = x /\ r.target = t /\ r.nc = nc /\ r.draft = e
      /\ r.dnc = enc /\ r.next = n
  BY <1>5
<1>7. Trimmed(r, grown, count, d, dnc, accepted)
  <2>a. t = Drop(grown, trim)
    BY DEF t
  <2>b. nc = count - trim
    <3>1. q.nc \in Nat /\ Len(target) \in Nat
      BY DEF SeqRec
    <3>2. trim \in Int
      BY LenType DEF TargetTrim
    <3> HIDE DEF trim
    <3> QED
      BY <3>1, <3>2 DEF nc, count
  <2> HIDE DEF grown, count
  <2>1. r.target = Drop(grown, TargetTrim(accepted))
    BY <1>6, <2>a
  <2>2. r.nc = count - TargetTrim(accepted)
    BY <1>6, <2>b
  <2>3. r.draft = Drop(d, D - 1)
    BY <1>6 DEF e
  <2>4. r.dnc = dnc - (D - 1)
    BY <1>6 DEF enc
  <2> QED
    BY <2>1, <2>2, <2>3, <2>4 DEF Trimmed
<1>8. x \in Seq(Entry) /\ n \in Nat
  <2>1. accepted \in Seq(Entry)
    BY SeqSub DEF Entry
  <2>2. q.tokens \in Seq(Entry)
    BY DEF SeqRec
  <2> QED
    BY <2>1, <2>2, ConcatType DEF x, n
<1>9. ASSUME r.nc \in Nat, r.dnc \in Nat, r.target \in Seq(Cell), r.draft \in Seq(Cell)
      PROVE  r \in SeqRec
  BY <1>5, <1>6, <1>8, <1>9 DEF SeqRec
<1> QED
  BY <1>6, <1>7, <1>9 DEF x, n, grown, count, d, dnc

LEMMA SpeculateRow ==
  ASSUME NEW s \in Seqs, config \in Configs, config.spec, config.offline,
         NEW q \in SeqRec, Len(q.tokens) \in Below, NEW g \in Guess,
         NEW ti \in Seq(Cell), NEW c, Holds(Lead(s), q.target, q.nc, c),
         Joins(c, ti, KnownOf(s, q)),
         NEW di \in Seq(Cell), NEW e, Holds(Lead(s), q.draft, q.dnc, e),
         Joins(e, di, KnownOf(s, q)),
         NEW out, NEW accepted, NEW n \in Accepts, Accept(g, out, accepted, n),
         NEW r, IsRound(q, ti \o g, PrepareDraftInput(di), accepted, r)
  PROVE  /\ r \in SeqRec /\ Fits(s, r) /\ InStep(s, r)
         /\ r.tokens = q.tokens \o accepted
<1> DEFINE target == ti \o g
           draft == PrepareDraftInput(di)
           t == q.target \o target
           nc == q.nc + Len(target)
           d == q.draft \o draft
           dnc == q.dnc + Len(draft)
           k == KnownOf(s, q)
<1>1. /\ q.tokens \in Seq(Entry) /\ q.nc \in Nat /\ q.dnc \in Nat /\ Lead(s) \in Nat
  BY LeadType DEF SeqRec
<1>j. Joins(c, ti, k) /\ Joins(e, di, k)
  OBVIOUS
<1>2. /\ target \in Seq(Cell) /\ Len(target) = Len(ti) + D
      /\ Holds(Lead(s), t, nc, k \o g)
  <2> DEFINE l == Lead(s)
             u == q.target
             v == q.nc
  <2>1. Holds(l, u, v, c) /\ v \in Nat /\ l \in Nat
    BY <1>1
  <2> HIDE DEF k, l, u, v
  <2>2. /\ ti \o g \in Seq(Cell) /\ Len(ti \o g) = Len(ti) + D
        /\ Holds(l, u \o (ti \o g), v + Len(ti \o g), k \o g)
    <3>1. ti \o g \in Seq(Cell)
      BY <1>j, <2>1, TargetForward
    <3>2. Len(ti \o g) = Len(ti) + D
      <4>1. g \in Seq(Cell) /\ Len(g) = D
        BY GuessFacts
      <4>2. Len(ti \o g) = Len(ti) + Len(g)
        BY <4>1, ConcatType
      <4> QED
        BY <4>1, <4>2
    <3>3. Holds(l, u \o (ti \o g), v + Len(ti \o g), k \o g)
      BY <1>j, <2>1, TargetForward
    <3> QED
      BY <3>1, <3>2, <3>3
  <2> QED
    BY <2>2 DEF l, u, v
<1>3. /\ draft \in Seq(Cell) /\ Holds(Lead(s), d, dnc, k \o Repeat(Filler, D - 1))
  <2> DEFINE l == Lead(s)
             u == q.draft
             v == q.dnc
  <2>1. Holds(l, u, v, e) /\ v \in Nat /\ l \in Nat
    BY <1>1
  <2> HIDE DEF k, l, u, v
  <2>2. /\ PrepareDraftInput(di) \in Seq(Cell)
        /\ Holds(l, u \o PrepareDraftInput(di), v + Len(PrepareDraftInput(di)),
                 k \o Repeat(Filler, D - 1))
    BY <1>j, <2>1, DraftForward
  <2> QED
    BY <2>2 DEF l, u, v
<1>4. accepted \in Seq(Token) /\ Len(accepted) = n + 1
  BY DEF Accept
<1>5. IsRound(q, target, draft, accepted, r)
  OBVIOUS
<1> HIDE DEF target, draft
<1>6. /\ Trimmed(r, t, nc, d, dnc, accepted)
      /\ r.tokens = q.tokens \o accepted /\ r.next = Len(accepted)
      /\ r.nc \in Nat /\ r.dnc \in Nat /\ r.target \in Seq(Cell) /\ r.draft \in Seq(Cell)
              => r \in SeqRec
  BY <1>2, <1>3, <1>4, <1>5, RoundFields
<1>7. k \in Seq(Cell)
  BY <1>1, KnownFacts
<1>8. nc \in Nat /\ dnc \in Nat
  <2>1. Len(target) \in Nat /\ Len(draft) \in Nat
    BY <1>2, <1>3
  <2> QED
    BY <1>1, <2>1
<1> HIDE DEF t, nc, d, dnc
<1>9. r \in SeqRec
  BY <1>2, <1>3, <1>6, <1>7, <1>8, RoundCaches
<1>10. Len(r.tokens) <= LenBound
  <2>1. accepted \in Seq(Entry)
    BY <1>4, SeqSub DEF Entry
  <2>2. Len(r.tokens) = Len(q.tokens) + (n + 1)
    BY <1>1, <1>4, <1>6, <2>1, ConcatType
  <2>3. Len(q.tokens) \in 0 .. MaxNewTokens - 1 /\ n \in 0 .. D /\ MaxNewTokens \in Nat /\ D \in Nat
    BY LenType DEF Below, Accepts
  <2>4. LenBound = MaxNewTokens + D
    BY DEF LenBound
  <2> DEFINE a == Len(q.tokens)
             b == Len(r.tokens)
  <2>5. b = a + (n + 1) /\ a \in 0 .. MaxNewTokens - 1
    BY <2>2, <2>3
  <2> HIDE DEF a, b
  <2>6. b <= MaxNewTokens + D
    BY <2>3, <2>5
  <2> QED
    BY <2>4, <2>6 DEF b
<1>11. NextIs(r, accepted)
  BY <1>6 DEF NextIs
<1> HIDE DEF k
<1>12. Fits(s, r) /\ InStep(s, r)
  BY <1>1, <1>2, <1>3, <1>6, <1>8, <1>9, <1>10, <1>11, RoundDone DEF k
<1> QED
  BY <1>6, <1>9, <1>12

(* A row q before a round: what its caches lack of the known tokens.  *)
Speculating(s, q, ti, inputs) ==
  /\ q \in SeqRec /\ Len(q.tokens) \in Below
  /\ ti = IF q.tokens = <<>> THEN inputs ELSE Last_(inputs, 1)
  /\ ti \in Seq(Cell) /\ inputs \in Seq(Cell)
  /\ \E c : Holds(Lead(s), q.target, q.nc, c) /\ Joins(c, ti, KnownOf(s, q))
  /\ \E e : Holds(Lead(s), q.draft, q.dnc, e) /\ Joins(e, inputs, KnownOf(s, q))

(* What the round makes of it. *)
SpeculateTakes(s, q, ti, guess, out, accepted, n, rows) ==
  /\ guess \in Guess /\ out \in Choice /\ n \in Accepts
  /\ out \in Sampled(s, q.target, q.nc, ti \o guess, D + 1)
  /\ Accept(guess, out, accepted, n)
  /\ Postprocess([t \in Rows |-> accepted], rows)
  /\ seq'[s] \in SeqRec /\ Fits(s, seq'[s]) /\ InStep(s, seq'[s])
  /\ seq'[s].tokens = q.tokens \o accepted

LEMMA SpeculateRows ==
  ASSUME IInv, config.offline, config.spec, NEW s \in Rows, status[s] # "finished",
         NEW q, NEW ti, NEW inputs, Speculating(s, q, ti, inputs),
         SpeculateRound(s, inputs, q)
  PROVE  \E guess, out, accepted, n, rows :
           SpeculateTakes(s, q, ti, guess, out, accepted, n, rows)
<1>1. s \in Seqs /\ config \in Configs
  BY OfflineIdle
<1>2. /\ q \in SeqRec /\ Len(q.tokens) \in Below
      /\ ti = IF q.tokens = <<>> THEN inputs ELSE Last_(inputs, 1)
      /\ ti \in Seq(Cell) /\ inputs \in Seq(Cell)
      /\ \E c : Holds(Lead(s), q.target, q.nc, c) /\ Joins(c, ti, KnownOf(s, q))
      /\ \E e : Holds(Lead(s), q.draft, q.dnc, e) /\ Joins(e, inputs, KnownOf(s, q))
  BY DEF Speculating
<1>3. PICK c : Holds(Lead(s), q.target, q.nc, c) /\ Joins(c, ti, KnownOf(s, q))
  BY <1>2
<1>4. PICK e : Holds(Lead(s), q.draft, q.dnc, e) /\ Joins(e, inputs, KnownOf(s, q))
  BY <1>2
<1> DEFINE Round(guess, out) ==
             LET target == (IF q.tokens = <<>> THEN inputs ELSE Last_(inputs, 1)) \o guess
                 draft == PrepareDraftInput(inputs)
                 accepted == Accepted(guess, out)
                 trim == TargetTrim(accepted)
                 after == [q EXCEPT
                   !.target = Drop(@ \o target, trim), !.nc = @ + Len(target) - trim,
                   !.draft = @ \o draft, !.dnc = @ + Len(draft)]
             IN /\ out \in Sampled(s, q.target, q.nc, target, D + 1)
                /\ Postprocess([t \in Rows |-> accepted], [t \in Rows |-> DraftVerified(after)])
<1>5. PICK guess \in [1 .. D -> Token] : \E out : Round(guess, out)
  BY DEF SpeculateRound
<1>6. PICK out : Round(guess, out)
  BY <1>5
<1> DEFINE target == ti \o guess
           draft == PrepareDraftInput(inputs)
           accepted == Accepted(guess, out)
           after == [q EXCEPT
                   !.target = Drop(@ \o target, TargetTrim(accepted)),
                   !.nc = @ + Len(target) - TargetTrim(accepted),
                   !.draft = @ \o draft, !.dnc = @ + Len(draft)]
           rows == [t \in Rows |-> DraftVerified(after)]
<1>7. /\ out \in Sampled(s, q.target, q.nc, target, D + 1)
      /\ Postprocess([t \in Rows |-> accepted], rows)
  BY <1>2, <1>6
<1> HIDE DEF Round
<1>8. guess \in Guess /\ out \in Choice
  BY <1>5, <1>7, SampledType DEF Guess, Choice
<1>9. PICK n \in Accepts : Accept(guess, out, accepted, n)
  BY <1>8, AcceptExists
<1>10. IsRound(q, target, draft, accepted, seq'[s])
  <2> DEFINE all == [t \in Rows |-> accepted]
  <2>1. seq'[s] = [rows[s] EXCEPT !.tokens = @ \o NewTokens(s, all), !.next = Len(NewTokens(s, all))]
    <3> HIDE DEF rows, all
    <3>1. Postprocess(all, rows)
      BY <1>7 DEF all
    <3>2. seq' = [t \in Seqs |-> IF t \in Rows
           THEN [rows[t] EXCEPT !.tokens = @ \o NewTokens(t, all), !.next = Len(NewTokens(t, all))]
           ELSE seq[t]]
      BY <3>1 DEF Postprocess, NewTokens
    <3> QED
      BY <1>1, <3>2
  <2>2. all[s] = accepted
    OBVIOUS
  <2>3. NewTokens(s, all) = accepted
    BY <2>2 DEF NewTokens
  <2>4. rows[s] = DraftVerified(after)
    OBVIOUS
  <2> HIDE DEF rows, all
  <2>5. seq'[s] = [DraftVerified(after) EXCEPT !.tokens = @ \o accepted, !.next = Len(accepted)]
    BY <2>1, <2>3, <2>4
  <2> QED
    BY <2>5 DEF IsRound
<1> HIDE DEF accepted, rows, after, draft
<1>11. /\ seq'[s] \in SeqRec /\ Fits(s, seq'[s]) /\ InStep(s, seq'[s])
       /\ seq'[s].tokens = q.tokens \o accepted
  BY <1>1, <1>2, <1>3, <1>4, <1>8, <1>9, <1>10, SpeculateRow DEF draft
<1>12. SpeculateTakes(s, q, ti, guess, out, accepted, n, rows)
  BY <1>7, <1>8, <1>9, <1>11 DEF SpeculateTakes
<1> QED
  BY <1>12

LEMMA SpeculateRoundInv ==
  ASSUME IInv, config.offline, config.spec, NEW s \in Rows, status[s] # "finished",
         NEW q, NEW ti, NEW inputs, Speculating(s, q, ti, inputs),
         SpeculateRound(s, inputs, q)
  PROVE  IInv'
<1>1. PICK guess, out, accepted, n, rows :
         SpeculateTakes(s, q, ti, guess, out, accepted, n, rows)
  BY SpeculateRows
<1>2. \A t \in Rows : t = s
  <2>1. config \in Configs
    BY OfflineIdle
  <2>2. PICK t \in Seqs : Rows = {t}
    BY <2>1, ConfigFacts
  <2> QED
    BY <2>2
<1> DEFINE all == [t \in Rows |-> accepted]
<1>3. /\ Postprocess(all, rows)
      /\ seq'[s] \in SeqRec /\ Fits(s, seq'[s]) /\ InStep(s, seq'[s])
  BY <1>1 DEF SpeculateTakes
<1> HIDE DEF all
<1>4. \A t \in Rows : seq'[t] \in SeqRec /\ Fits(t, seq'[t]) /\ InStep(t, seq'[t])
  BY <1>2, <1>3
<1>5. \A t, u \in Rows : Len(seq'[t].tokens) = Len(seq'[u].tokens)
  BY <1>2
<1> QED
  BY <1>3, <1>4, <1>5, PostprocessInv

LEMMA SpeculatePrefillRow ==
  ASSUME IInv, config.offline, NEW s \in Rows
  PROVE  Speculating(s, [NoSeq EXCEPT !.target = Padding(s), !.draft = Padding(s)],
                     Prompt(s), Prompt(s))
<1> DEFINE q == [NoSeq EXCEPT !.target = Padding(s), !.draft = Padding(s)]
<1>1. s \in Seqs /\ config \in Configs
  BY OfflineIdle
<1>2. Holds(Lead(s), Padding(s), 0, <<>>)
  BY <1>1, HoldsPadding
<1>3. Padding(s) \in Seq(Cell) /\ Prompt(s) \in Seq(Cell)
  BY <1>1, <1>2, PromptFacts DEF Holds
<1>4. /\ q \in SeqRec /\ q.tokens = <<>> /\ q.draft = Padding(s) /\ q.dnc = 0 /\ q.nc = 0
      /\ q.target = Padding(s)
  <2>1. NoSeq \in SeqRec
    BY <1>1, NoSeqFacts
  <2>2. q \in SeqRec /\ q.target = Padding(s) /\ q.draft = Padding(s)
    BY <1>3, <2>1 DEF SeqRec
  <2>3. q.tokens = <<>> /\ q.dnc = 0 /\ q.nc = 0
    BY DEF NoSeq
  <2> QED
    BY <2>2, <2>3
<1>5. KnownOf(s, q) = Prompt(s)
  BY <1>3, <1>4, ConcatEmptySeq DEF KnownOf
<1>6. <<>> \o Prompt(s) = Prompt(s)
  BY <1>3, ConcatEmptySeq
<1> HIDE DEF q
<1>7. /\ Holds(Lead(s), q.target, q.nc, <<>>) /\ Holds(Lead(s), q.draft, q.dnc, <<>>)
      /\ Joins(<<>>, Prompt(s), KnownOf(s, q))
  BY <1>2, <1>4, <1>5, <1>6 DEF Joins
<1>8. Len(q.tokens) \in Below
  BY <1>4, LenType DEF Below
<1>9. Speculating(s, q, Prompt(s), Prompt(s))
  BY <1>3, <1>4, <1>7, <1>8 DEF Speculating
<1> QED
  BY <1>9 DEF q

LEMMA SpeculatePrefillInv ==
  ASSUME IInv, SpeculatePrefill
  PROVE  IInv'
<1>1. config.offline /\ config.spec
  BY DEF SpeculatePrefill
<1>2. PICK s \in Rows :
         /\ status[s] = "new"
         /\ SpeculateRound(s, Prompt(s),
                           [NoSeq EXCEPT !.target = Padding(s), !.draft = Padding(s)])
  BY DEF SpeculatePrefill
<1> QED
  BY <1>1, <1>2, SpeculatePrefillRow, SpeculateRoundInv

LEMMA SpeculateStepRow ==
  ASSUME IInv, config.offline, config.spec, NEW s \in Active
  PROVE  /\ Speculating(s, seq[s], Last_(Known(s), 1), Last_(Known(s), seq[s].next))
         /\ s \in Rows /\ status[s] # "finished" /\ s \in Seqs
<1> DEFINE q == seq[s]
           k == KnownOf(s, q)
           m == Len(k) - q.dnc
<1>1. s \in Rows /\ status[s] = "active" /\ Active # {}
  BY DEF Active
<1>2. /\ InStep(s, q) /\ q \in SeqRec /\ Len(q.tokens) \in Below /\ s \in Seqs
      /\ Known(s) = k /\ config \in Configs
  BY <1>1, GenerateStepRows
<1>3. /\ q.tokens # <<>> /\ q.dnc \in Nat /\ q.next \in Nat /\ q.tokens \in Seq(Entry)
      /\ Holds(Lead(s), q.target, q.nc, Drop(k, 1))
      /\ q.dnc < Len(k)
      /\ Holds(Lead(s), q.draft, q.dnc, First(k, q.dnc))
      /\ q.dnc + q.next = Len(k)
  BY <1>2 DEF InStep, DraftInStep, SeqRec
<1>4. k \in Seq(Cell) /\ Len(k) \in Nat /\ k # <<>>
  BY <1>2, <1>3, KnownFacts
<1>5. /\ Joins(Drop(k, 1), Last_(k, 1), k)
      /\ Last_(k, 1) \in Seq(Cell)
      /\ Joins(First(k, q.dnc), Last_(k, m), k)
      /\ Last_(k, m) \in Seq(Cell)
  BY <1>2, InStepLacks
<1> DEFINE dnc == q.dnc
           next == q.next
<1>6. m = next /\ next > 0 /\ next <= Len(k)
  <2>1. dnc \in Nat /\ next \in Nat /\ dnc < Len(k) /\ dnc + next = Len(k) /\ m = Len(k) - dnc
    BY <1>3
  <2> HIDE DEF dnc, next, m
  <2> QED
    BY <1>4, <2>1
<1>7. Last_(k, 1) = Last_(Last_(k, next), 1)
  <2> HIDE DEF k, next
  <2>1. next \in 0 .. Len(k) /\ next \in Nat /\ 1 \in 0 .. Len(k)
    BY <1>3, <1>4, <1>6 DEF next
  <2> DEFINE u == Last_(k, next)
  <2>2. u \in Seq(Cell) /\ Len(u) = next /\ \A i \in 1 .. next : u[i] = k[Len(k) - next + i]
    BY <1>4, <2>1, LastFacts
  <2> HIDE DEF u
  <2>3. 1 \in 0 .. Len(u)
    BY <1>6, <2>1, <2>2
  <2>4. Last_(u, 1) \in Seq(Cell) /\ Len(Last_(u, 1)) = 1 /\ \A i \in 1 .. 1 : Last_(u, 1)[i] = u[Len(u) - 1 + i]
    BY <2>2, <2>3, LastFacts
  <2>5. Last_(k, 1) \in Seq(Cell) /\ Len(Last_(k, 1)) = 1 /\ \A i \in 1 .. 1 : Last_(k, 1)[i] = k[Len(k) - 1 + i]
    BY <1>4, <2>1, LastFacts
  <2>6. Last_(u, 1)[1] = u[next]
    BY <2>1, <2>2, <2>4
  <2>7. u[next] = k[Len(k)]
    BY <1>4, <1>6, <2>1, <2>2
  <2>8. Last_(k, 1)[1] = k[Len(k)]
    BY <1>4, <2>5
  <2>9. \A i \in 1 .. 1 : Last_(k, 1)[i] = Last_(u, 1)[i]
    BY <2>6, <2>7, <2>8
  <2> QED
    BY <2>4, <2>5, <2>9, SeqEqual DEF u
<1> DEFINE ti == Last_(k, 1)
           inputs == Last_(k, next)
<1>8. /\ Joins(First(k, q.dnc), inputs, k) /\ inputs \in Seq(Cell)
  BY <1>5, <1>6
<1>9. ti = IF q.tokens = <<>> THEN inputs ELSE Last_(inputs, 1)
  BY <1>3, <1>7
<1>10. /\ Joins(Drop(k, 1), ti, k) /\ ti \in Seq(Cell)
  BY <1>5
<1> DEFINE rest == Drop(k, 1)
           start == First(k, q.dnc)
<1>11. /\ Holds(Lead(s), q.target, q.nc, rest) /\ Joins(rest, ti, KnownOf(s, q))
       /\ Holds(Lead(s), q.draft, q.dnc, start) /\ Joins(start, inputs, KnownOf(s, q))
  BY <1>3, <1>8, <1>10
<1>12. Known(s) = k
  BY <1>2
<1> HIDE DEF ti, inputs, rest, start, q
<1>13. Speculating(s, q, ti, inputs)
  BY <1>2, <1>8, <1>9, <1>10, <1>11 DEF Speculating
<1> QED
  BY <1>1, <1>2, <1>12, <1>13 DEF ti, inputs, q

LEMMA SpeculateStepInv ==
  ASSUME IInv, SpeculateStep
  PROVE  IInv'
<1>1. config.offline /\ config.spec
  BY DEF SpeculateStep
<1>2. PICK s \in Active : SpeculateRound(s, Last_(Known(s), seq[s].next), seq[s])
  BY DEF SpeculateStep
<1> QED
  BY <1>1, <1>2, SpeculateStepRow, SpeculateRoundInv

(* generate ends, with the texts or with an exception. *)
LEMMA GeneratorEnds ==
  ASSUME IInv, config.offline, NEW end \in {"completed", "failed"},
         status' = [s \in Seqs |-> IF s \in Rows THEN end ELSE status[s]],
         UNCHANGED <<config, greedy, seq, sent, step>>
  PROVE  IInv'
<1>1. /\ config \in Configs /\ step = Idle /\ Rows \subseteq Seqs
      /\ config' = config /\ greedy' = greedy /\ step' = step /\ seq' = seq /\ sent' = sent
      /\ Rows' = Rows
  BY OfflineIdle DEF Rows
<1>2. /\ seq \in [Seqs -> SeqRec] /\ sent \in [Seqs -> Seq(Entry)]
      /\ status \in [Seqs -> Statuses] /\ greedy \in Greedies
  BY DEF IInv, Types
<1>3. RowsFit /\ Fresh /\ RowsInStep /\ Lockstep
  BY DEF IInv
<1>4. Types'
  <2>1. Greedies' = Greedies
    BY <1>1 DEF Greedies
  <2> QED
    BY <1>1, <1>2, <2>1 DEF Types, Statuses
<1>5. RowsFit'
  BY <1>1, <1>3, SameConfig DEF RowsFit
<1>6. Fresh'
  BY <1>1, <1>3 DEF Fresh
<1>7. RowsInStep'
  <2>1. \A s \in Seqs : s \in Rows => status'[s] \notin Running /\ status'[s] # "active"
    BY DEF Running
  <2>2. \A s \in Seqs : s \notin Rows => status'[s] = "new"
    BY <1>3 DEF Fresh
  <2>3. \A s \in Seqs : status'[s] \notin Running /\ status'[s] # "active"
    BY <2>1, <2>2 DEF Running
  <2> QED
    BY <2>3 DEF RowsInStep, Running
<1>8. StepInv' /\ Lockstep'
  <2>1. \A s \in Rows : status'[s] = end
    BY <1>1
  <2>2. Lockstep'
    BY <1>1, <1>3, <2>1 DEF Lockstep, Phase
  <2> QED
    BY <1>1, <2>2 DEF StepInv, Idle
<1> QED
  BY <1>4, <1>5, <1>6, <1>7, <1>8 DEF IInv

LEMMA GeneratorEndsInv ==
  ASSUME IInv, GenerateReturns \/ GenerateFails
  PROVE  IInv'
BY GeneratorEnds DEF GenerateReturns, GenerateFails

LEMMA StutterInv ==
  ASSUME IInv, UNCHANGED vars
  PROVE  IInv'
<1>1. /\ config' = config /\ greedy' = greedy /\ seq' = seq /\ sent' = sent
      /\ status' = status /\ step' = step /\ Active' = Active /\ Rows' = Rows
  BY DEF vars, Active, Rows
<1>2. Types' /\ Fresh' /\ Lockstep'
  BY <1>1 DEF IInv, Types, Fresh, Lockstep, Greedies
<1>3. RowsFit'
  BY <1>1, SameConfig DEF IInv, RowsFit
<1>4. RowsInStep'
  BY <1>1, SameConfig DEF IInv, RowsInStep, Verified
<1>5. StepInv'
  <2>1. CASE step = Idle
    BY <1>1, <2>1 DEF StepInv, Idle
  <2>2. CASE Stepping
    BY <1>1, <2>2, SamePending DEF StepInv, Stepping
  <2> QED
    BY <2>1, <2>2 DEF IInv, StepInv
<1> QED
  BY <1>2, <1>3, <1>4, <1>5 DEF IInv

(* Every step keeps the invariant. *)
LEMMA NextInv == IInv /\ [Next]_vars => IInv'
<1> SUFFICES ASSUME IInv, [Next]_vars
             PROVE  IInv'
  OBVIOUS
<1>1. ASSUME NEW s \in Seqs, Prefill(s) PROVE IInv'
  BY <1>1, PrefillInv
<1>2. ASSUME NEW s \in Seqs, PrefillFails(s) PROVE IInv'
  BY <1>2, PrefillFailsInv
<1>3. ASSUME NEW s \in Seqs, Verify(s) PROVE IInv'
  BY <1>3, VerifyInv
<1>4. CASE StandardDecode
  BY <1>4, StandardDecodeInv
<1>5. CASE Draft
  BY <1>5, DraftInv
<1>6. CASE Target
  BY <1>6, TargetInv
<1>7. CASE StepAnswered
  BY <1>7, StepAnsweredInv
<1>8. CASE DecodeFails
  BY <1>8, DecodeFailsInv
<1>9. CASE GeneratePrefill
  BY <1>9, GeneratePrefillInv
<1>10. CASE GenerateStep
  BY <1>10, GenerateStepInv
<1>11. CASE SpeculatePrefill
  BY <1>11, SpeculatePrefillInv
<1>12. CASE SpeculateStep
  BY <1>12, SpeculateStepInv
<1>13. CASE GenerateReturns \/ GenerateFails
  BY <1>13, GeneratorEndsInv
<1>14. CASE UNCHANGED vars
  BY <1>14, StutterInv
<1> QED
  BY <1>1, <1>2, <1>3, <1>4, <1>5, <1>6, <1>7, <1>8, <1>9, <1>10, <1>11, <1>12, <1>13, <1>14
     DEF Next

(* The invariant holds of every reachable state. *)
LEMMA Invariant == Spec => []IInv
<1>1. Init => IInv
  BY InitInv
<1>2. IInv /\ [Next]_vars => IInv'
  BY NextInv
<1> QED
  BY <1>1, <1>2, PTL DEF Spec

-----------------------------------------------------------------------------
(* Types, caches and their room                                            *)

LEMMA TypesFollow == IInv => TypeOK
<1> SUFFICES ASSUME IInv
             PROVE  TypeOK
  OBVIOUS
<1>1. config \in Configs
  BY DEF IInv, Types
<1>2. ASSUME NEW s \in Seqs
      PROVE  /\ seq[s].tokens \in Seq(Token \union {Filler})
             /\ Len(seq[s].tokens) <= MaxNewTokens + IF config.offline THEN D ELSE 0
             /\ seq[s].nc \in 0 .. Len(seq[s].target)
             /\ seq[s].dnc \in 0 .. Len(seq[s].draft)
             /\ status[s] \in {"new", "active", "finished", "completed", "failed"}
  <2>1. seq[s] \in SeqRec /\ Fits(s, seq[s]) /\ status[s] \in Statuses
    BY DEF IInv, Types, RowsFit
  <2> DEFINE q == seq[s]
  <2>2. /\ q.tokens \in Seq(Entry) /\ q.nc \in Nat /\ q.dnc \in Nat
        /\ q.target \in Seq(Cell) /\ q.draft \in Seq(Cell)
    BY <2>1 DEF SeqRec
  <2>3. /\ Len(q.tokens) <= LenBound /\ q.nc <= Len(q.target) /\ q.dnc <= Len(q.draft)
    BY <2>1 DEF Fits
  <2>4. Len(q.target) \in Nat /\ Len(q.draft) \in Nat
    BY <2>2
  <2> QED
    BY <2>1, <2>2, <2>3, <2>4 DEF Entry, LenBound, Statuses
<1>3. step.at \in {"idle", "target", "verify"} /\ step.batch \subseteq Seqs
  <2>1. CASE step = Idle
    BY <2>1 DEF Idle
  <2>2. CASE Stepping
    <3>1. Rows \subseteq Seqs
      BY <1>1, ConfigFacts
    <3> QED
      BY <2>2, <3>1 DEF Stepping
  <2> QED
    BY <2>1, <2>2 DEF IInv, StepInv
<1> QED
  BY <1>1, <1>2, <1>3 DEF TypeOK

LEMMA SeenHeld ==
  ASSUME NEW l \in Nat, Packed(l), NEW cache, NEW n \in Nat, NEW c, Holds(l, cache, n, c)
  PROVE  Seen(cache, n, <<>>) = c
<1> DEFINE none == <<>>
<1>1. none \in Seq(Cell) /\ c \in Seq(Cell)
  BY DEF Holds
<1> HIDE DEF none
<1>2. Seen(cache, n, none) = c \o none
  BY <1>1, HoldsSeen
<1> QED
  BY <1>1, <1>2, ConcatEmptySeq DEF none

LEMMA InStepFollows == IInv => CachesInStep
<1> SUFFICES ASSUME IInv, step = Idle, NEW s \in Active
             PROVE  /\ Seen(seq[s].target, seq[s].nc, <<>>) = Drop(Known(s), 1)
                    /\ config.spec =>
                         /\ seq[s].dnc < Len(Known(s))
                         /\ Seen(seq[s].draft, seq[s].dnc, <<>>) = First(Known(s), seq[s].dnc)
                         /\ config.offline => seq[s].dnc + seq[s].next = Len(Known(s))
  BY DEF CachesInStep
<1> DEFINE q == seq[s]
           k == KnownOf(s, q)
           l == Lead(s)
           rest == Drop(k, 1)
           start == First(k, q.dnc)
           target == q.target
           nc == q.nc
           draft == q.draft
           dnc == q.dnc
<1>1. config \in Configs /\ s \in Seqs /\ s \in Rows /\ status[s] = "active"
  BY ConfigFacts DEF Active, IInv, Types
<1>2. q \in SeqRec /\ InStep(s, q)
  BY <1>1 DEF IInv, Types, RowsInStep, Running, Verified, Idle
<1>3. l \in Nat /\ Packed(l) /\ nc \in Nat /\ dnc \in Nat /\ Known(s) = k
  BY <1>1, <1>2, LeadType DEF SeqRec, Known, KnownOf
<1>4. Holds(l, target, nc, rest)
  BY <1>2 DEF InStep
<1>5. config.spec => /\ dnc < Len(k) /\ Holds(l, draft, dnc, start)
                     /\ config.offline => dnc + q.next = Len(k)
  BY <1>2 DEF InStep, DraftInStep
<1> HIDE DEF q, k, l, rest, start, target, nc, draft, dnc
<1>7. Seen(target, nc, <<>>) = rest
  BY <1>3, <1>4, SeenHeld
<1>8. ASSUME Holds(l, draft, dnc, start) PROVE Seen(draft, dnc, <<>>) = start
  BY <1>3, <1>8, SeenHeld
<1> QED
  BY <1>3, <1>5, <1>7, <1>8 DEF q, k, rest, start, target, nc, draft, dnc

LEMMA RoomFollows == IInv => CachesHaveRoom
<1> SUFFICES ASSUME IInv, NEW s \in Rows
             PROVE  /\ ~config.offline => Len(seq[s].tokens) <= MaxNewTokens
                    /\ Len(seq[s].target) <= TargetRoom(s) /\ Len(seq[s].draft) <= DraftRoom(s)
                    /\ config.offline /\ config.spec /\ status[s] = "active" =>
                         /\ Len(seq[s].target) + D + 1 <= TargetRoom(s)
                         /\ Len(seq[s].draft) + seq[s].next + D - 1 <= DraftRoom(s)
  BY DEF CachesHaveRoom
<1>1. config \in Configs /\ s \in Seqs
  BY ConfigFacts DEF IInv, Types
<1>2. Len(seq[s].target) <= TargetRoom(s) /\ Len(seq[s].draft) <= DraftRoom(s)
  BY <1>1 DEF IInv, RowsFit, Fits
<1>3. ASSUME config.offline, config.spec, status[s] = "active"
      PROVE  /\ Len(seq[s].target) + D + 1 <= TargetRoom(s)
             /\ Len(seq[s].draft) + seq[s].next + D - 1 <= DraftRoom(s)
  <2> DEFINE q == seq[s]
             k == KnownOf(s, q)
             p == PromptLen[s]
             n == Len(q.tokens)
             l == Lead(s)
             dnc == q.dnc
             next == q.next
             target == Len(q.target)
             draft == Len(q.draft)
  <2>1. /\ Active # {} /\ s \in Rows
    BY <1>3 DEF Active
  <2>2. /\ InStep(s, q) /\ q \in SeqRec /\ n \in Below
    BY <1>3, <2>1, GenerateStepRows
  <2>3. Len(q.tokens) \in Reach
    BY <1>3, <2>2, LenType DEF Below, Reach
  <2>4. /\ target = l + (p + n - 1) /\ draft = l + dnc
    BY <1>1, <1>3, <2>2, <2>3, InStepFits
  <2>5. /\ dnc \in Nat /\ next \in Nat /\ dnc + next = Len(k)
        /\ q.tokens \in Seq(Entry)
    BY <1>3, <2>2 DEF InStep, DraftInStep, SeqRec
  <2>6. Len(k) = p + n /\ p \in Nat
    BY <1>1, <2>5, KnownFacts
  <2>7. l \in Nat /\ l + p <= InputLen(s) /\ InputLen(s) \in Nat
    BY <1>1, LeadType
  <2>8. n \in Nat /\ n < MaxNewTokens /\ MaxNewTokens \in Nat /\ D \in Nat /\ D > 0
    BY <2>2, LenType
  <2>9. /\ InputLen(s) + MaxNewTokens + D <= TargetRoom(s)
        /\ InputLen(s) + MaxNewTokens + 2 * D <= DraftRoom(s)
        /\ TargetRoom(s) \in Nat /\ DraftRoom(s) \in Nat
    <3>1. /\ TargetRoom(s) = InputLen(s) + MaxNewTokens + (IF config.paged THEN D ELSE D + 1)
          /\ DraftRoom(s) = InputLen(s) + MaxNewTokens + (IF config.paged THEN D ELSE 0) + 2 * D
      BY <1>3 DEF TargetRoom, DraftRoom
    <3> QED
      BY <2>7, <2>8, <3>1
  <2> HIDE DEF q, k, p, n, l, dnc, next, target, draft
  <2>10. target + D + 1 <= TargetRoom(s) /\ draft + next + D - 1 <= DraftRoom(s)
    BY <2>4, <2>5, <2>6, <2>7, <2>8, <2>9
  <2> QED
    BY <2>10 DEF target, draft, next, q
<1>4. ASSUME ~config.offline PROVE Len(seq[s].tokens) <= MaxNewTokens
  <2>1. Len(seq[s].tokens) <= MaxNewTokens + 0 /\ MaxNewTokens \in Nat
    BY <1>1, <1>4, TypesFollow, LenType DEF TypeOK
  <2> QED
    BY <2>1
<1> QED
  BY <1>2, <1>3, <1>4

(* Configurations, tokens, counters and phases of the engine and of the    *)
(* Generator are what the code declares, and no text gets longer than the  *)
(* limit but for the last round of the Generator.                          *)
THEOREM DecodingTypeCorrect == Spec => []TypeOK
BY Invariant, TypesFollow, PTL

(* Between two rounds the target has seen all known tokens but the last    *)
(* and the draft those it will not be given again: rejected guesses, PARD  *)
(* tokens and padding are gone, whatever was guessed and accepted.         *)
THEOREM CachesStayInStep == Spec => []CachesInStep
BY Invariant, InStepFollows, PTL

(* The max_seq_length the caches are created with is enough for every      *)
(* prompt, number of guesses and length of a text, in and between rounds.  *)
THEOREM CachesAlwaysHaveRoom == Spec => []CachesHaveRoom
BY Invariant, RoomFollows, PTL

-----------------------------------------------------------------------------
(* The texts                                                               *)

(* Up to the end of the text, q is the greedy text. *)
Along(s, q) == \A i \in 1 .. Len(q) : i <= Len(Whole(s)) => q[i] = greedy[s][i]

(* x is the greedy text after t, beyond its end if need be. *)
Continues(s, t, x) == \A i \in 1 .. Len(x) : x[i] = greedy[s][Len(t) + i]

EosAfterMin ==
  \A s \in Rows, i \in 1 .. MaxNewTokens + D : i <= config.min => greedy[s][i] # Eos

LEMMA LastConcat ==
  ASSUME NEW S, NEW q \in Seq(S), NEW r \in Seq(S)
  PROVE  Last_(q \o r, Len(r)) = r
<1> DEFINE u == q \o r
           n == Len(r)
<1>1. u \in Seq(S) /\ Len(u) = Len(q) + n /\ n \in Nat /\ Len(q) \in Nat
  BY ConcatType
<1>2. n \in 0 .. Len(u)
  <2> HIDE DEF u, n
  <2> QED
    BY <1>1
<1>3. \A i \in 1 .. n : u[Len(q) + i] = r[i]
  <2> SUFFICES ASSUME NEW i \in 1 .. n PROVE u[Len(q) + i] = r[i]
    OBVIOUS
  <2> QED
    BY ConcatRight
<1> HIDE DEF u, n
<1>4. /\ Last_(u, n) \in Seq(S) /\ Len(Last_(u, n)) = n
      /\ \A i \in 1 .. n : Last_(u, n)[i] = u[Len(u) - n + i]
  BY <1>1, <1>2, LastFacts
<1>5. \A i \in 1 .. n : Last_(u, n)[i] = r[i]
  <2> SUFFICES ASSUME NEW i \in 1 .. n PROVE Last_(u, n)[i] = r[i]
    OBVIOUS
  <2>1. Len(u) - n + i = Len(q) + i
    BY <1>1
  <2> QED
    BY <1>3, <1>4, <2>1
<1>6. Len(r) = n
  BY DEF n
<1> QED
  BY <1>4, <1>5, <1>6, SeqEqual DEF u, n

(* Text t goes on with x: it is greedy still, and the stopping criteria    *)
(* tell whether it has come to its end.                                    *)
LEMMA TextGrows ==
  ASSUME NEW s \in Rows, greedy \in Greedies, config \in Configs, EosAfterMin,
         NEW t \in Seq(Entry), Along(s, t), Len(t) < Len(Whole(s)),
         NEW x \in Seq(Token), Continues(s, t, x)
  PROVE  /\ Along(s, t \o x)
         /\ StopNow(t \o x, Len(x)) <=> Len(t \o x) >= Len(Whole(s))
<1> DEFINE m == Len(t)
           n == Len(x)
           u == t \o x
           w == Len(Whole(s))
           g == greedy[s]
<1>1. x \in Seq(Entry) /\ m \in Nat /\ n \in Nat
  BY SeqSub DEF Entry
<1>2. u \in Seq(Entry) /\ Len(u) = m + n
  BY <1>1, ConcatType
<1>3. \A i \in 1 .. m : u[i] = t[i]
  <2> SUFFICES ASSUME NEW i \in 1 .. Len(t) PROVE (t \o x)[i] = t[i]
    OBVIOUS
  <2> QED
    BY <1>1, ConcatLeft
<1>4. \A i \in 1 .. n : u[m + i] = x[i]
  <2> SUFFICES ASSUME NEW i \in 1 .. Len(x) PROVE (t \o x)[Len(t) + i] = x[i]
    OBVIOUS
  <2> QED
    BY <1>1, ConcatRight
<1>5. Last_(u, n) = x
  BY <1>1, LastConcat
<1>6. \A i \in 1 .. n : x[i] = g[m + i]
  BY DEF Continues
<1>7. \A i \in 1 .. m : i <= w => t[i] = g[i]
  BY DEF Along
<1>8. /\ w \in 1 .. MaxNewTokens
      /\ w = MaxNewTokens \/ (~config.ignore_eos /\ g[w] = Eos)
      /\ \A k \in 1 .. MaxNewTokens :
           k = MaxNewTokens \/ (~config.ignore_eos /\ g[k] = Eos) => w <= k
  <2>1. PICK k \in 1 .. MaxNewTokens :
            /\ Len(Whole(s)) = k
            /\ k = MaxNewTokens \/ Ends(s, k)
            /\ \A j \in 1 .. MaxNewTokens : j = MaxNewTokens \/ Ends(s, j) => k <= j
    BY WholeFacts
  <2> QED
    BY <2>1 DEF Ends
<1>9. /\ config.min \in Nat /\ MaxNewTokens \in Nat /\ D \in Nat
      /\ \A i \in 1 .. MaxNewTokens + D : i <= config.min => g[i] # Eos
  BY LenType, ConfigFacts DEF EosAfterMin
<1>10. m < w
  OBVIOUS
<1>11. StopNow(u, n) <=> \/ Len(u) >= MaxNewTokens
                         \/ Len(u) >= config.min /\ ~config.ignore_eos /\ Eos \in Range(x)
  BY <1>5 DEF StopNow, StopIfMaxLen, StopIfEos
<1>12. Eos \in Range(x) <=> \E i \in 1 .. n : x[i] = Eos
  BY DEF Range
<1> HIDE DEF m, n, u, w, g
<1>13. \A i \in 1 .. Len(u) : i <= w => u[i] = g[i]
  <2> SUFFICES ASSUME NEW i \in 1 .. Len(u), i <= w PROVE u[i] = g[i]
    OBVIOUS
  <2>1. CASE i \in 1 .. m
    BY <1>3, <1>7, <2>1
  <2>2. CASE i \notin 1 .. m
    <3> DEFINE j == i - m
    <3>1. j \in 1 .. n /\ m + j = i
      BY <1>1, <1>2, <2>2
    <3> HIDE DEF j
    <3> QED
      BY <1>4, <1>6, <3>1
  <2> QED
    BY <2>1, <2>2
<1>14. ASSUME Len(u) >= w PROVE StopNow(u, n)
  <2>1. CASE Len(u) >= MaxNewTokens
    BY <1>11, <2>1
  <2>2. CASE ~(Len(u) >= MaxNewTokens)
    <3>1. ~config.ignore_eos /\ g[w] = Eos
      BY <1>2, <1>1, <1>8, <1>9, <1>14, <2>2
    <3> DEFINE j == w - m
    <3>2. j \in 1 .. n /\ m + j = w
      BY <1>1, <1>2, <1>8, <1>10, <1>14
    <3> HIDE DEF j
    <3>3. x[j] = Eos
      BY <1>6, <3>1, <3>2
    <3>4. ~(w <= config.min)
      BY <1>8, <1>9, <3>1
    <3>5. Len(u) >= config.min
      BY <1>1, <1>2, <1>8, <1>9, <1>14, <3>4
    <3> QED
      BY <1>11, <1>12, <3>1, <3>2, <3>3, <3>5
  <2> QED
    BY <2>1, <2>2
<1>15. ASSUME StopNow(u, n) PROVE Len(u) >= w
  <2>1. CASE Len(u) >= MaxNewTokens
    BY <1>1, <1>2, <1>8, <1>9, <2>1
  <2>2. CASE ~config.ignore_eos /\ Eos \in Range(x)
    <3>1. PICK i \in 1 .. n : x[i] = Eos
      BY <1>12, <2>2
    <3>2. g[m + i] = Eos
      BY <1>6, <3>1
    <3>3. CASE m + i \in 1 .. MaxNewTokens
      <4> DEFINE k == m + i
      <4>1. g[k] = Eos /\ k \in 1 .. MaxNewTokens
        BY <3>2, <3>3
      <4>2. k <= Len(u)
        BY <1>1, <1>2
      <4> HIDE DEF k
      <4>3. w <= k
        BY <1>8, <2>2, <4>1
      <4> QED
        BY <1>1, <1>2, <1>8, <4>1, <4>2, <4>3
    <3>4. CASE m + i \notin 1 .. MaxNewTokens
      BY <1>1, <1>2, <1>8, <1>9, <3>4
    <3> QED
      BY <3>3, <3>4
  <2> QED
    BY <1>11, <1>15, <2>1, <2>2
<1> QED
  BY <1>13, <1>14, <1>15 DEF Along, u, n, w, g

(* A text that goes on is a prefix of the greedy one. *)
LEMMA KnownIsText ==
  ASSUME NEW s \in Rows, s \in Seqs, greedy \in Greedies,
         NEW q, q.tokens \in Seq(Entry), Along(s, q.tokens),
         Len(q.tokens) < Len(Whole(s))
  PROVE  /\ IsText(s, Len(q.tokens), KnownOf(s, q))
         /\ Len(q.tokens) \in Below /\ Len(q.tokens) \in Offsets
<1> DEFINE t == q.tokens
           m == Len(t)
           k == KnownOf(s, q)
           p == PromptLen[s]
           w == Len(Whole(s))
<1>1. /\ k \in Seq(Cell) /\ Len(k) = p + m /\ t \in Seq(Cell) /\ p \in Nat \ {0}
  BY KnownFacts
<1>2. Prompt(s) \in Seq(Cell) /\ Len(Prompt(s)) = p /\ \A i \in 1 .. p : Prompt(s)[i] = "prompt"
  BY PromptFacts
<1>3. m \in Nat /\ w \in 1 .. MaxNewTokens /\ m < w
  <2>1. w \in 1 .. MaxNewTokens
    BY WholeFacts
  <2> QED
    BY <2>1
<1>4. \A i \in 1 .. p : k[i] = "prompt"
  <2> SUFFICES ASSUME NEW i \in 1 .. p PROVE k[i] = "prompt"
    OBVIOUS
  <2>1. i \in 1 .. Len(Prompt(s))
    BY <1>2
  <2>2. (Prompt(s) \o t)[i] = Prompt(s)[i]
    <3> HIDE DEF t
    <3> QED
      BY <1>1, <1>2, <2>1, ConcatLeft
  <2> QED
    BY <1>2, <2>2 DEF KnownOf
<1>5. \A i \in 1 .. m : k[p + i] = greedy[s][i]
  <2> SUFFICES ASSUME NEW i \in 1 .. m PROVE k[p + i] = greedy[s][i]
    OBVIOUS
  <2>1. (Prompt(s) \o t)[p + i] = t[i]
    <3> DEFINE x == p + i
    <3>1. x = Len(Prompt(s)) + i
      BY <1>2
    <3>2. i \in 1 .. Len(t)
      OBVIOUS
    <3> HIDE DEF t, x
    <3>3. (Prompt(s) \o t)[x] = t[i]
      <4>1. Prompt(s) \in Seq(Cell) /\ t \in Seq(Cell)
        BY <1>1, <1>2
      <4> DEFINE prompt == Prompt(s)
      <4> HIDE DEF prompt
      <4>2. prompt \in Seq(Cell) /\ x = Len(prompt) + i
        BY <3>1, <4>1 DEF prompt
      <4>3. (prompt \o t)[x] = t[i]
        BY <3>2, <4>1, <4>2, ConcatRight
      <4> QED
        BY <4>3, Zenon DEF prompt
    <3> QED
      BY <3>3, Zenon DEF x
  <2>2. i \in 1 .. Len(t) /\ i <= w
    BY <1>3
  <2>3. t[i] = greedy[s][i]
    BY <2>2 DEF Along
  <2> QED
    BY <2>1, <2>3 DEF KnownOf
<1>6. m \in Below /\ m \in Offsets
  <2>1. MaxNewTokens \in Nat /\ D \in Nat
    BY LenType
  <2> HIDE DEF m, w
  <2> QED
    BY <1>3, <2>1 DEF Below, Offsets
<1> QED
  BY <1>1, <1>4, <1>5, <1>6 DEF IsText

(* Where min_new_tokens is not reached, the greedy text has no EOS. *)
LEMMA NextUnmasked ==
  ASSUME NEW s \in Rows, config \in Configs, EosAfterMin,
         NEW m \in Below, m = Len(seq[s].tokens)
  PROVE  Unmasked(s, greedy[s][m + 1])
<1>1. /\ config.min \in Nat /\ MaxNewTokens \in Nat /\ D \in Nat /\ m \in Nat /\ m < MaxNewTokens
  BY LenType, ConfigFacts
<1>2. m + 1 \in 1 .. MaxNewTokens + D
  BY <1>1
<1>3. m < config.min => m + 1 <= config.min
  BY <1>1
<1> DEFINE k == m + 1
<1>4. k \in 1 .. MaxNewTokens + D /\ (m < config.min => k <= config.min)
  BY <1>2, <1>3
<1> HIDE DEF k
<1>5. m < config.min => greedy[s][k] # Eos
  BY <1>4 DEF EosAfterMin
<1> QED
  BY <1>5 DEF Unmasked, k

(* Without speculation: what is sampled for a row q goes on with its text. *)
LEMMA NextContinues ==
  ASSUME NEW s \in Rows, s \in Seqs, config \in Configs, greedy \in Greedies, EosAfterMin,
         NEW q, q.tokens \in Seq(Entry), Along(s, q.tokens),
         Len(q.tokens) < Len(Whole(s)), Len(q.tokens) = Len(seq[s].tokens),
         NEW l \in Nat, Packed(l), NEW cache, NEW n \in Nat, NEW c, Holds(l, cache, n, c),
         NEW i \in Seq(Cell), i # <<>>, Joins(c, i, KnownOf(s, q)),
         NEW out \in Sampled(s, cache, n, i, 1)
  PROVE  out \in Seq(Token) /\ Len(out) = 1 /\ Continues(s, q.tokens, out)
<1> DEFINE m == Len(q.tokens)
           k == KnownOf(s, q)
<1>1. IsText(s, m, k) /\ m \in Below /\ m \in Offsets
  BY KnownIsText
<1>2. Unmasked(s, greedy[s][m + 1])
  <2>1. m = Len(seq[s].tokens)
    OBVIOUS
  <2> HIDE DEF m
  <2> QED
    BY <1>1, <2>1, NextUnmasked
<1>3. out \in Seq(Token) /\ Len(out) = 1
  <2>1. out \in [1 .. 1 -> Token] /\ 1 \in Nat
    BY SampledType
  <2> QED
    BY <2>1, SeqFacts
<1>4. Joins(c, i, k)
  OBVIOUS
<1> HIDE DEF m, k
<1>5. out[1] = greedy[s][m + 1]
  BY <1>1, <1>2, <1>4, NextIsGreedy
<1> QED
  BY <1>3, <1>5 DEF Continues, m

(* A round: what is accepted goes on with the text, whatever was guessed. *)
LEMMA RoundContinues ==
  ASSUME NEW s \in Rows, s \in Seqs, config \in Configs, greedy \in Greedies,
         NEW q, q.tokens \in Seq(Entry), Along(s, q.tokens),
         Len(q.tokens) < Len(Whole(s)), ~(Len(seq[s].tokens) < config.min),
         NEW l \in Nat, Packed(l), NEW cache, NEW n \in Nat, NEW c, Holds(l, cache, n, c),
         NEW g \in Guess, NEW i \in Seq(Cell), Len(i) \in Beyond,
         SameContent(c, i, KnownOf(s, q), g),
         NEW out \in Sampled(s, cache, n, i, D + 1),
         NEW accepted, NEW j \in Accepts, Accept(g, out, accepted, j)
  PROVE  Continues(s, q.tokens, accepted)
<1> DEFINE m == Len(q.tokens)
           k == KnownOf(s, q)
<1>1. IsText(s, m, k) /\ m \in Below
  BY KnownIsText
<1>2. /\ AgreeTo(j, g, out)
      /\ Len(accepted) = j + 1
      /\ \A x \in 1 .. j + 1 : accepted[x] = out[x]
  BY DEF Accept, AgreeTo
<1>3. SameContent(c, i, k, g)
  OBVIOUS
<1> HIDE DEF m, k
<1>4. \A x \in 1 .. j + 1 : out[x] = greedy[s][m + x]
  BY <1>1, <1>2, <1>3, RoundIsGreedy
<1> QED
  BY <1>2, <1>4 DEF Continues, m

-----------------------------------------------------------------------------
(* Every text is a part of the greedy one                                  *)

(* Tokens t of a row, d delivered, r on their way, and its status. *)
TextRow(s, t, d, st, r) ==
  /\ Along(s, t) /\ Along(s, d)
  /\ st = "active" => Len(t) < Len(Whole(s))
  /\ st \in {"finished", "completed"} => Len(t) >= Len(Whole(s))
  /\ st # "failed" => t = d \o r

Owed(s) == IF s \in DOMAIN step.result THEN step.result[s] ELSE <<>>

TextInv ==
  EosAfterMin /\ \A s \in Rows : TextRow(s, seq[s].tokens, sent[s], status[s], Owed(s))

LEMMA SameText ==
  ASSUME UNCHANGED <<config, greedy>>, NEW s, NEW t, NEW d, NEW st, NEW r
  PROVE  /\ TextRow(s, t, d, st, r)' <=> TextRow(s, t, d, st, r)
         /\ Whole(s)' = Whole(s) /\ Rows' = Rows /\ (EosAfterMin' <=> EosAfterMin)
         /\ Along(s, t)' <=> Along(s, t)
<1>1. Whole(s)' = Whole(s) /\ Rows' = Rows
  BY DEF Whole, Rows
<1>2. EosAfterMin' <=> EosAfterMin
  BY <1>1 DEF EosAfterMin
<1>3. \A q : Along(s, q)' <=> Along(s, q)
  BY <1>1 DEF Along
<1> QED
  BY <1>1, <1>2, <1>3 DEF TextRow

(* Row by row. *)
LEMMA TextStep ==
  ASSUME TextInv, UNCHANGED <<config, greedy>>,
         \A s \in Rows : TextRow(s, seq'[s].tokens, sent'[s], status'[s], Owed(s)')
  PROVE  TextInv'
<1>1. Rows' = Rows /\ (EosAfterMin' <=> EosAfterMin)
  BY SameText
<1>2. ASSUME NEW s \in Rows
      PROVE  TextRow(s, seq[s].tokens, sent[s], status[s], Owed(s))'
  <2> DEFINE t == seq'[s].tokens
             d == sent'[s]
             st == status'[s]
             r == Owed(s)'
  <2>1. TextRow(s, t, d, st, r)
    OBVIOUS
  <2>2. Whole(s)' = Whole(s)
    BY SameText
  <2> HIDE DEF r
  <2>3. TextRow(s, seq[s].tokens, sent[s], status[s], Owed(s))'
    BY <2>1, <2>2 DEF TextRow, Along, r
  <2> QED
    BY <2>3
<1> QED
  BY <1>1, <1>2 DEF TextInv

(* A row that a step leaves alone, or gives up. *)
LEMMA RowStays ==
  ASSUME TextInv, NEW s \in Rows, seq'[s].tokens = seq[s].tokens, sent'[s] = sent[s],
         \/ status'[s] = status[s] /\ Owed(s)' = Owed(s)
         \/ status'[s] = "failed"
  PROVE  TextRow(s, seq'[s].tokens, sent'[s], status'[s], Owed(s)')
BY DEF TextInv, TextRow

(* A row that goes on. *)
LEMMA RowGrows ==
  ASSUME NEW s \in Rows, greedy \in Greedies, config \in Configs, EosAfterMin,
         NEW t \in Seq(Entry), Along(s, t), Len(t) < Len(Whole(s)),
         NEW x \in Seq(Token), Continues(s, t, x),
         NEW u, u = t \o x, NEW d, NEW r, u = d \o r, Along(s, d),
         NEW end \in {"finished", "completed"},
         NEW st, st = IF StopNow(u, Len(x)) THEN end ELSE "active"
  PROVE  TextRow(s, u, d, st, r) /\ Along(s, u)
<1>1. Along(s, u) /\ (StopNow(u, Len(x)) <=> Len(u) >= Len(Whole(s)))
  BY TextGrows
<1>2. Len(u) \in Nat /\ Len(Whole(s)) \in Nat
  <2>1. x \in Seq(Entry)
    BY SeqSub DEF Entry
  <2>2. Len(u) \in Nat
    BY <2>1, ConcatType
  <2>3. Len(Whole(s)) \in 1 .. MaxNewTokens
    BY WholeFacts
  <2> QED
    BY <2>2, <2>3
<1> QED
  BY <1>1, <1>2 DEF TextRow

LEMMA TextFacts ==
  ASSUME IInv, TextInv, NEW s \in Rows
  PROVE  /\ s \in Seqs /\ config \in Configs /\ greedy \in Greedies /\ EosAfterMin
         /\ seq[s] \in SeqRec /\ seq[s].tokens \in Seq(Entry) /\ sent[s] \in Seq(Entry)
         /\ status[s] \in Statuses
         /\ TextRow(s, seq[s].tokens, sent[s], status[s], Owed(s))
         /\ Along(s, seq[s].tokens) /\ Along(s, sent[s])
         /\ status[s] \in {"new", "active"} => Len(seq[s].tokens) < Len(Whole(s))
         /\ Len(Whole(s)) \in 1 .. MaxNewTokens
<1>1. s \in Seqs /\ config \in Configs /\ greedy \in Greedies
  BY ConfigFacts DEF IInv, Types
<1>2. seq[s] \in SeqRec /\ sent[s] \in Seq(Entry) /\ status[s] \in Statuses
  BY <1>1 DEF IInv, Types
<1>3. EosAfterMin /\ TextRow(s, seq[s].tokens, sent[s], status[s], Owed(s))
  BY DEF TextInv
<1>4. /\ Along(s, seq[s].tokens) /\ Along(s, sent[s])
      /\ status[s] = "active" => Len(seq[s].tokens) < Len(Whole(s))
  BY <1>3 DEF TextRow
<1>5. Len(Whole(s)) \in 1 .. MaxNewTokens
  BY <1>1, WholeFacts
<1>6. status[s] = "new" => Len(seq[s].tokens) < Len(Whole(s))
  <2>1. status[s] = "new" => seq[s].tokens = <<>>
    BY <1>1 DEF IInv, Fresh, NoSeq
  <2> QED
    BY <1>5, <2>1
<1>7. seq[s].tokens \in Seq(Entry)
  BY <1>2 DEF SeqRec
<1> QED
  BY <1>1, <1>2, <1>3, <1>4, <1>5, <1>6, <1>7

LEMMA InitText == Init => TextInv
<1> SUFFICES ASSUME Init
             PROVE  TextInv
  OBVIOUS
<1>1. Rows \subseteq Seqs
  BY ConfigFacts DEF Init
<1>2. EosAfterMin
  BY DEF Init, EosAfterMin
<1>3. ASSUME NEW s \in Rows
      PROVE  TextRow(s, seq[s].tokens, sent[s], status[s], Owed(s))
  <2>1. seq[s].tokens = <<>> /\ sent[s] = <<>> /\ status[s] = "new"
    BY <1>1 DEF Init, NoSeq
  <2>2. Owed(s) = <<>>
    BY DEF Init, Idle, Owed
  <2>3. Along(s, <<>>)
    BY DEF Along
  <2>4. <<>> \o <<>> = <<>>
    BY ConcatEmptySeq
  <2> QED
    BY <2>1, <2>2, <2>3, <2>4 DEF TextRow
<1> QED
  BY <1>2, <1>3 DEF TextInv

(* A step that adds no token. *)
LEMMA StaysText ==
  ASSUME TextInv, UNCHANGED <<config, greedy>>,
         \A s \in Rows : /\ seq'[s].tokens = seq[s].tokens /\ sent'[s] = sent[s]
                         /\ \/ status'[s] = status[s] /\ Owed(s)' = Owed(s)
                            \/ status'[s] = "failed"
  PROVE  TextInv'
<1>1. ASSUME NEW s \in Rows
      PROVE  TextRow(s, seq'[s].tokens, sent'[s], status'[s], Owed(s)')
  BY RowStays
<1> QED
  BY <1>1, TextStep

LEMMA PrefillText ==
  ASSUME IInv, TextInv, NEW s \in Seqs, Prefill(s)
  PROVE  TextInv'
<1>1. /\ ~config.offline /\ s \in Rows /\ step = Idle /\ status[s] = "new"
      /\ config' = config /\ greedy' = greedy /\ step' = step
      /\ seq \in [Seqs -> SeqRec] /\ sent \in [Seqs -> Seq(Entry)] /\ status \in [Seqs -> Statuses]
  BY DEF Prefill, IInv, Types
<1>2. PICK out \in Sampled(s, <<>>, 0, Prompt(s), 1) :
        /\ seq' = [seq EXCEPT ![s] =
             [tokens |-> out, target |-> Prompt(s), nc |-> PromptLen[s],
              draft |-> IF config.spec THEN Prompt(s) ELSE <<>>,
              dnc |-> IF config.spec THEN PromptLen[s] ELSE 0, next |-> 0]]
        /\ sent' = [sent EXCEPT ![s] = out]
        /\ status' = [status EXCEPT ![s] =
                        IF StopNow(out, 1) THEN "completed" ELSE "active"]
  BY DEF Prefill
<1>3. \A t \in Rows : Owed(t) = <<>> /\ Owed(t)' = <<>>
  BY <1>1 DEF Owed, Idle
<1>4. /\ s \in Seqs /\ config \in Configs /\ greedy \in Greedies /\ EosAfterMin
      /\ Len(seq[s].tokens) < Len(Whole(s))
  BY <1>1, TextFacts
<1> DEFINE q == seq[s]
           none == <<>>
<1>5. q.tokens = none
  BY <1>1 DEF IInv, Fresh, NoSeq
<1>6. /\ none \in Seq(Entry) /\ none \in Seq(Cell) /\ Along(s, none) /\ Len(none) = 0
      /\ Packed(0) /\ 0 \in Nat
  BY DEF Along, Packed
<1>7. /\ Prompt(s) \in Seq(Cell) /\ Prompt(s) # <<>>
  BY PromptFacts
<1>8. Holds(0, none, 0, none)
  BY <1>6 DEF Holds
<1>9. Joins(none, Prompt(s), KnownOf(s, q))
  <2>1. KnownOf(s, q) = Prompt(s)
    BY <1>5, <1>7, ConcatEmptySeq DEF KnownOf
  <2>2. none \o Prompt(s) = Prompt(s)
    BY <1>7, ConcatEmptySeq
  <2> QED
    BY <2>1, <2>2 DEF Joins
<1>10. Len(q.tokens) = Len(seq[s].tokens) /\ Len(q.tokens) < Len(Whole(s))
  BY <1>4
<1>11. out \in Sampled(s, none, 0, Prompt(s), 1)
  OBVIOUS
<1> HIDE DEF q, none
<1>12. out \in Seq(Token) /\ Len(out) = 1 /\ Continues(s, q.tokens, out)
  BY <1>1, <1>4, <1>5, <1>6, <1>7, <1>8, <1>9, <1>10, <1>11, NextContinues
<1>13. none \o out = out /\ out \o none = out /\ Len(none) < Len(Whole(s))
  BY <1>4, <1>5, <1>10, <1>12, ConcatEmptySeq DEF none
<1> DEFINE st == IF StopNow(out, Len(out)) THEN "completed" ELSE "active"
<1>14. TextRow(s, out, out, st, none)
  <2>1. Continues(s, none, out)
    BY <1>5, <1>12
  <2>2. Along(s, out)
    BY <1>1, <1>4, <1>6, <1>12, <1>13, <2>1, TextGrows
  <2> QED
    BY <1>1, <1>4, <1>6, <1>12, <1>13, <2>1, <2>2, RowGrows
<1>15. ASSUME NEW t \in Rows
       PROVE  TextRow(t, seq'[t].tokens, sent'[t], status'[t], Owed(t)')
  <2>1. CASE t = s
    <3>1. seq'[s].tokens = out /\ sent'[s] = out /\ status'[s] = st
      BY <1>1, <1>2, <1>12
    <3> QED
      BY <1>3, <1>14, <2>1, <3>1 DEF none
  <2>2. CASE t # s
    <3>1. t \in Seqs
      BY TextFacts
    <3>2. seq'[t] = seq[t] /\ sent'[t] = sent[t] /\ status'[t] = status[t]
      BY <1>1, <1>2, <2>2, <3>1
    <3> QED
      BY <1>3, <3>2, RowStays
  <2> QED
    BY <2>1, <2>2
<1> QED
  BY <1>1, <1>15, TextStep

(* A row whose new tokens are delivered at once. *)
LEMMA RowGrowsAtOnce ==
  ASSUME NEW s \in Rows, greedy \in Greedies, config \in Configs, EosAfterMin,
         NEW t \in Seq(Entry), Along(s, t), Len(t) < Len(Whole(s)),
         NEW x \in Seq(Token), Continues(s, t, x), NEW u, u = t \o x,
         NEW end \in {"finished", "completed"},
         NEW st, st = IF StopNow(u, Len(x)) THEN end ELSE "active"
  PROVE  TextRow(s, u, u, st, <<>>)
<1> DEFINE none == <<>>
<1>1. Along(s, u)
  BY TextGrows
<1>2. u = u \o none
  <2>1. x \in Seq(Entry)
    BY SeqSub DEF Entry
  <2>2. u \in Seq(Entry)
    BY <2>1, ConcatType
  <2> QED
    BY <2>2, ConcatEmptySeq
<1> HIDE DEF none
<1>3. TextRow(s, u, u, st, none)
  BY <1>1, <1>2, RowGrows
<1> QED
  BY <1>3 DEF none

LEMMA OneNotEmpty ==
  ASSUME NEW S, NEW q \in Seq(S), Len(q) = 1
  PROVE  q # <<>>
OBVIOUS

LEMMA StandardDecodeText ==
  ASSUME IInv, TextInv, StandardDecode
  PROVE  TextInv'
<1>1. /\ ~config.offline /\ ~config.spec /\ step = Idle
      /\ config' = config /\ greedy' = greedy /\ step' = step
      /\ seq \in [Seqs -> SeqRec]
  BY DEF StandardDecode, IInv, Types
<1>2. PICK out \in [Active -> [1 .. 1 -> Token]] :
        /\ \A s \in Active :
             out[s] \in Sampled(s, seq[s].target, seq[s].nc, Last_(Known(s), 1), 1)
        /\ seq' = [s \in Seqs |-> IF s \in Active
             THEN [seq[s] EXCEPT !.tokens = [t \in Active |-> seq[t].tokens \o out[t]][s],
                                 !.nc = @ + 1, !.target = @ \o Last_(Known(s), 1)]
             ELSE seq[s]]
        /\ sent' = [s \in Seqs |-> IF s \in Active
             THEN [t \in Active |-> seq[t].tokens \o out[t]][s] ELSE sent[s]]
        /\ status' = [s \in Seqs |->
             IF s \in Active /\ StopNow([t \in Active |-> seq[t].tokens \o out[t]][s], 1)
             THEN "completed" ELSE status[s]]
  BY DEF StandardDecode
<1>3. \A t \in Rows : Owed(t) = <<>> /\ Owed(t)' = <<>>
  BY <1>1 DEF Owed, Idle
<1>4. ASSUME NEW s \in Active
      PROVE  TextRow(s, seq'[s].tokens, sent'[s], status'[s], <<>>)
  <2> DEFINE x == out[s]
             q == seq[s]
             k == KnownOf(s, q)
             i == Last_(k, 1)
             c == Drop(k, 1)
             new == q.tokens \o x
             st == IF StopNow(new, Len(x)) THEN "completed" ELSE "active"
  <2>1. s \in Rows /\ status[s] = "active"
    BY DEF Active
  <2>2. /\ s \in Seqs /\ config \in Configs /\ greedy \in Greedies /\ EosAfterMin
        /\ q \in SeqRec /\ q.tokens \in Seq(Entry) /\ Along(s, q.tokens)
        /\ Len(q.tokens) < Len(Whole(s))
    BY <2>1, TextFacts
  <2>3. InStep(s, q)
    BY <1>1, <2>1, <2>2 DEF IInv, RowsInStep, Running, Verified, Idle
  <2>4. Holds(Lead(s), q.target, q.nc, c)
    BY <2>3 DEF InStep
  <2>5. Known(s) = k /\ k \in Seq(Cell) /\ k # <<>>
    BY <2>2, KnownFacts DEF Known, KnownOf
  <2>6. Joins(c, i, k) /\ i \in Seq(Cell) /\ i # <<>>
    <3> HIDE DEF k
    <3>1. c \o i = k /\ i \in Seq(Cell) /\ Len(i) = 1
      BY <2>5, SplitLast
    <3> HIDE DEF i, c
    <3>2. i # <<>>
      BY <3>1, OneNotEmpty
    <3>3. Joins(c, i, k)
      BY <3>1 DEF Joins
    <3> QED
      BY <3>1, <3>2, <3>3
  <2>7. Lead(s) \in Nat /\ Packed(Lead(s)) /\ q.nc \in Nat
    BY <2>2, LeadType DEF SeqRec
  <2> DEFINE cache == q.target
             n == q.nc
             l == Lead(s)
  <2>8. x \in Sampled(s, cache, n, i, 1)
    BY <1>2, <2>5
  <2>9. Len(q.tokens) = Len(seq[s].tokens)
    OBVIOUS
  <2>10. /\ Holds(l, cache, n, c) /\ l \in Nat /\ Packed(l) /\ n \in Nat
         /\ Joins(c, i, KnownOf(s, q))
    BY <2>4, <2>6, <2>7
  <2>11. /\ [t \in Active |-> seq[t].tokens \o out[t]][s] = new
    OBVIOUS
  <2>12. Active \subseteq Seqs
    BY TextFacts DEF Active
  <2>13. seq'[s].tokens = new
    <3>1. seq'[s] = [q EXCEPT !.tokens = new, !.nc = @ + 1, !.target = @ \o Last_(Known(s), 1)]
      <4> HIDE DEF new
      <4> QED
        BY <1>2, <2>2, <2>11, ZenonT(30)
    <3> HIDE DEF q, new
    <3> QED
      BY <2>2, <3>1 DEF SeqRec
  <2>14. sent'[s] = new
    <3> HIDE DEF new
    <3> QED
      BY <1>2, <2>2, <2>11
  <2>15. status'[s] = IF StopNow(new, 1) THEN "completed" ELSE "active"
    <3> HIDE DEF new
    <3> QED
      BY <1>2, <2>1, <2>2, <2>11
  <2>16. new = q.tokens \o x
    OBVIOUS
  <2> HIDE DEF x, i, c, q, cache, n, l, new
  <2>17. x \in Seq(Token) /\ Len(x) = 1 /\ Continues(s, q.tokens, x)
    BY <2>1, <2>2, <2>6, <2>8, <2>9, <2>10, NextContinues
  <2>18. TextRow(s, new, new, st, <<>>)
    BY <2>1, <2>2, <2>16, <2>17, RowGrowsAtOnce
  <2>19. status'[s] = st
    BY <2>15, <2>17
  <2> QED
    BY <2>13, <2>14, <2>18, <2>19
<1>5. ASSUME NEW s \in Rows
      PROVE  TextRow(s, seq'[s].tokens, sent'[s], status'[s], Owed(s)')
  <2>1. CASE s \in Active
    BY <1>3, <1>4, <2>1
  <2>2. CASE s \notin Active
    <3>1. s \in Seqs
      BY TextFacts
    <3>2. seq'[s] = seq[s] /\ sent'[s] = sent[s] /\ status'[s] = status[s]
      BY <1>2, <2>2, <3>1
    <3> QED
      BY <1>3, <3>2, RowStays
  <2> QED
    BY <2>1, <2>2
<1> QED
  BY <1>1, <1>5, TextStep

LEMMA StepAnsweredText ==
  ASSUME IInv, TextInv, StepAnswered
  PROVE  TextInv'
<1>1. /\ step' = Idle /\ step.at = "verify" /\ DOMAIN step.result = step.batch
      /\ config' = config /\ greedy' = greedy /\ seq' = seq /\ status' = status
      /\ sent' = [s \in Seqs |-> IF s \in step.batch THEN sent[s] \o step.result[s]
                                                     ELSE sent[s]]
  BY DEF StepAnswered
<1>2. Stepping
  BY <1>1 DEF IInv, StepInv, Idle
<1>3. \A t \in Rows : Owed(t)' = <<>>
  BY <1>1 DEF Owed, Idle
<1>4. ASSUME NEW s \in Rows
      PROVE  TextRow(s, seq'[s].tokens, sent'[s], status'[s], Owed(s)')
  <2>1. s \in Seqs /\ TextRow(s, seq[s].tokens, sent[s], status[s], Owed(s)) /\ seq[s].tokens \in Seq(Entry)
    BY TextFacts
  <2>2. CASE s \in step.batch
    <3> DEFINE t == seq[s].tokens
               none == <<>>
    <3>1. Owed(s) = step.result[s] /\ status[s] # "failed"
      BY <1>1, <1>2, <2>2 DEF Owed, Stepping
    <3>2. t = sent[s] \o step.result[s]
      BY <2>1, <3>1 DEF TextRow
    <3>3. sent'[s] = t /\ seq'[s].tokens = t /\ status'[s] = status[s]
      BY <1>1, <2>1, <2>2, <3>2
    <3>4. t = t \o none
      BY <2>1, ConcatEmptySeq
    <3>5. Along(s, t)
      BY <2>1 DEF TextRow
    <3> HIDE DEF t, none
    <3>6. TextRow(s, t, t, status[s], none)
      BY <2>1, <3>4, <3>5 DEF TextRow, t
    <3> QED
      BY <1>3, <3>3, <3>6 DEF none
  <2>3. CASE s \notin step.batch
    <3>1. Owed(s) = <<>>
      BY <1>1, <2>3 DEF Owed
    <3> QED
      BY <1>1, <1>3, <2>1, <2>3, <3>1, RowStays
  <2> QED
    BY <2>2, <2>3
<1> QED
  BY <1>1, <1>4, TextStep

(* The part of a sequence before its last entries. *)
LEMMA DropLast ==
  ASSUME NEW S, NEW q \in Seq(S), NEW r \in Seq(S), NEW n, n = Len(r)
  PROVE  Drop(q \o r, n) = q
<1> DEFINE u == q \o r
           m == Len(q)
<1>1. u \in Seq(S) /\ Len(u) = Len(q) + Len(r) /\ m \in Nat /\ n \in Nat
  BY ConcatType
<1>2. n \in 0 .. Len(u) /\ m = Len(u) - n /\ m = Len(q)
  <2> HIDE DEF u
  <2>1. Len(q) \in Nat /\ Len(r) \in Nat
    OBVIOUS
  <2> QED
    BY <1>1, <2>1
<1>3. First(u, m) = q
  BY <1>2, FirstConcat
<1> HIDE DEF u, m
<1>4. Drop(u, n) = First(u, m)
  BY <1>1, <1>2, DropIsFirst
<1> QED
  BY <1>3, <1>4 DEF u

(* What the target of a row sees of a round before verify. *)
LEMMA VerifySees ==
  ASSUME NEW s \in Seqs, config \in Configs, seq[s] \in SeqRec, NEW g \in Guess,
         Pending(s, seq[s], "verify", g),
         NEW i, i = Last_(KnownOf(s, seq[s]), 1) \o g
  PROVE  /\ i \in Seq(Cell) /\ Len(i) \in Beyond
         /\ Holds(Lead(s), Drop(seq[s].target, D + 1), seq[s].nc - (D + 1),
                  Drop(KnownOf(s, seq[s]), 1))
         /\ SameContent(Drop(KnownOf(s, seq[s]), 1), i, KnownOf(s, seq[s]), g)
         /\ seq[s].nc - (D + 1) \in Nat
<1> DEFINE q == seq[s]
           k == KnownOf(s, q)
           c == Drop(k, 1)
           last == Last_(k, 1)
           t == q.target
           nc == q.nc
           l == Lead(s)
<1>1. q.tokens \in Seq(Entry) /\ nc \in Nat /\ l \in Nat
  BY LeadType DEF SeqRec
<1>2. k \in Seq(Cell) /\ k # <<>>
  BY <1>1, KnownFacts
<1>3. g \in Seq(Cell) /\ Len(g) = D /\ D \in Nat
  BY GuessFacts
<1>4. Holds(l, t, nc, k \o g)
  BY DEF Pending
<1>5. i = last \o g
  OBVIOUS
<1> HIDE DEF k
<1>6. /\ c \o last = k /\ c \in Seq(Cell) /\ last \in Seq(Cell) /\ Len(last) = 1
  BY <1>2, SplitLast
<1> HIDE DEF c, last, t, nc, l
<1>7. i \in Seq(Cell) /\ Len(i) = D + 1
  <2>1. i \in Seq(Cell) /\ Len(i) = Len(last) + Len(g)
    BY <1>3, <1>5, <1>6, ConcatType
  <2> QED
    BY <1>3, <1>6, <2>1
<1>8. c \o i = k \o g
  <2>1. (c \o last) \o g = c \o (last \o g)
    <3>1. c \in Seq(Cell) /\ last \in Seq(Cell) /\ g \in Seq(Cell)
      BY <1>3, <1>6
    <3> QED
      BY <3>1, ConcatAssociative
  <2> QED
    BY <1>5, <1>6, <2>1
<1> DEFINE n == D + 1
<1>9. n = Len(i) /\ n \in Nat
  BY <1>3, <1>7
<1> HIDE DEF n
<1>10. Drop(c \o i, n) = c
  BY <1>6, <1>7, <1>9, DropLast
<1>11. nc = Len(k \o g) /\ Len(c \o i) = Len(c) + Len(i)
  BY <1>4, <1>6, <1>7, ConcatType DEF Holds
<1>12. n \in 0 .. nc
  BY <1>1, <1>6, <1>8, <1>9, <1>11
<1>13. Holds(l, Drop(t, n), nc - n, Drop(k \o g, n))
  BY <1>1, <1>4, <1>12, HoldsDrop
<1>14. Holds(l, Drop(t, n), nc - n, c)
  BY <1>8, <1>10, <1>13
<1>15. nc - n \in Nat /\ Len(i) \in Beyond
  BY <1>1, <1>9, <1>12 DEF Beyond, n
<1>16. SameContent(c, i, k, g)
  BY <1>8 DEF SameContent
<1> QED
  BY <1>7, <1>14, <1>15, <1>16 DEF n, q, k, c, t, nc, l

LEMMA VerifyText ==
  ASSUME Lossless, IInv, TextInv, NEW s \in Seqs, Verify(s)
  PROVE  TextInv'
<1>1. /\ Stepping /\ s \in step.batch /\ s \notin DOMAIN step.result
      /\ status[s] = "active" /\ s \in Rows /\ step.guess[s] \in Guess
      /\ Pending(s, seq[s], "verify", step.guess[s])
      /\ config \in Configs /\ config.spec /\ ~config.offline
      /\ seq[s] \in SeqRec /\ Len(seq[s].tokens) \in Below
      /\ UNCHANGED <<config, greedy, sent>>
  BY VerifyStep
<1>2. PICK out, accepted, n, kept, r : VerifyTakes(s, out, accepted, n, kept, r)
  BY VerifyStep
<1> DEFINE q == seq[s]
           g == step.guess[s]
           k == KnownOf(s, q)
           i == TargetInput(s)
           cache == Drop(q.target, D + 1)
           nc == q.nc - (D + 1)
           c == Drop(k, 1)
           l == Lead(s)
           t == q.tokens
<1>3. /\ out \in Sampled(s, cache, nc, i, D + 1)
      /\ n \in Accepts /\ Accept(g, out, accepted, n)
      /\ kept = Kept(s, accepted) /\ kept \in Seq(Token)
      /\ seq' = [seq EXCEPT ![s] = r] /\ r.tokens = t \o kept
      /\ status' = [status EXCEPT ![s] =
                      IF StopNow(r.tokens, Len(kept)) THEN "completed" ELSE @]
      /\ step' = [step EXCEPT !.result =
                    [u \in DOMAIN @ \union {s} |-> IF u = s THEN kept ELSE @[u]]]
  BY <1>2 DEF VerifyTakes
<1>4. i = Last_(k, 1) \o g
  BY DEF TargetInput, Known, KnownOf
<1>5. /\ i \in Seq(Cell) /\ Len(i) \in Beyond /\ Holds(l, cache, nc, c)
      /\ SameContent(c, i, k, g) /\ nc \in Nat
  <2> HIDE DEF i
  <2> QED
    BY <1>1, <1>4, VerifySees
<1>6. /\ greedy \in Greedies /\ EosAfterMin /\ q.tokens \in Seq(Entry) /\ sent[s] \in Seq(Entry)
      /\ Along(s, q.tokens) /\ Along(s, sent[s]) /\ Len(q.tokens) < Len(Whole(s))
      /\ TextRow(s, q.tokens, sent[s], status[s], Owed(s))
  BY <1>1, TextFacts
<1>7. l \in Nat /\ Packed(l)
  BY <1>1, LeadType
<1>8. ~(Len(seq[s].tokens) < config.min)
  <2>1. config.min \in Nat /\ config.min <= 1
    BY <1>1, ConfigFacts DEF Lossless
  <2>2. q.tokens # <<>>
    BY <1>1 DEF Pending
  <2>3. Len(q.tokens) \in Nat \ {0}
    BY <1>6, <2>2, EmptySeq
  <2> QED
    BY <2>1, <2>3
<1>9. Continues(s, t, accepted)
  <2>1. SameContent(c, i, KnownOf(s, q), g)
    BY <1>5
  <2>2. /\ q.tokens \in Seq(Entry) /\ Along(s, q.tokens) /\ Len(q.tokens) < Len(Whole(s))
        /\ greedy \in Greedies /\ EosAfterMin
    BY <1>6
  <2>3. /\ s \in Rows /\ config \in Configs /\ g \in Guess
    BY <1>1
  <2> HIDE DEF g, k, i, cache, nc, c, l, q
  <2>4. Continues(s, q.tokens, accepted)
    BY <1>3, <1>5, <1>7, <1>8, <2>1, <2>2, <2>3, RoundContinues
  <2> QED
    BY <2>4
<1>10. Continues(s, t, kept)
  <2>1. accepted \in Seq(Token) /\ accepted # <<>>
    <3>1. accepted \in Seq(Token) /\ Len(accepted) = n + 1 /\ n \in Nat
      BY <1>3, LenType DEF Accept, Accepts
    <3>2. Len(accepted) > 0 /\ Len(<<>>) = 0
      BY <3>1
    <3> QED
      BY <3>1, <3>2
  <2>2. /\ Len(kept) <= Len(accepted)
        /\ \A j \in 1 .. Len(kept) : kept[j] = accepted[j]
    BY <1>1, <1>3, <1>6, <2>1, KeptFacts
  <2>3. Len(kept) \in Nat /\ Len(accepted) \in Nat
    BY <1>3, <2>1
  <2> QED
    BY <1>9, <2>2, <2>3, SMTT(30) DEF Continues
<1>11. Owed(s) = <<>> /\ Owed(s)' = kept
  <2>1. Owed(s) = <<>>
    BY <1>1 DEF Owed
  <2>2. /\ step'.result = [u \in DOMAIN step.result \union {s} |->
                             IF u = s THEN kept ELSE step.result[u]]
    BY <1>1, <1>3 DEF Stepping
  <2> QED
    BY <2>1, <2>2 DEF Owed
<1>12. \A u \in Rows : u # s => Owed(u)' = Owed(u)
  <2>2. /\ step'.result = [u \in DOMAIN step.result \union {s} |->
                             IF u = s THEN kept ELSE step.result[u]]
    BY <1>1, <1>3 DEF Stepping
  <2> QED
    BY <2>2 DEF Owed
<1>13. t = sent[s]
  <2>1. t = sent[s] \o <<>>
    BY <1>1, <1>6, <1>11 DEF TextRow
  <2> QED
    BY <1>6, <2>1, ConcatEmptySeq
<1>14. /\ seq \in [Seqs -> SeqRec] /\ status \in [Seqs -> Statuses]
  BY DEF IInv, Types
<1> DEFINE u == t \o kept
           st == IF StopNow(u, Len(kept)) THEN "completed" ELSE "active"
<1>15. seq'[s].tokens = u /\ sent'[s] = t /\ status'[s] = st
  BY <1>1, <1>3, <1>13, <1>14
<1>16. TextRow(s, u, t, st, kept)
  <2>1. u = t \o kept /\ s \in Rows /\ greedy \in Greedies /\ config \in Configs /\ EosAfterMin
        /\ t \in Seq(Entry) /\ Along(s, t) /\ Len(t) < Len(Whole(s)) /\ kept \in Seq(Token)
    BY <1>1, <1>3, <1>6
  <2> HIDE DEF t, u
  <2> QED
    BY <1>10, <2>1, RowGrows
<1>17. ASSUME NEW v \in Rows
       PROVE  TextRow(v, seq'[v].tokens, sent'[v], status'[v], Owed(v)')
  <2>1. CASE v = s
    BY <1>11, <1>15, <1>16, <2>1
  <2>2. CASE v # s
    <3>1. v \in Seqs
      BY TextFacts
    <3>2. seq'[v] = seq[v] /\ sent'[v] = sent[v] /\ status'[v] = status[v]
      BY <1>1, <1>3, <1>14, <2>2, <3>1
    <3> QED
      BY <1>12, <2>2, <3>2, RowStays
  <2> QED
    BY <2>1, <2>2
<1> QED
  BY <1>1, <1>17, TextStep

(* What a row of the Generator gets goes on with its text, if it is not finished. *)
GoesOn(s, out) ==
  /\ status[s] \in {"new", "active", "finished"} /\ out[s] \in Seq(Token)
  /\ seq'[s].tokens = seq[s].tokens \o NewTokens(s, out)
  /\ status[s] # "finished" => Continues(s, seq[s].tokens, out[s])
GoOn ==
  config.offline /\ \E out, rows : Postprocess(out, rows) /\ \A s \in Rows : GoesOn(s, out)

LEMMA GoesOnRow ==
  ASSUME IInv, TextInv, NEW s \in Rows, NEW out, GoesOn(s, out),
         NEW t, t = seq[s].tokens, NEW u, u = t \o NewTokens(s, out),
         NEW st, st = IF status[s] = "finished" \/ StopNow(u, Len(NewTokens(s, out)))
                      THEN "finished" ELSE "active"
  PROVE  TextRow(s, u, u, st, <<>>)
<1>1. /\ greedy \in Greedies /\ config \in Configs /\ EosAfterMin
      /\ t \in Seq(Entry) /\ Along(s, t) /\ Len(Whole(s)) \in 1 .. MaxNewTokens
      /\ status[s] \in {"new", "active"} => Len(t) < Len(Whole(s))
      /\ status[s] = "finished" => Len(t) >= Len(Whole(s))
  BY TextFacts DEF TextRow
<1>2. CASE status[s] # "finished"
  <2> DEFINE x == out[s]
  <2>1. NewTokens(s, out) = x /\ x \in Seq(Token) /\ Continues(s, t, x) /\ Len(t) < Len(Whole(s))
    BY <1>1, <1>2 DEF GoesOn, NewTokens
  <2>2. u = t \o x /\ st = IF StopNow(u, Len(x)) THEN "finished" ELSE "active"
    BY <1>2, <2>1
  <2> HIDE DEF x
  <2> QED
    BY <1>1, <2>1, <2>2, RowGrowsAtOnce
<1>3. CASE status[s] = "finished"
  <2> DEFINE x == NewTokens(s, out)
             n == Len(out[s])
             w == Len(Whole(s))
             none == <<>>
  <2>1. x \in Seq(Entry)
    <3>1. n \in Nat
      BY DEF GoesOn
    <3> HIDE DEF n
    <3>2. x = Repeat(Filler, n)
      BY <1>3 DEF NewTokens, n
    <3>3. Filler \in Entry
      BY DEF Entry
    <3> QED
      BY <3>1, <3>2, <3>3, RepeatFacts
  <2>2. u = t \o x /\ w \in Nat /\ Len(t) >= w /\ st = "finished"
    BY <1>1, <1>3, LenType
  <2> HIDE DEF x, w
  <2>3. u \in Seq(Entry) /\ Len(u) = Len(t) + Len(x) /\ Len(x) \in Nat /\ Len(t) \in Nat
    BY <1>1, <2>1, <2>2, ConcatType
  <2>4. \A i \in 1 .. Len(t) : u[i] = t[i]
    BY <1>1, <2>1, <2>2, ConcatLeft
  <2>5. Along(s, u)
    <3> SUFFICES ASSUME NEW i \in 1 .. Len(u), i <= w PROVE u[i] = greedy[s][i]
      BY DEF Along, w
    <3>1. i \in 1 .. Len(t)
      BY <2>2, <2>3
    <3>2. t[i] = greedy[s][i]
      BY <1>1, <3>1 DEF Along, w
    <3> QED
      BY <2>4, <3>1, <3>2
  <2>6. Len(u) >= w
    BY <2>2, <2>3
  <2>7. u = u \o none
    BY <2>3, ConcatEmptySeq
  <2> HIDE DEF none
  <2>8. TextRow(s, u, u, st, none)
    BY <2>2, <2>5, <2>6, <2>7 DEF TextRow, w
  <2> QED
    BY <2>8 DEF none
<1> QED
  BY <1>2, <1>3

LEMMA PostprocessText ==
  ASSUME IInv, TextInv, config.offline, NEW out, NEW rows, Postprocess(out, rows),
         \A s \in Rows : GoesOn(s, out)
  PROVE  TextInv'
<1>1. /\ step = Idle /\ Rows \subseteq Seqs
      /\ config' = config /\ greedy' = greedy /\ step' = step
  BY OfflineIdle DEF Postprocess
<1>2. /\ sent' = [s \in Seqs |-> seq'[s].tokens]
      /\ status' = [s \in Seqs |->
           IF s \notin Rows THEN status[s]
           ELSE IF status[s] = "finished" \/ StopNow(seq'[s].tokens, Len(NewTokens(s, out)))
           THEN "finished" ELSE "active"]
  BY DEF Postprocess, NewTokens
<1>3. \A t \in Rows : Owed(t)' = <<>>
  BY <1>1 DEF Owed, Idle
<1>4. ASSUME NEW s \in Rows
      PROVE  TextRow(s, seq'[s].tokens, sent'[s], status'[s], Owed(s)')
  <2> DEFINE t == seq[s].tokens
             u == t \o NewTokens(s, out)
             st == IF status[s] = "finished" \/ StopNow(u, Len(NewTokens(s, out)))
                   THEN "finished" ELSE "active"
  <2>1. seq'[s].tokens = u
    BY DEF GoesOn
  <2> HIDE DEF u
  <2>2. sent'[s] = u /\ status'[s] = st
    BY <1>1, <1>2, <2>1
  <2>3. GoesOn(s, out)
    OBVIOUS
  <2>4. TextRow(s, u, u, st, <<>>)
    BY <2>3, GoesOnRow DEF u
  <2> QED
    BY <1>3, <2>1, <2>2, <2>4
<1> QED
  BY <1>1, <1>4, TextStep

LEMMA GenerateGoesOn ==
  ASSUME IInv, TextInv, config.offline, ~config.spec,
         NEW inputs, NEW rows, Generate(inputs, rows),
         \A s \in Rows : /\ Generating(s, rows[s], inputs[s])
                         /\ rows[s].tokens = seq[s].tokens /\ inputs[s] # <<>>
                         /\ status[s] \in {"new", "active", "finished"}
  PROVE  GoOn
<1>1. PICK out : GenerateTakes(inputs, rows, out)
  BY DEF Generate, GenerateTakes
<1>2. ASSUME NEW s \in Rows
      PROVE  GoesOn(s, out)
  <2> DEFINE q == rows[s]
             i == inputs[s]
             l == Lead(s)
             x == out[s]
             cache == q.target
             n == q.nc
  <2>1. /\ q \in SeqRec /\ i \in Seq(Cell) /\ i # <<>>
        /\ \E c : Holds(l, cache, n, c) /\ Joins(c, i, KnownOf(s, q))
    BY DEF Generating, Lacks
  <2>2. PICK c : Holds(l, cache, n, c) /\ Joins(c, i, KnownOf(s, q))
    BY <2>1
  <2>3. /\ x \in Seq(Token) /\ Len(x) = 1
        /\ seq'[s].tokens = q.tokens \o NewTokens(s, out)
    BY <1>1, GenerateRows
  <2>4. /\ s \in Seqs /\ config \in Configs /\ greedy \in Greedies /\ EosAfterMin
        /\ seq[s].tokens \in Seq(Entry) /\ Along(s, seq[s].tokens)
        /\ status[s] \in {"new", "active"} => Len(seq[s].tokens) < Len(Whole(s))
    BY TextFacts
  <2>5. q.tokens = seq[s].tokens
    OBVIOUS
  <2>6. ASSUME status[s] # "finished" PROVE Continues(s, q.tokens, x)
    <3>1. /\ q.tokens \in Seq(Entry) /\ Along(s, q.tokens) /\ Len(q.tokens) < Len(Whole(s))
          /\ Len(q.tokens) = Len(seq[s].tokens)
      BY <2>4, <2>5, <2>6
    <3>2. x \in Sampled(s, cache, n, i, 1)
      BY <1>1, <2>6 DEF GenerateTakes
    <3>3. l \in Nat /\ Packed(l) /\ n \in Nat
      BY <2>1, <2>4, LeadType DEF SeqRec
    <3> HIDE DEF q, i, l, x, cache, n
    <3> QED
      BY <2>1, <2>2, <2>4, <3>1, <3>2, <3>3, NextContinues
  <2> QED
    BY <2>3, <2>5, <2>6 DEF GoesOn
<1>3. Postprocess(out, [s \in Rows |-> GenerateForward(s, inputs[s], rows[s])])
  BY <1>1 DEF GenerateTakes
<1> QED
  BY <1>2, <1>3 DEF GoOn

LEMMA GeneratePrefillGoesOn ==
  ASSUME IInv, TextInv, GeneratePrefill
  PROVE  GoOn
<1> DEFINE inputs == [s \in Rows |-> Prompt(s)]
           rows == [s \in Rows |-> [NoSeq EXCEPT !.target = Padding(s)]]
<1>1. /\ config.offline /\ ~config.spec /\ Generate(inputs, rows)
      /\ \A s \in Rows : status[s] = "new"
  BY DEF GeneratePrefill
<1>2. \A s \in Rows : /\ rows[s] = [NoSeq EXCEPT !.target = Padding(s)]
                      /\ inputs[s] = Prompt(s) /\ rows[s].tokens = <<>>
  BY DEF NoSeq
<1>3. \A s \in Rows : Generating(s, rows[s], inputs[s])
  BY <1>1, <1>2, GeneratePrefillRows
<1>4. ASSUME NEW s \in Rows PROVE rows[s].tokens = seq[s].tokens /\ inputs[s] # <<>>
  <2>1. s \in Seqs
    BY TextFacts
  <2>2. seq[s].tokens = <<>>
    BY <1>1, <2>1 DEF IInv, Fresh, NoSeq
  <2>3. Prompt(s) # <<>>
    BY <2>1, PromptFacts
  <2> HIDE DEF inputs, rows
  <2> QED
    BY <1>2, <2>2, <2>3
<1> HIDE DEF inputs, rows
<1> QED
  BY <1>1, <1>3, <1>4, GenerateGoesOn

LEMMA GenerateStepGoesOn ==
  ASSUME IInv, TextInv, GenerateStep
  PROVE  GoOn
<1> DEFINE inputs == [s \in Rows |-> Last_(Known(s), 1)]
           rows == [s \in Rows |-> seq[s]]
<1>1. config.offline /\ ~config.spec /\ Active # {} /\ Generate(inputs, rows)
  BY DEF GenerateStep
<1>2. \A s \in Rows : Generating(s, seq[s], Last_(Known(s), 1))
  BY <1>1, GenerateStepRow
<1>3. \A s \in Rows : rows[s] = seq[s] /\ inputs[s] = Last_(Known(s), 1)
  OBVIOUS
<1>4. ASSUME NEW s \in Rows
      PROVE  inputs[s] # <<>> /\ status[s] \in {"new", "active", "finished"}
  <2>1. /\ status[s] \in Running /\ s \in Seqs /\ Known(s) = KnownOf(s, seq[s])
        /\ seq[s].tokens \in Seq(Entry)
    BY <1>1, GenerateStepRows DEF SeqRec
  <2> DEFINE k == KnownOf(s, seq[s])
  <2>2. k \in Seq(Cell) /\ k # <<>>
    BY <2>1, KnownFacts
  <2> HIDE DEF k
  <2>3. Last_(k, 1) # <<>>
    <3>1. Last_(k, 1) \in Seq(Cell) /\ Len(Last_(k, 1)) = 1
      BY <2>2, SplitLast
    <3> QED
      BY <3>1, OneNotEmpty
  <2> QED
    BY <1>3, <2>1, <2>3 DEF k, Running
<1> HIDE DEF inputs, rows
<1>5. \A s \in Rows : Generating(s, rows[s], inputs[s]) /\ rows[s].tokens = seq[s].tokens
  BY <1>2, <1>3
<1> QED
  BY <1>1, <1>4, <1>5, GenerateGoesOn

LEMMA SpeculateGoesOn ==
  ASSUME Lossless, IInv, TextInv, config.offline, config.spec, NEW s \in Rows,
         status[s] \in {"new", "active"},
         NEW q, NEW ti, NEW inputs, Speculating(s, q, ti, inputs), ti # <<>>,
         q.tokens = seq[s].tokens, SpeculateRound(s, inputs, q)
  PROVE  GoOn
<1>1. PICK guess, out, accepted, n, rows :
         SpeculateTakes(s, q, ti, guess, out, accepted, n, rows)
  BY SpeculateRows
<1>2. /\ guess \in Guess /\ n \in Accepts
      /\ out \in Sampled(s, q.target, q.nc, ti \o guess, D + 1)
      /\ Accept(guess, out, accepted, n)
      /\ Postprocess([t \in Rows |-> accepted], rows)
      /\ seq'[s].tokens = q.tokens \o accepted
  BY <1>1 DEF SpeculateTakes
<1>3. /\ s \in Seqs /\ config \in Configs /\ greedy \in Greedies /\ EosAfterMin
      /\ seq[s].tokens \in Seq(Entry) /\ Along(s, seq[s].tokens)
      /\ Len(seq[s].tokens) < Len(Whole(s))
  BY TextFacts
<1> DEFINE l == Lead(s)
           cache == q.target
           nc == q.nc
           k == KnownOf(s, q)
           i == ti \o guess
<1>4. q \in SeqRec /\ nc \in Nat /\ ti \in Seq(Cell) /\ l \in Nat /\ Packed(l)
  BY <1>3, LeadType DEF Speculating, SeqRec
<1>5. PICK c : Holds(l, cache, nc, c) /\ Joins(c, ti, k)
  BY DEF Speculating
<1>6. i \in Seq(Cell) /\ Len(i) \in Beyond /\ SameContent(c, i, k, guess)
  <2> HIDE DEF l, cache, nc, k
  <2>1. /\ ti \o guess \in Seq(Cell) /\ Len(ti \o guess) = Len(ti) + D
        /\ SameContent(c, ti \o guess, k, guess)
    <3>1. /\ Holds(l, cache, nc, c) /\ Joins(c, ti, k) /\ l \in Nat /\ nc \in Nat
          /\ ti \in Seq(Cell) /\ guess \in Guess
      BY <1>2, <1>4, <1>5
    <3>2. SameContent(c, ti \o guess, k, guess)
      BY <3>1, TargetForward
    <3>3. guess \in Seq(Cell) /\ Len(guess) = D
      BY <3>1, GuessFacts
    <3>4. ti \o guess \in Seq(Cell) /\ Len(ti \o guess) = Len(ti) + Len(guess)
      BY <3>1, <3>3, ConcatType
    <3> QED
      BY <3>2, <3>3, <3>4
  <2>2. Len(ti) \in Nat \ {0}
    BY <1>4, EmptySeq
  <2> QED
    BY <2>1, <2>2, LenType DEF Beyond
<1>7. ~(Len(seq[s].tokens) < config.min)
  <2>1. config.min \in Nat /\ config.min <= 0
    BY <1>3, ConfigFacts DEF Lossless
  <2>2. Len(seq[s].tokens) \in Nat
    BY <1>3
  <2> QED
    BY <2>1, <2>2
<1>8. Continues(s, q.tokens, accepted)
  <2>1. /\ q.tokens \in Seq(Entry) /\ Along(s, q.tokens) /\ Len(q.tokens) < Len(Whole(s))
    BY <1>3
  <2>2. Joins(c, ti, KnownOf(s, q)) /\ SameContent(c, i, KnownOf(s, q), guess)
    BY <1>5, <1>6
  <2>3. out \in Sampled(s, cache, nc, i, D + 1)
    BY <1>2
  <2> HIDE DEF l, cache, nc, k, i
  <2> QED
    BY <1>2, <1>3, <1>4, <1>5, <1>6, <1>7, <2>1, <2>2, <2>3, RoundContinues
<1>9. \A t \in Rows : t = s
  <2>1. PICK t \in Seqs : Rows = {t}
    BY <1>3, ConfigFacts
  <2> QED
    BY <2>1
<1> DEFINE all == [t \in Rows |-> accepted]
<1>10. GoesOn(s, all)
  <2>1. all[s] = accepted /\ accepted \in Seq(Token)
    BY <1>2 DEF Accept
  <2>2. NewTokens(s, all) = accepted
    BY <2>1 DEF NewTokens
  <2> HIDE DEF all
  <2> QED
    BY <1>2, <1>8, <2>1, <2>2 DEF GoesOn
<1>11. Postprocess(all, rows)
  BY <1>2
<1>12. \A t \in Rows : GoesOn(t, all)
  BY <1>9, <1>10
<1> HIDE DEF all
<1> QED
  BY <1>11, <1>12 DEF GoOn

LEMMA SpeculatePrefillGoesOn ==
  ASSUME Lossless, IInv, TextInv, SpeculatePrefill
  PROVE  GoOn
<1>1. config.offline /\ config.spec
  BY DEF SpeculatePrefill
<1>2. PICK s \in Rows :
         /\ status[s] = "new"
         /\ SpeculateRound(s, Prompt(s),
                           [NoSeq EXCEPT !.target = Padding(s), !.draft = Padding(s)])
  BY DEF SpeculatePrefill
<1> DEFINE q == [NoSeq EXCEPT !.target = Padding(s), !.draft = Padding(s)]
<1>3. Speculating(s, q, Prompt(s), Prompt(s))
  BY <1>1, SpeculatePrefillRow
<1>4. q.tokens = <<>>
  BY DEF NoSeq
<1>5. s \in Seqs
  BY TextFacts
<1>6. seq[s].tokens = <<>> /\ Prompt(s) # <<>>
  BY <1>2, <1>5, PromptFacts DEF IInv, Fresh, NoSeq
<1>7. SpeculateRound(s, Prompt(s), q)
  BY <1>2
<1>8. q.tokens = seq[s].tokens
  BY <1>4, <1>6
<1> HIDE DEF q
<1> QED
  BY <1>1, <1>2, <1>3, <1>6, <1>7, <1>8, SpeculateGoesOn

LEMMA SpeculateStepGoesOn ==
  ASSUME Lossless, IInv, TextInv, SpeculateStep
  PROVE  GoOn
<1>1. config.offline /\ config.spec
  BY DEF SpeculateStep
<1>2. PICK s \in Active : SpeculateRound(s, Last_(Known(s), seq[s].next), seq[s])
  BY DEF SpeculateStep
<1>3. s \in Rows /\ status[s] = "active"
  BY DEF Active
<1> DEFINE ti == Last_(Known(s), 1)
           inputs == Last_(Known(s), seq[s].next)
<1>4. Speculating(s, seq[s], ti, inputs)
  BY <1>1, SpeculateStepRow
<1>5. ti # <<>>
  <2>1. s \in Seqs /\ seq[s].tokens \in Seq(Entry) /\ Known(s) = KnownOf(s, seq[s])
    BY <1>3, TextFacts DEF Known, KnownOf
  <2> DEFINE k == KnownOf(s, seq[s])
  <2>2. k \in Seq(Cell) /\ k # <<>>
    BY <2>1, KnownFacts
  <2> HIDE DEF k
  <2>3. Last_(k, 1) \in Seq(Cell) /\ Len(Last_(k, 1)) = 1
    BY <2>2, SplitLast
  <2>4. Last_(k, 1) # <<>>
    BY <2>3, OneNotEmpty
  <2> QED
    BY <2>1, <2>4 DEF k
<1>6. SpeculateRound(s, inputs, seq[s])
  BY <1>2
<1> HIDE DEF ti, inputs
<1> QED
  BY <1>1, <1>3, <1>4, <1>5, <1>6, SpeculateGoesOn

LEMMA DraftText ==
  ASSUME IInv, TextInv, Draft
  PROVE  TextInv'
<1>1. /\ step = Idle /\ config' = config /\ greedy' = greedy
      /\ sent' = sent /\ status' = status /\ seq \in [Seqs -> SeqRec]
  BY DEF Draft, IInv, Types
<1> DEFINE none == [s \in {} |-> <<>>]
<1>4. DOMAIN step'.result = {} /\ DOMAIN step.result = {}
  <2>1. PICK guess \in [Active -> [1 .. D -> Token]] :
          step' = [at |-> "target", batch |-> Active, guess |-> guess, result |-> none]
    BY DEF Draft
  <2>2. step.result = none
    BY <1>1 DEF Idle
  <2>3. DOMAIN none = {}
    OBVIOUS
  <2> HIDE DEF none
  <2>4. step'.result = none
    BY <2>1
  <2> QED
    BY <2>2, <2>3, <2>4
<1>2. ASSUME NEW s \in Rows
      PROVE  seq'[s].tokens = seq[s].tokens
  <2> DEFINE input == PrepareDraftInput(Last_(Known(s), Len(Known(s)) - seq[s].dnc))
  <2>1. s \in Seqs
    BY TextFacts
  <2>2. seq'[s] = IF s \in Active
          THEN [seq[s] EXCEPT !.draft = @ \o input, !.dnc = @ + Len(input)]
          ELSE seq[s]
    BY <2>1 DEF Draft
  <2> HIDE DEF input
  <2> QED
    BY <1>1, <2>1, <2>2 DEF SeqRec
<1>3. \A s \in Rows : Owed(s)' = Owed(s)
  BY <1>4 DEF Owed
<1> QED
  BY <1>1, <1>2, <1>3, StaysText

LEMMA TargetText ==
  ASSUME IInv, TextInv, Target
  PROVE  TextInv'
<1>1. /\ config' = config /\ greedy' = greedy /\ sent' = sent /\ status' = status
      /\ seq \in [Seqs -> SeqRec] /\ step.at = "target" /\ step' = [step EXCEPT !.at = "verify"]
  BY DEF Target, IInv, Types
<1>2. ASSUME NEW s \in Rows
      PROVE  seq'[s].tokens = seq[s].tokens
  <2>1. s \in Seqs
    BY TextFacts
  <2>2. seq'[s] = IF s \in step.batch
          THEN [seq[s] EXCEPT !.target = @ \o TargetInput(s), !.nc = @ + D + 1]
          ELSE seq[s]
    BY <2>1 DEF Target
  <2> QED
    BY <1>1, <2>1, <2>2 DEF SeqRec
<1>3. Stepping
  <2>1. Idle.at = "idle"
    BY DEF Idle
  <2> QED
    BY <1>1, <2>1 DEF IInv, StepInv
<1>4. step'.result = step.result
  BY <1>1, <1>3 DEF Stepping
<1>5. \A s \in Rows : Owed(s)' = Owed(s)
  BY <1>4 DEF Owed
<1> QED
  BY <1>1, <1>2, <1>5, StaysText

LEMMA PrefillFailsText ==
  ASSUME IInv, TextInv, NEW s \in Seqs, PrefillFails(s)
  PROVE  TextInv'
<1>1. /\ UNCHANGED <<config, greedy, seq, sent, step>>
      /\ status' = [status EXCEPT ![s] = "failed"] /\ status \in [Seqs -> Statuses]
  BY DEF PrefillFails, IInv, Types
<1>2. \A t \in Rows : Owed(t)' = Owed(t)
  BY <1>1 DEF Owed
<1>3. \A t \in Rows : t \in Seqs
  BY TextFacts
<1>4. \A t \in Rows : status'[t] = status[t] \/ status'[t] = "failed"
  BY <1>1, <1>3
<1> QED
  BY <1>1, <1>2, <1>4, StaysText

(* What is still owed when a step fails was owed to a sequence that fails. *)
LEMMA DecodeFailsText ==
  ASSUME IInv, TextInv, DecodeFails
  PROVE  TextInv'
<1> DEFINE batch == IF config.spec THEN step.batch ELSE Active
<1>1. /\ UNCHANGED <<config, greedy, seq, sent>> /\ step' = Idle
      /\ status' = [s \in Seqs |-> IF s \in batch THEN "failed" ELSE status[s]]
  BY DEF DecodeFails
<1>2. \A s \in Rows : Owed(s)' = <<>>
  BY <1>1 DEF Owed, Idle
<1>3. ASSUME NEW s \in Rows, s \notin batch
      PROVE  Owed(s) = <<>>
  <2>1. CASE step = Idle
    BY <2>1 DEF Owed, Idle
  <2>2. CASE step # Idle
    <3>1. Stepping
      BY <2>2 DEF IInv, StepInv
    <3> QED
      BY <1>3, <3>1 DEF Stepping, Owed
  <2> QED
    BY <2>1, <2>2
<1> HIDE DEF batch
<1>4. \A s \in Rows : s \in Seqs
  BY TextFacts
<1>5. \A s \in Rows : \/ status'[s] = status[s] /\ Owed(s)' = Owed(s)
                      \/ status'[s] = "failed"
  BY <1>1, <1>2, <1>3, <1>4
<1> QED
  BY <1>1, <1>5, StaysText

LEMMA GenerateFailsText ==
  ASSUME IInv, TextInv, GenerateFails
  PROVE  TextInv'
<1>1. /\ UNCHANGED <<config, greedy, seq, sent, step>>
      /\ status' = [s \in Seqs |-> IF s \in Rows THEN "failed" ELSE status[s]]
  BY DEF GenerateFails
<1>2. \A s \in Rows : s \in Seqs
  BY TextFacts
<1>3. \A s \in Rows : status'[s] = "failed"
  BY <1>1, <1>2
<1> QED
  BY <1>1, <1>3, StaysText

LEMMA GenerateReturnsText ==
  ASSUME IInv, TextInv, GenerateReturns
  PROVE  TextInv'
<1>1. /\ UNCHANGED <<config, greedy, seq, sent, step>>
      /\ status' = [s \in Seqs |-> IF s \in Rows THEN "completed" ELSE status[s]]
      /\ \A s \in Rows : status[s] = "finished"
  BY DEF GenerateReturns
<1>2. ASSUME NEW s \in Rows
      PROVE  TextRow(s, seq'[s].tokens, sent'[s], status'[s], Owed(s)')
  <2>1. s \in Seqs /\ TextRow(s, seq[s].tokens, sent[s], status[s], Owed(s))
    BY TextFacts
  <2>2. status'[s] = "completed" /\ status[s] = "finished" /\ Owed(s)' = Owed(s)
    BY <1>1, <2>1 DEF Owed
  <2> QED
    BY <1>1, <2>1, <2>2 DEF TextRow
<1> QED
  BY <1>1, <1>2, TextStep

LEMMA StutterText ==
  ASSUME TextInv, UNCHANGED vars
  PROVE  TextInv'
<1>1. UNCHANGED <<config, greedy, seq, sent, status, step>>
  BY DEF vars
<1>2. \A s \in Rows : Owed(s)' = Owed(s)
  BY <1>1 DEF Owed
<1> QED
  BY <1>1, <1>2, StaysText

LEMMA NextText == Lossless /\ IInv /\ TextInv /\ [Next]_vars => TextInv'
<1> SUFFICES ASSUME Lossless, IInv, TextInv, [Next]_vars
             PROVE  TextInv'
  OBVIOUS
<1>1. ASSUME NEW s \in Seqs, Prefill(s) PROVE TextInv'
  BY <1>1, PrefillText
<1>2. ASSUME NEW s \in Seqs, PrefillFails(s) PROVE TextInv'
  BY <1>2, PrefillFailsText
<1>3. ASSUME NEW s \in Seqs, Verify(s) PROVE TextInv'
  BY <1>3, VerifyText
<1>4. CASE StandardDecode
  BY <1>4, StandardDecodeText
<1>5. CASE Draft
  BY <1>5, DraftText
<1>6. CASE Target
  BY <1>6, TargetText
<1>7. CASE StepAnswered
  BY <1>7, StepAnsweredText
<1>8. CASE DecodeFails
  BY <1>8, DecodeFailsText
<1>9. CASE GoOn
  BY <1>9, PostprocessText DEF GoOn
<1>10. CASE GeneratePrefill
  BY <1>9, <1>10, GeneratePrefillGoesOn
<1>11. CASE GenerateStep
  BY <1>9, <1>11, GenerateStepGoesOn
<1>12. CASE SpeculatePrefill \/ SpeculateStep
  BY <1>9, <1>12, SpeculatePrefillGoesOn, SpeculateStepGoesOn
<1>13. CASE GenerateReturns
  BY <1>13, GenerateReturnsText
<1>14. CASE GenerateFails
  BY <1>14, GenerateFailsText
<1>15. CASE UNCHANGED vars
  BY <1>15, StutterText
<1> QED
  BY <1>1, <1>2, <1>3, <1>4, <1>5, <1>6, <1>7, <1>8, <1>9, <1>10, <1>11, <1>12, <1>13,
     <1>14, <1>15 DEF Next

LEMMA TextInvariant ==
  ASSUME Lossless
  PROVE  Spec => [](IInv /\ TextInv)
<1>1. Init => IInv /\ TextInv
  BY InitInv, InitText
<1>2. IInv /\ TextInv /\ [Next]_vars => IInv' /\ TextInv'
  BY NextInv, NextText
<1> QED
  BY <1>1, <1>2, PTL DEF Spec

(* No sequence that is still decoded has come to the end of its text:      *)
(* StoppingCriteria is given every new token of a round, not only its      *)
(* last, and a round is cut off at max_new_tokens.                         *)
THEOREM NothingRunsPastItsEnd ==
  ASSUME Lossless
  PROVE  Spec => []StopsInTime
<1>1. IInv /\ TextInv => StopsInTime
  <2> SUFFICES ASSUME IInv, TextInv, NEW s \in Active
               PROVE  Len(Tokens(s)) < Len(Whole(s))
    BY DEF StopsInTime
  <2>1. s \in Rows /\ status[s] = "active"
    BY DEF Active
  <2> QED
    BY <2>1, TextFacts DEF Tokens
<1> QED
  BY <1>1, TextInvariant, PTL

-----------------------------------------------------------------------------
(* Decoding implements GreedyDecoding                                      *)

(* What a step does to a text: it goes on with it, gives it up or leaves   *)
(* it.                                                                     *)
TextMoves(s) ==
  \/ /\ Ended(s) = "no" /\ Ended(s)' # "failed" /\ Len(sent'[s]) >= Len(sent[s])
  \/ Ended(s) = "no" /\ Ended(s)' = "failed" /\ sent'[s] = sent[s]
  \/ Ended(s)' = Ended(s) /\ sent'[s] = sent[s]

TextsMove == UNCHANGED <<config, greedy>> /\ \A s \in Rows : TextMoves(s)

LEMMA EndedIs ==
  ASSUME NEW s
  PROVE  /\ Ended(s) \in {"no", "failed", "complete"}
         /\ Ended(s) = "failed" <=> status[s] = "failed"
         /\ Ended(s) = "complete" <=> status[s] = "completed" /\ s \notin DOMAIN step.result
         /\ status[s] \notin {"failed", "completed"} => Ended(s) = "no"
         /\ s \in DOMAIN step.result /\ status[s] # "failed" => Ended(s) = "no"
BY DEF Ended

LEMMA EndedNext ==
  ASSUME NEW s
  PROVE  /\ Ended(s)' \in {"no", "failed", "complete"}
         /\ Ended(s)' = "failed" <=> status'[s] = "failed"
         /\ Ended(s)' = "complete" <=> status'[s] = "completed" /\ s \notin DOMAIN step'.result
         /\ status'[s] \notin {"failed", "completed"} => Ended(s)' = "no"
         /\ s \in DOMAIN step'.result /\ status'[s] # "failed" => Ended(s)' = "no"
BY DEF Ended

(* A text that is left alone. *)
LEMMA MovesNot ==
  ASSUME NEW s, sent'[s] = sent[s], status'[s] = status[s],
         s \in DOMAIN step'.result <=> s \in DOMAIN step.result
  PROVE  TextMoves(s)
BY DEF Ended, TextMoves

LEMMA PrefillMoves ==
  ASSUME IInv, TextInv, NEW s \in Seqs, Prefill(s)
  PROVE  TextsMove
<1>1. /\ step = Idle /\ status[s] = "new" /\ UNCHANGED <<config, greedy, step>>
      /\ sent \in [Seqs -> Seq(Entry)] /\ status \in [Seqs -> Statuses]
  BY DEF Prefill, IInv, Types
<1>2. PICK out \in Sampled(s, <<>>, 0, Prompt(s), 1) :
        /\ sent' = [sent EXCEPT ![s] = out]
        /\ status' = [status EXCEPT ![s] =
                        IF StopNow(out, 1) THEN "completed" ELSE "active"]
  BY DEF Prefill
<1>3. ASSUME NEW t \in Rows PROVE TextMoves(t)
  <2>1. t \in Seqs
    BY TextFacts
  <2>2. CASE t = s
    <3>1. sent[s] = <<>>
      BY <1>1 DEF IInv, Fresh
    <3>2. out \in Seq(Token)
      <4>1. out \in [1 .. 1 -> Token] /\ 1 \in Nat
        BY SampledType
      <4> QED
        BY <4>1, SeqFacts
    <3>3. Len(sent'[s]) >= Len(sent[s])
      <4>1. sent'[s] = out /\ Len(out) \in Nat /\ Len(sent[s]) = 0
        BY <1>1, <1>2, <3>1, <3>2
      <4> QED
        BY <4>1
    <3>4. Ended(s) = "no"
      BY <1>1, EndedIs
    <3>5. status'[s] # "failed"
      BY <1>1, <1>2
    <3> QED
      BY <2>2, <3>3, <3>4, <3>5, EndedNext DEF TextMoves
  <2>3. CASE t # s
    <3>1. sent'[t] = sent[t] /\ status'[t] = status[t]
      BY <1>1, <1>2, <2>1, <2>3
    <3> QED
      BY <1>1, <3>1, MovesNot
  <2> QED
    BY <2>2, <2>3
<1> QED
  BY <1>1, <1>3 DEF TextsMove

LEMMA PrefillFailsMoves ==
  ASSUME IInv, TextInv, NEW s \in Seqs, PrefillFails(s)
  PROVE  TextsMove
<1>1. /\ status[s] = "new" /\ UNCHANGED <<config, greedy, sent, step>>
      /\ status' = [status EXCEPT ![s] = "failed"] /\ status \in [Seqs -> Statuses]
  BY DEF PrefillFails, IInv, Types
<1>2. ASSUME NEW t \in Rows PROVE TextMoves(t)
  <2>1. t \in Seqs
    BY TextFacts
  <2>2. CASE t = s
    <3>1. Ended(s) = "no" /\ status'[s] = "failed" /\ sent'[s] = sent[s]
      BY <1>1, EndedIs
    <3> QED
      BY <2>2, <3>1, EndedNext DEF TextMoves
  <2>3. CASE t # s
    <3>1. sent'[t] = sent[t] /\ status'[t] = status[t]
      BY <1>1, <2>1, <2>3
    <3> QED
      BY <1>1, <3>1, MovesNot
  <2> QED
    BY <2>2, <2>3
<1> QED
  BY <1>1, <1>2 DEF TextsMove

LEMMA StandardDecodeMoves ==
  ASSUME IInv, TextInv, StandardDecode
  PROVE  TextsMove
<1>1. step = Idle /\ UNCHANGED <<config, greedy, step>>
  BY DEF StandardDecode
<1>2. PICK out \in [Active -> [1 .. 1 -> Token]] :
        /\ sent' = [s \in Seqs |-> IF s \in Active
             THEN [t \in Active |-> seq[t].tokens \o out[t]][s] ELSE sent[s]]
        /\ status' = [s \in Seqs |->
             IF s \in Active /\ StopNow([t \in Active |-> seq[t].tokens \o out[t]][s], 1)
             THEN "completed" ELSE status[s]]
  BY DEF StandardDecode
<1>3. ASSUME NEW s \in Rows PROVE TextMoves(s)
  <2>1. /\ s \in Seqs /\ seq[s].tokens \in Seq(Entry) /\ sent[s] \in Seq(Entry)
        /\ TextRow(s, seq[s].tokens, sent[s], status[s], Owed(s))
    BY TextFacts
  <2>2. CASE s \in Active
    <3>1. status[s] = "active" /\ Owed(s) = <<>>
      BY <1>1, <2>2 DEF Active, Owed, Idle
    <3>2. seq[s].tokens = sent[s]
      BY <2>1, <3>1, ConcatEmptySeq DEF TextRow
    <3>3. sent'[s] = sent[s] \o out[s]
      BY <1>2, <2>1, <2>2, <3>2
    <3>4. out[s] \in Seq(Entry)
      <4>1. out[s] \in [1 .. 1 -> Token] /\ 1 \in Nat
        BY <2>2
      <4>2. out[s] \in Seq(Token)
        BY <4>1, SeqFacts
      <4> QED
        BY <4>2, SeqSub DEF Entry
    <3>5. Len(sent'[s]) >= Len(sent[s])
      <4> DEFINE a == sent[s]
                 b == out[s]
      <4>1. Len(a \o b) = Len(a) + Len(b) /\ Len(a) \in Nat /\ Len(b) \in Nat
        BY <2>1, <3>4, ConcatType
      <4>2. sent'[s] = a \o b
        BY <3>3
      <4> HIDE DEF a, b
      <4>3. Len(a \o b) >= Len(a)
        BY <4>1
      <4> QED
        BY <4>2, <4>3 DEF a
    <3>6. Ended(s) = "no" /\ status'[s] # "failed"
      BY <1>2, <2>1, <3>1, EndedIs
    <3> QED
      BY <3>5, <3>6, EndedNext DEF TextMoves
  <2>3. CASE s \notin Active
    <3>1. sent'[s] = sent[s] /\ status'[s] = status[s]
      BY <1>2, <2>1, <2>3
    <3> QED
      BY <1>1, <3>1, MovesNot
  <2> QED
    BY <2>2, <2>3
<1> QED
  BY <1>1, <1>3 DEF TextsMove

LEMMA DraftMoves ==
  ASSUME IInv, TextInv, Draft
  PROVE  TextsMove
<1>1. step = Idle /\ UNCHANGED <<config, greedy, sent, status>>
  BY DEF Draft
<1> DEFINE none == [s \in {} |-> <<>>]
<1>2. DOMAIN step'.result = {} /\ DOMAIN step.result = {}
  <2>1. PICK guess \in [Active -> [1 .. D -> Token]] :
          step' = [at |-> "target", batch |-> Active, guess |-> guess, result |-> none]
    BY DEF Draft
  <2>2. step.result = none
    BY <1>1 DEF Idle
  <2>3. DOMAIN none = {}
    OBVIOUS
  <2> HIDE DEF none
  <2>4. step'.result = none
    BY <2>1
  <2> QED
    BY <2>2, <2>3, <2>4
<1> QED
  BY <1>1, <1>2, MovesNot DEF TextsMove

LEMMA TargetMoves ==
  ASSUME IInv, TextInv, Target
  PROVE  TextsMove
<1>1. /\ UNCHANGED <<config, greedy, sent, status>>
      /\ step.at = "target" /\ step' = [step EXCEPT !.at = "verify"]
  BY DEF Target
<1>2. Stepping
  <2>1. Idle.at = "idle"
    BY DEF Idle
  <2> QED
    BY <1>1, <2>1 DEF IInv, StepInv
<1>3. step'.result = step.result
  BY <1>1, <1>2 DEF Stepping
<1> QED
  BY <1>1, <1>3, MovesNot DEF TextsMove

(* Verify keeps a sequence that it completes for the answer. *)
LEMMA VerifyMoves ==
  ASSUME IInv, TextInv, NEW s \in Seqs, Verify(s)
  PROVE  TextsMove
<1>1. /\ Stepping /\ s \notin DOMAIN step.result /\ status[s] = "active"
      /\ UNCHANGED <<config, greedy, sent>> /\ status \in [Seqs -> Statuses]
  BY VerifyStep DEF IInv, Types
<1>2. PICK out, accepted, n, kept, r : VerifyTakes(s, out, accepted, n, kept, r)
  BY VerifyStep
<1>3. /\ status' = [status EXCEPT ![s] =
                      IF StopNow(r.tokens, Len(kept)) THEN "completed" ELSE @]
      /\ step' = [step EXCEPT !.result =
                    [u \in DOMAIN @ \union {s} |-> IF u = s THEN kept ELSE @[u]]]
  BY <1>2 DEF VerifyTakes
<1>4. DOMAIN step'.result = DOMAIN step.result \union {s}
  BY <1>1, <1>3 DEF Stepping
<1>5. ASSUME NEW t \in Rows PROVE TextMoves(t)
  <2>1. t \in Seqs
    BY TextFacts
  <2>2. CASE t = s
    <3>1. Ended(s) = "no"
      BY <1>1, EndedIs
    <3>2. status'[s] # "failed"
      BY <1>1, <1>3
    <3>3. Ended(s)' = "no"
      BY <1>4, <3>2, EndedNext
    <3> QED
      BY <1>1, <2>2, <3>1, <3>3 DEF TextMoves
  <2>3. CASE t # s
    <3>1. status'[t] = status[t] /\ sent'[t] = sent[t]
      BY <1>1, <1>3, <2>1, <2>3
    <3>2. t \in DOMAIN step'.result <=> t \in DOMAIN step.result
      BY <1>4, <2>3
    <3> QED
      BY <3>1, <3>2, MovesNot
  <2> QED
    BY <2>2, <2>3
<1> QED
  BY <1>1, <1>5 DEF TextsMove

LEMMA StepAnsweredMoves ==
  ASSUME IInv, TextInv, StepAnswered
  PROVE  TextsMove
<1>1. /\ step' = Idle /\ step.at = "verify" /\ DOMAIN step.result = step.batch
      /\ UNCHANGED <<config, greedy, status>>
      /\ sent' = [s \in Seqs |-> IF s \in step.batch THEN sent[s] \o step.result[s]
                                                     ELSE sent[s]]
  BY DEF StepAnswered
<1>2. Stepping
  BY <1>1 DEF IInv, StepInv, Idle
<1>3. DOMAIN step'.result = {}
  BY <1>1 DEF Idle
<1>4. ASSUME NEW s \in Rows PROVE TextMoves(s)
  <2>1. s \in Seqs /\ sent[s] \in Seq(Entry)
    BY TextFacts
  <2>2. CASE s \in step.batch
    <3>1. status[s] \in {"active", "completed"} /\ step.result[s] \in Seq(Token)
      BY <1>1, <1>2, <2>2 DEF Stepping
    <3>2. Len(sent'[s]) >= Len(sent[s])
      <4> DEFINE a == sent[s]
                 b == step.result[s]
      <4>1. sent'[s] = a \o b /\ a \in Seq(Entry) /\ b \in Seq(Entry)
        BY <1>1, <2>1, <2>2, <3>1, SeqSub DEF Entry
      <4> HIDE DEF a, b
      <4>2. Len(a \o b) = Len(a) + Len(b) /\ Len(a) \in Nat /\ Len(b) \in Nat
        BY <4>1, ConcatType
      <4>3. Len(a \o b) >= Len(a)
        BY <4>2
      <4> QED
        BY <4>1, <4>3 DEF a
    <3>3. Ended(s) = "no"
      BY <1>1, <2>2, <3>1, EndedIs
    <3>4. status'[s] # "failed"
      BY <1>1, <3>1
    <3> QED
      BY <3>2, <3>3, <3>4, EndedNext DEF TextMoves
  <2>3. CASE s \notin step.batch
    <3>1. sent'[s] = sent[s]
      BY <1>1, <2>1, <2>3
    <3> QED
      BY <1>1, <1>3, <2>3, <3>1, MovesNot
  <2> QED
    BY <2>2, <2>3
<1> QED
  BY <1>1, <1>4 DEF TextsMove

LEMMA DecodeFailsMoves ==
  ASSUME IInv, TextInv, DecodeFails
  PROVE  TextsMove
<1> DEFINE batch == IF config.spec THEN step.batch ELSE Active
<1>1. /\ UNCHANGED <<config, greedy, sent>> /\ step' = Idle
      /\ status' = [s \in Seqs |-> IF s \in batch THEN "failed" ELSE status[s]]
      /\ IF config.spec THEN step # Idle ELSE Active # {}
  BY DEF DecodeFails
<1>2. DOMAIN step'.result = {}
  BY <1>1 DEF Idle
<1>3. ASSUME NEW s \in Rows
      PROVE  /\ s \in batch => Ended(s) = "no"
             /\ s \notin batch => s \notin DOMAIN step.result
  <2>1. CASE config.spec
    <3>1. Stepping /\ batch = step.batch
      BY <1>1, <2>1 DEF IInv, StepInv
    <3>2. ASSUME s \in batch PROVE Ended(s) = "no"
      <4>1. CASE s \in DOMAIN step.result
        <5>1. status[s] \in {"active", "completed"}
          BY <3>1, <4>1 DEF Stepping
        <5> QED
          BY <4>1, <5>1, EndedIs
      <4>2. CASE s \notin DOMAIN step.result
        <5>1. status[s] = "active"
          BY <3>1, <3>2, <4>2 DEF Stepping
        <5> QED
          BY <5>1, EndedIs
      <4> QED
        BY <4>1, <4>2
    <3> QED
      BY <3>1, <3>2 DEF Stepping
  <2>2. CASE ~config.spec
    <3>1. step = Idle /\ batch = Active
      BY <2>2 DEF IInv, StepInv, Stepping
    <3>2. DOMAIN step.result = {}
      BY <3>1 DEF Idle
    <3>3. s \in batch => status[s] = "active"
      BY <3>1 DEF Active
    <3> QED
      BY <3>2, <3>3, EndedIs
  <2> QED
    BY <2>1, <2>2
<1> HIDE DEF batch
<1>4. ASSUME NEW s \in Rows PROVE TextMoves(s)
  <2>1. s \in Seqs /\ sent'[s] = sent[s]
    BY <1>1, TextFacts
  <2>2. CASE s \in batch
    <3>1. Ended(s)' = "failed"
      BY <1>1, <2>1, <2>2, EndedNext
    <3> QED
      BY <1>3, <2>1, <2>2, <3>1 DEF TextMoves
  <2>3. CASE s \notin batch
    <3>1. status'[s] = status[s]
      BY <1>1, <2>1, <2>3
    <3> QED
      BY <1>2, <1>3, <2>1, <2>3, <3>1, MovesNot
  <2> QED
    BY <2>2, <2>3
<1> QED
  BY <1>1, <1>4 DEF TextsMove

LEMMA GoOnMoves ==
  ASSUME IInv, TextInv, GoOn
  PROVE  TextsMove
<1>1. PICK out, rows : Postprocess(out, rows) /\ \A s \in Rows : GoesOn(s, out)
  BY DEF GoOn
<1>2. /\ UNCHANGED <<config, greedy, step>> /\ step = Idle
      /\ sent' = [s \in Seqs |-> seq'[s].tokens]
      /\ status' = [s \in Seqs |->
           IF s \notin Rows THEN status[s]
           ELSE IF status[s] = "finished" \/ StopNow(seq'[s].tokens, Len(NewTokens(s, out)))
           THEN "finished" ELSE "active"]
  BY <1>1, OfflineIdle DEF Postprocess, NewTokens, GoOn
<1>3. ASSUME NEW s \in Rows PROVE TextMoves(s)
  <2>1. /\ s \in Seqs /\ seq[s].tokens \in Seq(Entry) /\ sent[s] \in Seq(Entry)
        /\ TextRow(s, seq[s].tokens, sent[s], status[s], Owed(s))
    BY TextFacts
  <2>2. GoesOn(s, out)
    BY <1>1
  <2>3. status[s] \in {"new", "active", "finished"} /\ out[s] \in Seq(Token)
    BY <2>2 DEF GoesOn
  <2>4. sent[s] = seq[s].tokens
    <3>1. Owed(s) = <<>>
      BY <1>2 DEF Owed, Idle
    <3>2. seq[s].tokens = sent[s] \o Owed(s)
      BY <2>1, <2>3 DEF TextRow
    <3> QED
      BY <2>1, <3>1, <3>2, ConcatEmptySeq
  <2> DEFINE a == sent[s]
             b == NewTokens(s, out)
  <2>5. sent'[s] = a \o b
    BY <1>2, <2>1, <2>2, <2>4 DEF GoesOn
  <2>6. b \in Seq(Entry)
    <3>1. CASE status[s] # "finished"
      <4>1. b = out[s]
        BY <3>1 DEF NewTokens
      <4> HIDE DEF b
      <4> QED
        BY <2>3, <4>1, SeqSub DEF Entry
    <3>2. CASE status[s] = "finished"
      <4> DEFINE n == Len(out[s])
      <4>1. b = Repeat(Filler, n) /\ n \in Nat /\ Filler \in Entry
        BY <2>3, <3>2 DEF NewTokens, Entry
      <4> HIDE DEF b, n
      <4> QED
        BY <4>1, RepeatFacts
    <3> QED
      BY <3>1, <3>2
  <2>7. Len(sent'[s]) >= Len(sent[s])
    <3>1. a \in Seq(Entry)
      BY <2>1
    <3> HIDE DEF a, b
    <3>2. Len(a \o b) = Len(a) + Len(b) /\ Len(a) \in Nat /\ Len(b) \in Nat
      BY <2>6, <3>1, ConcatType
    <3>3. Len(a \o b) >= Len(a)
      BY <3>2
    <3> QED
      BY <2>5, <3>3 DEF a
  <2>8. status'[s] \in {"active", "finished"}
    <3> HIDE DEF b
    <3> QED
      BY <1>2, <2>1
  <2> HIDE DEF a, b
  <2> QED
    BY <2>3, <2>7, <2>8, EndedIs, EndedNext DEF TextMoves
<1> QED
  BY <1>2, <1>3 DEF TextsMove

LEMMA GenerateReturnsMoves ==
  ASSUME IInv, TextInv, GenerateReturns
  PROVE  TextsMove
<1>1. /\ UNCHANGED <<config, greedy, sent, step>>
      /\ status' = [s \in Seqs |-> IF s \in Rows THEN "completed" ELSE status[s]]
      /\ \A s \in Rows : status[s] = "finished"
  BY DEF GenerateReturns
<1>2. ASSUME NEW s \in Rows PROVE TextMoves(s)
  <2>1. s \in Seqs /\ sent[s] \in Seq(Entry)
    BY TextFacts
  <2>2. status'[s] = "completed" /\ status[s] = "finished" /\ sent'[s] = sent[s]
    BY <1>1, <2>1
  <2>3. Len(sent'[s]) >= Len(sent[s])
    <3>1. Len(sent[s]) \in Nat
      BY <2>1
    <3> QED
      BY <2>2, <3>1
  <2> QED
    BY <2>2, <2>3, EndedIs, EndedNext DEF TextMoves
<1> QED
  BY <1>1, <1>2 DEF TextsMove

(* generate fails for all its rows, and none of them had returned. *)
LEMMA GenerateFailsMoves ==
  ASSUME IInv, TextInv, GenerateFails
  PROVE  TextsMove
<1>1. /\ UNCHANGED <<config, greedy, sent, step>> /\ config.offline
      /\ status' = [s \in Seqs |-> IF s \in Rows THEN "failed" ELSE status[s]]
  BY DEF GenerateFails
<1>2. PICK t \in Rows : status[t] \in {"new", "active"}
  BY DEF GenerateFails
<1>3. ASSUME NEW s \in Rows PROVE TextMoves(s)
  <2>1. s \in Seqs /\ status[s] \in Statuses
    BY TextFacts
  <2>2. Phase(status[s]) = Phase(status[t])
    BY <1>1, <1>2 DEF IInv, Lockstep
  <2>3. status[s] \notin {"completed", "failed"}
    BY <1>2, <2>1, <2>2 DEF Phase, Running, Statuses
  <2>4. Ended(s) = "no"
    BY <2>3, EndedIs
  <2>5. status'[s] = "failed" /\ sent'[s] = sent[s]
    BY <1>1, <2>1
  <2> QED
    BY <2>4, <2>5, EndedNext DEF TextMoves
<1> QED
  BY <1>1, <1>3 DEF TextsMove

LEMMA NextMoves == Lossless /\ IInv /\ TextInv /\ [Next]_vars => TextsMove
<1> SUFFICES ASSUME Lossless, IInv, TextInv, [Next]_vars
             PROVE  TextsMove
  OBVIOUS
<1>1. ASSUME NEW s \in Seqs, Prefill(s) PROVE TextsMove
  BY <1>1, PrefillMoves
<1>2. ASSUME NEW s \in Seqs, PrefillFails(s) PROVE TextsMove
  BY <1>2, PrefillFailsMoves
<1>3. ASSUME NEW s \in Seqs, Verify(s) PROVE TextsMove
  BY <1>3, VerifyMoves
<1>4. CASE StandardDecode
  BY <1>4, StandardDecodeMoves
<1>5. CASE Draft
  BY <1>5, DraftMoves
<1>6. CASE Target
  BY <1>6, TargetMoves
<1>7. CASE StepAnswered
  BY <1>7, StepAnsweredMoves
<1>8. CASE DecodeFails
  BY <1>8, DecodeFailsMoves
<1>9. CASE GoOn
  BY <1>9, GoOnMoves
<1>10. CASE GeneratePrefill
  BY <1>9, <1>10, GeneratePrefillGoesOn
<1>11. CASE GenerateStep
  BY <1>9, <1>11, GenerateStepGoesOn
<1>12. CASE SpeculatePrefill \/ SpeculateStep
  BY <1>9, <1>12, SpeculatePrefillGoesOn, SpeculateStepGoesOn
<1>13. CASE GenerateReturns
  BY <1>13, GenerateReturnsMoves
<1>14. CASE GenerateFails
  BY <1>14, GenerateFailsMoves
<1>15. CASE UNCHANGED vars
  <2>1. UNCHANGED <<config, greedy, seq, sent, status, step>>
    BY <1>15 DEF vars
  <2> QED
    BY <2>1, MovesNot DEF TextsMove
<1> QED
  BY <1>1, <1>2, <1>3, <1>4, <1>5, <1>6, <1>7, <1>8, <1>9, <1>10, <1>11, <1>12, <1>13,
     <1>14, <1>15 DEF Next

(* Part(s, d) is what of d belongs to the text. *)
Part(s, d) ==
  IF s \in Rows /\ Len(d) > Len(Whole(s)) THEN First(d, Len(Whole(s))) ELSE d

(* What is delivered of a text that follows the greedy one begins it. *)
LEMMA PartOfWhole ==
  ASSUME NEW s \in Rows, greedy \in Greedies, NEW d \in Seq(Entry), Along(s, d)
  PROVE  \E n \in 0 .. Len(Whole(s)) :
           /\ Part(s, d) = SubSeq(Whole(s), 1, n) /\ Len(Part(s, d)) = n
           /\ n = IF Len(d) > Len(Whole(s)) THEN Len(Whole(s)) ELSE Len(d)
<1> DEFINE w == Len(Whole(s))
           n == IF Len(d) > w THEN w ELSE Len(d)
           p == Part(s, d)
           g == Whole(s)
           b == First(g, n)
<1>1. /\ g \in Seq(Token) /\ w \in Nat /\ w = Len(g)
      /\ \A i \in 1 .. w : g[i] = greedy[s][i]
  <2>1. PICK k \in 1 .. MaxNewTokens : /\ Whole(s) \in Seq(Token) /\ Len(Whole(s)) = k
                                       /\ \A i \in 1 .. k : Whole(s)[i] = greedy[s][i]
    BY WholeFacts
  <2> QED
    BY <2>1, LenType
<1>2. g \in Seq(Entry)
  BY <1>1, SeqSub DEF Entry
<1>3. \A i \in 1 .. Len(d) : i <= w => d[i] = greedy[s][i]
  BY DEF Along
<1>4. p = IF Len(d) > w THEN First(d, w) ELSE d
  BY DEF Part
<1>5. Len(d) \in Nat
  OBVIOUS
<1> HIDE DEF w, g, p
<1>6. n \in 0 .. w /\ n \in 0 .. Len(d) /\ n \in Nat
  BY <1>1, <1>5
<1>7. p = First(d, n)
  <2>1. CASE Len(d) > w
    BY <1>4, <2>1
  <2>2. CASE ~(Len(d) > w)
    <3>1. First(d, n) = d
      BY <2>2, SubSeqFull DEF First
    <3> QED
      BY <1>4, <2>2, <3>1
  <2> QED
    BY <2>1, <2>2
<1> HIDE DEF n, b
<1>8. p \in Seq(Entry) /\ Len(p) = n /\ \A i \in 1 .. n : p[i] = d[i]
  BY <1>6, <1>7, FirstFacts
<1>9. b \in Seq(Entry) /\ Len(b) = n /\ \A i \in 1 .. n : b[i] = g[i]
  <2>1. n \in 0 .. Len(g) /\ b = First(g, n)
    BY <1>1, <1>6 DEF b
  <2> QED
    BY <1>2, <2>1, FirstFacts
<1>10. \A i \in 1 .. n : p[i] = b[i]
  <2> SUFFICES ASSUME NEW i \in 1 .. n PROVE p[i] = b[i]
    OBVIOUS
  <2>1. i \in 1 .. w /\ i \in 1 .. Len(d) /\ i <= w
    BY <1>1, <1>5, <1>6
  <2>2. p[i] = d[i] /\ d[i] = greedy[s][i] /\ b[i] = g[i] /\ g[i] = greedy[s][i]
    BY <1>1, <1>3, <1>8, <1>9, <2>1
  <2> QED
    BY <2>2
<1>11. p = b
  BY <1>8, <1>9, <1>10, SeqEqual
<1>12. p = SubSeq(g, 1, n)
  BY <1>11 DEF b, First
<1> QED
  BY <1>6, <1>8, <1>12 DEF p, g, w, n

(* A text that is reported complete is whole. *)
LEMMA CompleteIsWhole ==
  ASSUME IInv', TextInv', UNCHANGED <<config, greedy>>, NEW s \in Rows
  PROVE  /\ sent'[s] \in Seq(Entry) /\ Along(s, sent'[s])
         /\ Ended(s)' = "complete" => Len(sent'[s]) >= Len(Whole(s))
<1>1. /\ Whole(s)' = Whole(s) /\ Rows' = Rows
  BY SameText
<1>2. TextRow(s, seq[s].tokens, sent[s], status[s], Owed(s))'
  BY <1>1 DEF TextInv
<1>3. sent' \in [Seqs -> Seq(Entry)] /\ config' \in Configs
  BY DEF IInv, Types
<1>4. s \in Seqs
  BY <1>3, ConfigFacts
<1>5. /\ Along(s, sent'[s])
      /\ status'[s] = "completed" => Len(seq'[s].tokens) >= Len(Whole(s))
      /\ status'[s] # "failed" => seq'[s].tokens = sent'[s] \o Owed(s)'
  BY <1>1, <1>2 DEF TextRow, Along
<1>6. sent'[s] \in Seq(Entry)
  BY <1>3, <1>4
<1>7. ASSUME Ended(s)' = "complete" PROVE Len(sent'[s]) >= Len(Whole(s))
  <2>1. status'[s] = "completed" /\ s \notin DOMAIN step'.result
    BY <1>7, EndedNext
  <2>2. Owed(s)' = <<>>
    BY <2>1 DEF Owed
  <2>3. seq'[s].tokens = sent'[s]
    BY <1>5, <1>6, <2>1, <2>2, ConcatEmptySeq
  <2> QED
    BY <1>5, <2>1, <2>3
<1> QED
  BY <1>5, <1>6, <1>7

LEMMA DeliveredIs ==
  ASSUME UNCHANGED <<config, greedy>>, NEW s
  PROVE  Delivered(s) = Part(s, sent[s]) /\ Delivered(s)' = Part(s, sent'[s])
<1>1. Whole(s)' = Whole(s) /\ Rows' = Rows
  BY SameText
<1> QED
  BY <1>1 DEF Delivered, Part


LEMMA RowSimulates ==
  ASSUME IInv, TextInv, IInv', TextInv', TextsMove, NEW s \in Seqs
  PROVE  Greedy!Grows(s) \/ Greedy!Fails(s) \/ Greedy!Stays(s)
<1>1. UNCHANGED <<config, greedy>>
  BY DEF TextsMove
<1>2. /\ Delivered(s) = Part(s, sent[s]) /\ Delivered(s)' = Part(s, sent'[s])
  BY <1>1, DeliveredIs
<1> DEFINE text == [t \in Seqs |-> Delivered(t)]
           end == [t \in Seqs |-> Ended(t)]
           whole == [t \in Seqs |-> IF t \in Rows THEN Whole(t) ELSE <<Eos>>]
<1>3. /\ text[s] = Part(s, sent[s]) /\ text'[s] = Part(s, sent'[s])
      /\ end[s] = Ended(s) /\ end'[s] = Ended(s)'
  BY <1>2
<1>4. CASE s \in Rows
  <2>1. TextMoves(s) /\ whole[s] = Whole(s)
    BY <1>4 DEF TextsMove
  <2>2. /\ greedy \in Greedies /\ sent[s] \in Seq(Entry) /\ Along(s, sent[s])
    BY <1>4, TextFacts
  <2>3. /\ sent'[s] \in Seq(Entry) /\ Along(s, sent'[s])
        /\ Ended(s)' = "complete" => Len(sent'[s]) >= Len(Whole(s))
    BY <1>1, <1>4, CompleteIsWhole
  <2>4. Len(Whole(s)) \in Nat
    <3>1. PICK k \in 1 .. MaxNewTokens : Len(Whole(s)) = k
      BY <1>4, <2>2, WholeFacts
    <3> QED
      BY <3>1, LenType
  <2>5. CASE sent'[s] = sent[s] /\ Ended(s)' = Ended(s)
    <3>1. text'[s] = text[s] /\ end'[s] = end[s]
      BY <1>3, <2>5
    <3> QED
      BY <3>1 DEF Greedy!Stays
  <2>6. CASE Ended(s) = "no" /\ Ended(s)' = "failed" /\ sent'[s] = sent[s]
    <3>1. text'[s] = text[s] /\ end[s] = "no" /\ end'[s] = "failed"
      BY <1>3, <2>6
    <3> QED
      BY <3>1 DEF Greedy!Fails
  <2>7. CASE Ended(s) = "no" /\ Ended(s)' # "failed" /\ Len(sent'[s]) >= Len(sent[s])
    <3> DEFINE w == Len(Whole(s))
    <3>1. PICK m \in 0 .. w : /\ text[s] = SubSeq(Whole(s), 1, m) /\ Len(text[s]) = m
                              /\ m = IF Len(sent[s]) > w THEN w ELSE Len(sent[s])
      BY <1>3, <1>4, <2>2, PartOfWhole
    <3>2. PICK n \in 0 .. w : /\ text'[s] = SubSeq(Whole(s), 1, n)
                              /\ n = IF Len(sent'[s]) > w THEN w ELSE Len(sent'[s])
      BY <1>3, <1>4, <2>2, <2>3, PartOfWhole
    <3>3. n \in m .. w
      <4>1. Len(sent[s]) \in Nat /\ Len(sent'[s]) \in Nat /\ w \in Nat
        BY <2>2, <2>3, <2>4
      <4> QED
        BY <2>7, <3>1, <3>2, <4>1
    <3>4. Ended(s)' \in IF n = w THEN {"no", "complete"} ELSE {"no"}
      <4>1. Ended(s)' \in {"no", "complete"}
        BY <2>7, EndedNext
      <4>2. Len(sent'[s]) \in Nat /\ w \in Nat
        BY <2>3, <2>4
      <4>3. Ended(s)' = "complete" => n = w
        BY <2>3, <3>2, <4>2
      <4> QED
        BY <4>1, <4>3
    <3>5. /\ end[s] = "no" /\ n \in Len(text[s]) .. Len(whole[s])
          /\ text'[s] = SubSeq(whole[s], 1, n)
          /\ end'[s] \in IF n = Len(whole[s]) THEN {"no", "complete"} ELSE {"no"}
      BY <1>3, <2>1, <2>7, <3>1, <3>2, <3>3, <3>4
    <3> HIDE DEF text, end, whole
    <3>6. /\ end[s] = "no"
          /\ \E k \in Len(text[s]) .. Len(whole[s]) :
               /\ text'[s] = SubSeq(whole[s], 1, k)
               /\ end'[s] \in IF k = Len(whole[s]) THEN {"no", "complete"} ELSE {"no"}
      BY <3>5
    <3> QED
      BY <3>6 DEF Greedy!Grows, text, end, whole
  <2> QED
    BY <2>1, <2>5, <2>6, <2>7 DEF TextMoves
<1>5. CASE s \notin Rows
  <2>1. Rows' = Rows
    BY <1>1, SameText
  <2>2. status[s] = "new" /\ sent[s] = <<>> /\ status'[s] = "new" /\ sent'[s] = <<>>
    BY <1>5, <2>1 DEF IInv, Fresh
  <2>3. Ended(s) = "no" /\ Ended(s)' = "no"
    BY <2>2, EndedIs, EndedNext
  <2>4. text'[s] = text[s] /\ end'[s] = end[s]
    BY <1>3, <2>2, <2>3
  <2> QED
    BY <2>4 DEF Greedy!Stays
<1> QED
  BY <1>4, <1>5

LEMMA GreedyInit == Init /\ IInv => Greedy!Init
<1> SUFFICES ASSUME Init, IInv
             PROVE  Greedy!Init
  OBVIOUS
<1>1. \A s \in Seqs : status[s] = "new" /\ sent[s] = <<>>
  BY DEF Init
<1>2. \A s \in Seqs : Ended(s) = "no" /\ Delivered(s) = <<>>
  <2> SUFFICES ASSUME NEW s \in Seqs PROVE Ended(s) = "no" /\ Delivered(s) = <<>>
    OBVIOUS
  <2>1. Ended(s) = "no"
    BY <1>1, EndedIs
  <2>2. CASE s \in Rows
    <3>1. PICK k \in 1 .. MaxNewTokens : Len(Whole(s)) = k
      BY <2>2, WholeFacts DEF IInv, Types
    <3>2. ~(Len(sent[s]) > Len(Whole(s)))
      BY <1>1, <3>1, LenType
    <3> QED
      BY <1>1, <2>1, <3>2 DEF Delivered
  <2>3. CASE s \notin Rows
    BY <1>1, <2>1, <2>3 DEF Delivered
  <2> QED
    BY <2>2, <2>3
<1>3. \A s \in Seqs : Len(IF s \in Rows THEN Whole(s) ELSE <<Eos>>) > 0
  <2> SUFFICES ASSUME NEW s \in Seqs
               PROVE  Len(IF s \in Rows THEN Whole(s) ELSE <<Eos>>) > 0
    OBVIOUS
  <2>1. CASE s \in Rows
    <3>1. PICK k \in 1 .. MaxNewTokens : Len(Whole(s)) = k
      BY <2>1, WholeFacts DEF IInv, Types
    <3> QED
      BY <2>1, <3>1, LenType
  <2>2. CASE s \notin Rows
    BY <2>2
  <2> QED
    BY <2>1, <2>2
<1>4. /\ [s \in Seqs |-> Delivered(s)] = [s \in Seqs |-> <<>>]
      /\ [s \in Seqs |-> Ended(s)] = [s \in Seqs |-> "no"]
  BY <1>2
<1> QED
  BY <1>3, <1>4 DEF Greedy!Init

LEMMA GreedyStep ==
  IInv /\ TextInv /\ IInv' /\ TextInv' /\ TextsMove => Greedy!Next
<1> SUFFICES ASSUME IInv, TextInv, IInv', TextInv', TextsMove
             PROVE  Greedy!Next
  OBVIOUS
<1>1. \A s \in Seqs : Greedy!Grows(s) \/ Greedy!Fails(s) \/ Greedy!Stays(s)
  BY RowSimulates
<1>2. UNCHANGED [s \in Seqs |-> IF s \in Rows THEN Whole(s) ELSE <<Eos>>]
  <2>1. UNCHANGED <<config, greedy>>
    BY DEF TextsMove
  <2>2. Rows' = Rows /\ \A s : Whole(s)' = Whole(s)
    BY <2>1, SameText
  <2> QED
    BY <2>2
<1> QED
  BY <1>1, <1>2 DEF Greedy!Next

(* The engine and the Generator, with a draft model or without, deliver    *)
(* what greedy decoding of each prompt says, up to the end of the text,    *)
(* and report a text complete when it is whole: every step of the decode   *)
(* loops is a step of GreedyDecoding or changes nothing there, whatever    *)
(* the draft guesses and wherever a step fails.                            *)
THEOREM GreedyImplemented ==
  ASSUME Lossless
  PROVE  Spec => GreedySpec
<1>1. Init => Greedy!Init
  BY InitInv, GreedyInit
<1>2. IInv /\ TextInv /\ [Next]_vars => Greedy!Next /\ IInv' /\ TextInv'
  BY NextInv, NextText, NextMoves, GreedyStep
<1>3. Spec => [](IInv /\ TextInv)
  BY TextInvariant
<1>4. Spec => Greedy!Spec
  BY <1>1, <1>2, <1>3, PTL DEF Spec, Greedy!Spec
<1> QED
  BY <1>4 DEF GreedySpec

-----------------------------------------------------------------------------
(* Loading                                                                 *)

(* The tensors that were read. *)
Have == model.checkpoint \ unread

LoadTypeOK ==
  /\ model \in Models /\ unread \subseteq model.checkpoint
  /\ params = [p \in Params(model) |-> params[p]]
  /\ loading \in {"reading", "loaded", "failed"}
  /\ loading = "loaded" => unread = {}

(* When the output projection is the embedding's parameter. *)
AliasIs ==
  alias = CASE model.arch = "qwen2" -> model.tied
            [] model.arch = "llama" -> model.tied /\ loading = "loaded"
            [] model.arch = "opt" -> LmHead \notin model.checkpoint /\ loading = "loaded"
            [] OTHER -> FALSE

(* Projections wait for the others, blocks for scales and the other way    *)
(* round.                                                                  *)
CacheIs ==
  loading # "loaded" => qkv_cache = {n \in Have : Collected(model, n)}

PendingIs ==
  model.arch = "gpt_oss" => \A p \in Params(model) :
    p[1] \in DOMAIN Quantized =>
      pending \intersect PairOf(p) =
        IF PairOf(p) \subseteq Have THEN {} ELSE Have \intersect PairOf(p)

(* What a parameter holds: the fused ones get theirs at the end.           *)
Contents(p) ==
  IF Skipped(model, p) /\ p = LmHead THEN Empty
  ELSE IF p[1] \in {"qkv", "qkv_bias"} /\ loading # "loaded"
  THEN IF p \in Have THEN <<p>> ELSE Empty
  ELSE Made(model, Have, p)

LoadInv ==
  /\ LoadTypeOK /\ AliasIs /\ CacheIs /\ PendingIs
  /\ \A p \in Params(model) : params[p] = Contents(p)

LEMMA LoadStarts ==
  ASSUME WellFormed, LoadInit PROVE LoadInv
<1> USE DEF LoadInit
<1>1. LoadTypeOK
  BY DEF LoadTypeOK
<1>2. AliasIs
  BY DEF AliasIs, WellFormed
<1>3. Have = {}
  BY DEF Have
<1>4. CacheIs /\ PendingIs
  BY <1>3 DEF CacheIs, PendingIs
<1>5. \A p \in Params(model) : params[p] = Contents(p)
  <2> TAKE p \in Params(model)
  <2>1. ~Complete(p[2], {})
    BY DEF Complete
  <2>2. PairOf(p) # {}
    BY DEF PairOf
  <2>3. Made(model, {}, p) = Empty
    BY <2>1, <2>2 DEF Made
  <2> QED
    BY <1>3, <2>3 DEF Contents
<1> QED
  BY <1>1, <1>2, <1>4, <1>5 DEF LoadInv

LEMMA HaveGrows ==
  ASSUME NEW n \in unread, unread' = unread \ {n}, model' = model, unread \subseteq model.checkpoint
  PROVE  Have' = Have \union {n}
BY DEF Have

(* A tensor that a parameter is not made from changes nothing about it.    *)
LEMMA MadeSame ==
  ASSUME NEW m, NEW p, NEW n, NEW have,
         n # p \/ (m.arch = "gpt_oss" /\ p[1] \in DOMAIN Quantized),
         p[1] \in {"qkv", "qkv_bias"} => n[1] \notin Projections,
         m.arch = "gpt_oss" /\ p[1] \in DOMAIN Quantized => n \notin PairOf(p),
         m.arch = "llama" /\ p[1] \in {"gate", "up"} => n # <<"gate_up", p[2]>>
  PROVE  Made(m, have \union {n}, p) = Made(m, have, p)
<1>1. CASE p[1] \in {"qkv", "qkv_bias"}
  <2>1. n # p
    BY <1>1 DEF Quantized
  <2>2. p \in have \union {n} <=> p \in have
    BY <2>1
  <2>3. \A i \in 1 .. 3 : <<QkvWeights[i], p[2]>> \in have \union {n} <=> <<QkvWeights[i], p[2]>> \in have
    <3> TAKE i \in 1 .. 3
    <3>1. <<QkvWeights[i], p[2]>> # n
      BY <1>1 DEF Projections
    <3> QED BY <3>1
  <2>4. \A i \in 1 .. 3 : <<QkvBiases[i], p[2]>> \in have \union {n} <=> <<QkvBiases[i], p[2]>> \in have
    <3> TAKE i \in 1 .. 3
    <3>1. <<QkvBiases[i], p[2]>> # n
      BY <1>1 DEF Projections
    <3> QED BY <3>1
  <2>5. Complete(p[2], have \union {n}) <=> Complete(p[2], have)
    BY <2>3 DEF Complete
  <2>6. FusedBias(p[2], have \union {n}) = FusedBias(p[2], have)
    BY <2>4, Zenon DEF FusedBias
  <2> HIDE DEF Complete, FusedBias, Fused
  <2> QED
    BY <1>1, <2>2, <2>5, <2>6 DEF Made
<1>2. CASE p[1] \notin {"qkv", "qkv_bias"} /\ m.arch = "gpt_oss" /\ p[1] \in DOMAIN Quantized
  <2>1. PairOf(p) \subseteq have \union {n} <=> PairOf(p) \subseteq have
    BY <1>2
  <2> QED
    BY <1>2, <2>1 DEF Made
<1>3. CASE p[1] \notin {"qkv", "qkv_bias"} /\ ~(m.arch = "gpt_oss" /\ p[1] \in DOMAIN Quantized)
  <2>1. p \in have \union {n} <=> p \in have
    BY <1>3
  <2> QED
    BY <1>3, <2>1 DEF Made
<1> QED
  BY <1>1, <1>2, <1>3

(* Of which kinds the parameters are. *)
LEMMA ParamsAre ==
  ASSUME NEW m, NEW p \in Params(m)
  PROVE  /\ p = <<p[1], p[2]>>
         /\ p[1] \notin {"buffer", "stray_bias"} \union ExpertParts
         /\ m.arch # "gptj" => p[1] \notin Projections
         /\ m.arch \notin {"gpt_oss"} => p[1] # "gate_up"
         /\ m.arch = "gpt_oss" => p[1] \notin {"gate", "up"}
         /\ Skipped(m, p) => p = LmHead \/ (m.arch = "gpt_oss" /\ p[1] \in DOMAIN Quantized)
<1>1. p = <<p[1], p[2]>> /\ p[1] \in {"embed", "head"} \union LayerParams(m)
  BY DEF Params, Embed, LmHead
<1>2. m.arch \in {"opt", "gptj"} => m.arch # "gpt_oss"
  OBVIOUS
<1>3. LayerParams(m) \subseteq
        {"norm", "qkv", "qkv_bias", "q", "k", "v", "gate", "up", "down",
         "gate_up", "gate_up_bias", "down_bias"}
  BY DEF LayerParams
<1>4. m.arch # "gptj" => LayerParams(m) \intersect {"q", "k", "v"} = {}
  BY DEF LayerParams
<1>5. m.arch # "gpt_oss" => "gate_up" \notin LayerParams(m)
  BY DEF LayerParams
<1>6. m.arch = "gpt_oss" => LayerParams(m) \intersect {"gate", "up"} = {}
  BY DEF LayerParams
<1>7. Projections = {"q", "k", "v", "q_bias", "k_bias", "v_bias"}
  BY DEF Projections, QkvWeights, QkvBiases
<1>8. ExpertParts = {"gate_up_blocks", "gate_up_scales", "down_blocks", "down_scales"}
  BY DEF ExpertParts, Quantized
<1> QED
  BY <1>1, <1>3, <1>4, <1>5, <1>6, <1>7, <1>8 DEF Skipped

(* What a tensor leaves as it was. *)
LEMMA Frame ==
  ASSUME LoadInv, WellFormed, NEW n \in unread, loading = "reading",
         unread' = unread \ {n}, UNCHANGED <<model, alias, loading>>
  PROVE  /\ Have' = Have \union {n} /\ n \notin Have /\ AliasIs'
         /\ n = <<n[1], n[2]>> /\ n[1] \in STRING /\ n[2] \in 0 .. model.layers
         /\ params' = [p \in Params(model) |-> params'[p]] => LoadTypeOK'
<1> USE DEF LoadInv, LoadTypeOK
<1>1. Have' = Have \union {n} /\ n \notin Have
  BY DEF Have
<1>2. AliasIs'
  BY DEF AliasIs
<1>3. n \in STRING \X (0 .. model.layers)
  BY DEF WellFormed
<1> QED
  BY <1>1, <1>2, <1>3

(* What the actions do to the parameters that n is no tensor of.           *)
LEMMA HoldsSame ==
  ASSUME LoadInv, WellFormed, NEW n \in unread, loading = "reading",
         unread' = unread \ {n}, UNCHANGED <<model, alias, loading>>,
         NEW p \in Params(model),
         n # p \/ Skipped(model, n),
         model.arch = "gpt_oss" /\ p[1] \in DOMAIN Quantized => n \notin PairOf(p),
         model.arch = "llama" /\ p[1] \in {"gate", "up"} => n # <<"gate_up", p[2]>>
  PROVE  Contents(p)' = Contents(p)
<1>1. Have' = Have \union {n} /\ model' = model /\ loading' = loading
  BY Frame
<1>2. CASE Skipped(model, p) /\ p = LmHead
  BY <1>1, <1>2 DEF Contents
<1>3. CASE ~(Skipped(model, p) /\ p = LmHead) /\ p[1] \in {"qkv", "qkv_bias"}
  <2>1. n # p
    BY <1>3, ParamsAre DEF Quantized
  <2> QED
    BY <1>1, <1>3, <2>1 DEF Contents
<1>4. CASE ~(Skipped(model, p) /\ p = LmHead) /\ p[1] \notin {"qkv", "qkv_bias"}
  <2>1. n # p \/ (model.arch = "gpt_oss" /\ p[1] \in DOMAIN Quantized)
    BY <1>4, ParamsAre
  <2>2. Made(model, Have \union {n}, p) = Made(model, Have, p)
    BY <1>4, <2>1, MadeSame
  <2> QED
    BY <1>1, <1>4, <2>2 DEF Contents
<1> QED
  BY <1>2, <1>3, <1>4

(* One lemma per action. *)
LEMMA Skips ==
  ASSUME LoadInv, WellFormed, NEW n \in unread, loading = "reading", Skip(n),
         unread' = unread \ {n}, UNCHANGED <<model, alias, loading>>
  PROVE  LoadInv'
<1>1. /\ Have' = Have \union {n} /\ n \notin Have /\ AliasIs' /\ n = <<n[1], n[2]>>
      /\ params' = [p \in Params(model) |-> params'[p]] => LoadTypeOK'
  BY Frame
<1>2. Skipped(model, n) /\ UNCHANGED <<params, qkv_cache, pending>>
  BY DEF Skip
<1>3. LoadTypeOK'
  BY <1>1, <1>2 DEF LoadInv, LoadTypeOK
<1>4. ~Collected(model, n) /\ n[1] \notin ExpertParts
  BY <1>2 DEF Skipped, Collected, Projections, QkvWeights, QkvBiases, ExpertParts, Quantized, LmHead
<1>5. CacheIs'
  BY <1>1, <1>2, <1>4 DEF LoadInv, CacheIs
<1>6. \A p : p[1] \in DOMAIN Quantized => n \notin PairOf(p)
  BY <1>4 DEF PairOf, ExpertParts, Quantized
<1>7. PendingIs'
  BY <1>1, <1>2, <1>6 DEF LoadInv, PendingIs
<1>8. \A p \in Params(model) :
        model.arch = "llama" /\ p[1] \in {"gate", "up"} => n # <<"gate_up", p[2]>>
  BY <1>2 DEF Skipped, LmHead
<1>9. \A p \in Params(model) : Contents(p)' = Contents(p)
  BY <1>2, <1>6, <1>8, HoldsSame
<1> QED
  BY <1>1, <1>2, <1>3, <1>5, <1>7, <1>9 DEF LoadInv

LEMMA Collects ==
  ASSUME LoadInv, WellFormed, NEW n \in unread, loading = "reading", Collect(n),
         unread' = unread \ {n}, UNCHANGED <<model, alias, loading>>
  PROVE  LoadInv'
<1>1. /\ Have' = Have \union {n} /\ n \notin Have /\ AliasIs' /\ n = <<n[1], n[2]>>
      /\ params' = [p \in Params(model) |-> params'[p]] => LoadTypeOK'
  BY Frame
<1>2. Collected(model, n) /\ UNCHANGED <<params, pending>> /\ qkv_cache' = qkv_cache \union {n}
  BY DEF Collect
<1>3. LoadTypeOK'
  BY <1>1, <1>2 DEF LoadInv, LoadTypeOK
<1>4. n[1] \notin ExpertParts /\ n[1] # "gate_up"
  BY <1>2 DEF Collected, Projections, QkvWeights, QkvBiases, ExpertParts, Quantized
<1>5. CacheIs'
  BY <1>1, <1>2 DEF LoadInv, CacheIs
<1>6. \A p : p[1] \in DOMAIN Quantized => n \notin PairOf(p)
  BY <1>4 DEF PairOf, ExpertParts, Quantized
<1>7. PendingIs'
  BY <1>1, <1>2, <1>6 DEF LoadInv, PendingIs
<1>8. \A p \in Params(model) : n # p /\ n # <<"gate_up", p[2]>>
  BY <1>2, <1>4, ParamsAre DEF Collected
<1>9. \A p \in Params(model) : Contents(p)' = Contents(p)
  BY <1>6, <1>8, HoldsSame
<1> QED
  BY <1>1, <1>2, <1>3, <1>5, <1>7, <1>9 DEF LoadInv

(* No two parameters are made of the same blocks or scales. *)
LEMMA PairsApart ==
  ASSUME NEW m, NEW p \in Params(m), NEW r \in Params(m),
         p[1] \in DOMAIN Quantized, r[1] \in DOMAIN Quantized, p # r
  PROVE  PairOf(p) \intersect PairOf(r) = {}
<1>1. p = <<p[1], p[2]>> /\ r = <<r[1], r[2]>>
  BY ParamsAre
<1> QED
  BY <1>1 DEF PairOf, Quantized

(* Two of a kind are ready when the last of them comes.                    *)
LEMMA ReadyIs ==
  ASSUME LoadInv, NEW n, n \notin Have, model.arch = "gpt_oss",
         NEW p \in Params(model), p[1] \in DOMAIN Quantized
  PROVE  Ready(p, pending \union {n}) <=> n \in PairOf(p) /\ PairOf(p) \subseteq Have \union {n}
<1>1. pending \intersect PairOf(p) =
        IF PairOf(p) \subseteq Have THEN {} ELSE Have \intersect PairOf(p)
  BY DEF LoadInv, PendingIs
<1>2. PairOf(p) # {}
  BY DEF PairOf
<1>3. Ready(p, pending \union {n}) <=> PairOf(p) \subseteq pending \union {n}
  BY DEF Ready
<1>4. CASE n \in PairOf(p)
  BY <1>1, <1>3, <1>4
<1>5. CASE n \notin PairOf(p)
  BY <1>1, <1>2, <1>3, <1>5
<1> QED
  BY <1>4, <1>5

LEMMA CollectsExpert ==
  ASSUME LoadInv, WellFormed, NEW n \in unread, loading = "reading", CollectExpert(n),
         unread' = unread \ {n}, UNCHANGED <<model, alias, loading>>
  PROVE  LoadInv'
<1>1. /\ Have' = Have \union {n} /\ n \notin Have /\ AliasIs' /\ n = <<n[1], n[2]>>
      /\ params' = [p \in Params(model) |-> params'[p]] => LoadTypeOK'
  BY Frame
<1> DEFINE have == pending \union {n}
           ready == {p \in Params(model) : Ready(p, have)}
<1>2. /\ Expert(model, n) /\ qkv_cache' = qkv_cache
      /\ params' = [p \in Params(model) |-> IF p \in ready THEN Dequantized(p) ELSE params[p]]
      /\ pending' = have \ UNION {PairOf(p) : p \in ready}
  BY DEF CollectExpert
<1>3. model.arch = "gpt_oss" /\ n[1] \in ExpertParts
  BY <1>2 DEF Expert
<1>4. n[1] \notin Projections /\ n[1] \notin DOMAIN Quantized
  BY <1>3 DEF Projections, QkvWeights, QkvBiases, ExpertParts, Quantized
<1>5. LoadTypeOK'
  <2>1. params' = [p \in Params(model) |-> params'[p]]
    BY <1>2
  <2> QED
    BY <1>1, <2>1
<1>6. CacheIs'
  BY <1>1, <1>2, <1>4 DEF LoadInv, CacheIs, Collected
<1>7. ASSUME NEW p \in Params(model), p[1] \in DOMAIN Quantized
      PROVE  p \in ready <=> n \in PairOf(p) /\ PairOf(p) \subseteq Have \union {n}
  BY <1>1, <1>3, <1>7, ReadyIs
<1>8. \A r \in ready : r \in Params(model) /\ r[1] \in DOMAIN Quantized
  BY DEF Ready
<1>9. PendingIs'
  <2> SUFFICES ASSUME NEW p \in Params(model), p[1] \in DOMAIN Quantized
               PROVE  pending' \intersect PairOf(p) =
                        IF PairOf(p) \subseteq Have' THEN {} ELSE Have' \intersect PairOf(p)
    BY <1>1, LoadTypeOK' DEF PendingIs, LoadTypeOK, LoadInv
  <2>1. pending \intersect PairOf(p) =
          IF PairOf(p) \subseteq Have THEN {} ELSE Have \intersect PairOf(p)
    BY <1>3 DEF LoadInv, PendingIs
  <2>2. pending' \intersect PairOf(p) = IF p \in ready THEN {} ELSE have \intersect PairOf(p)
    <3>1. \A r \in ready : r # p => PairOf(r) \intersect PairOf(p) = {}
      BY <1>8, PairsApart
    <3> HIDE DEF ready, have
    <3> QED
      BY <1>2, <3>1
  <2> HIDE DEF ready
  <2>3. CASE n \in PairOf(p)
    BY <1>1, <1>7, <2>1, <2>2, <2>3
  <2>4. CASE n \notin PairOf(p)
    BY <1>1, <1>7, <2>1, <2>2, <2>4
  <2> QED
    BY <2>3, <2>4
<1>10. ASSUME NEW p \in Params(model) PROVE params'[p] = Contents(p)'
  <2>1. params[p] = Contents(p)
    BY DEF LoadInv
  <2>2. p # n
    BY <1>3, ParamsAre
  <2>3. CASE p[1] \in DOMAIN Quantized /\ n \in PairOf(p)
    <3>1. \A have_ : Made(model, have_, p) = IF PairOf(p) \subseteq have_ THEN Dequantized(p) ELSE Empty
      BY <1>3, <2>3 DEF Made, Quantized
    <3>2. Contents(p) = Made(model, Have, p) /\ Contents(p)' = Made(model, Have', p)
      <4>1. p[1] \notin {"qkv", "qkv_bias"} /\ p # LmHead
        BY <2>3 DEF Quantized, LmHead
      <4> QED
        BY <4>1 DEF Contents
    <3>3. ~(PairOf(p) \subseteq Have)
      BY <1>1, <2>3
    <3>4. params'[p] = IF PairOf(p) \subseteq Have' THEN Dequantized(p) ELSE params[p]
      <4> HIDE DEF ready
      <4> QED BY <1>1, <1>2, <1>7, <2>3
    <3> QED
      BY <2>1, <3>1, <3>2, <3>3, <3>4
  <2>4. CASE ~(p[1] \in DOMAIN Quantized /\ n \in PairOf(p))
    <3>1. p \notin ready
      BY <1>7, <1>8, <2>4
    <3>2. params'[p] = params[p]
      <4> HIDE DEF ready
      <4> QED BY <1>2, <3>1
    <3>3. Contents(p)' = Contents(p)
      BY <1>3, <2>2, <2>4, HoldsSame
    <3> QED
      BY <2>1, <3>2, <3>3
  <2> QED
    BY <2>3, <2>4
<1> QED
  BY <1>1, <1>2, <1>5, <1>6, <1>9, <1>10 DEF LoadInv

LEMMA Copies ==
  ASSUME LoadInv, WellFormed, NEW n \in unread, loading = "reading", Copy(n),
         unread' = unread \ {n}, UNCHANGED <<model, alias, loading>>
  PROVE  LoadInv'
<1>1. /\ Have' = Have \union {n} /\ n \notin Have /\ AliasIs' /\ n = <<n[1], n[2]>>
      /\ params' = [p \in Params(model) |-> params'[p]] => LoadTypeOK'
  BY Frame
<1>2. /\ ~Skipped(model, n) /\ ~Collected(model, n) /\ ~Expert(model, n)
      /\ params' = Copied(n) /\ UNCHANGED <<qkv_cache, pending>>
  BY DEF Copy
<1>3. LoadTypeOK'
  <2>1. params' = [p \in Params(model) |-> params'[p]]
    BY <1>2 DEF Copied
  <2> QED
    BY <1>1, <2>1
<1>4. CacheIs'
  BY <1>1, <1>2 DEF LoadInv, CacheIs
<1>5. ASSUME model.arch = "gpt_oss" PROVE \A p : p[1] \in DOMAIN Quantized => n \notin PairOf(p)
  BY <1>2, <1>5 DEF Expert, PairOf, ExpertParts, Quantized
<1>6. PendingIs'
  BY <1>1, <1>2, <1>5 DEF LoadInv, PendingIs
<1>7. ASSUME NEW p \in Params(model) PROVE params'[p] = Contents(p)'
  <2>1. params[p] = Contents(p) /\ p = <<p[1], p[2]>>
    BY ParamsAre DEF LoadInv
  <2>2. CASE IsSplit(model, n) /\ p \in {<<"gate", n[2]>>, <<"up", n[2]>>}
    <3>1. model.arch = "llama" /\ n = <<"gate_up", p[2]>> /\ p[1] \in {"gate", "up"}
      BY <1>1, <2>2 DEF IsSplit
    <3>2. params'[p] = Half(n, IF p[1] = "gate" THEN 1 ELSE 2)
      BY <1>2, <2>2 DEF Copied, Split
    <3>3. Made(model, Have', p) = Half(n, IF p[1] = "gate" THEN 1 ELSE 2)
      <4> HIDE DEF Have, Half
      <4> QED BY <1>1, <3>1 DEF Made
    <3>4. Contents(p)' = Made(model, Have', p)
      BY <3>1 DEF Contents, LmHead
    <3> QED
      BY <3>2, <3>3, <3>4
  <2>3. CASE p = n /\ ~(IsSplit(model, n) /\ p \in {<<"gate", n[2]>>, <<"up", n[2]>>})
    <3>1. params'[p] = <<p>>
      BY <1>2, <2>3 DEF Copied
    <3>2. p \in Have' /\ model' = model /\ loading' = "reading"
      BY <1>1, <2>3
    <3>3. CASE p[1] \in {"qkv", "qkv_bias"}
      BY <1>2, <2>3, <3>1, <3>2, <3>3 DEF Contents
    <3>4. CASE p[1] \notin {"qkv", "qkv_bias"}
      <4>1. ~(model.arch = "gpt_oss" /\ p[1] \in DOMAIN Quantized)
        BY <1>2, <2>3 DEF Skipped
      <4>2. ~(model.arch = "llama" /\ p[1] \in {"gate", "up"} /\ <<"gate_up", p[2]>> \in Have')
        <5>1. p \in model.checkpoint /\ Have' \subseteq model.checkpoint /\ model \in Models
          BY <1>3, <2>3 DEF LoadInv, LoadTypeOK, Have
        <5>2. p[2] \in 0 .. model.layers
          BY <2>3, Frame
        <5> HIDE DEF Have
        <5>3. SUFFICES ASSUME model.arch = "llama", p[1] \in {"gate", "up"},
                              <<"gate_up", p[2]>> \in Have'
                       PROVE  FALSE
          OBVIOUS
        <5>4. PICK l \in 0 .. model.layers : l = p[2]
          BY <5>2
        <5>5. <<"gate", l>> \notin model.checkpoint /\ <<"up", l>> \notin model.checkpoint
          BY <5>1, <5>3, <5>4 DEF WellFormed
        <5>6. p = <<"gate", l>> \/ p = <<"up", l>>
          BY <2>1, <5>3, <5>4
        <5> QED
          BY <5>1, <5>5, <5>6
      <4>3. Made(model, Have', p) = <<p>>
        BY <3>2, <3>4, <4>1, <4>2 DEF Made, Quantized
      <4> QED
        BY <1>2, <2>3, <3>1, <3>2, <3>4, <4>3 DEF Contents
    <3> QED
      BY <3>3, <3>4
  <2>4. CASE p # n /\ ~(IsSplit(model, n) /\ p \in {<<"gate", n[2]>>, <<"up", n[2]>>})
    <3>1. params'[p] = params[p]
      BY <1>2, <2>4 DEF Copied
    <3>2. model.arch = "llama" /\ p[1] \in {"gate", "up"} => n # <<"gate_up", p[2]>>
      BY <2>1, <2>4 DEF IsSplit
    <3>3. Contents(p)' = Contents(p)
      BY <1>5, <2>4, <3>2, HoldsSame
    <3> QED
      BY <2>1, <3>1, <3>3
  <2> QED
    BY <2>2, <2>3, <2>4
<1> QED
  BY <1>1, <1>2, <1>3, <1>4, <1>6, <1>7 DEF LoadInv

LEMMA Finishes ==
  ASSUME LoadInv, WellFormed, Finish
  PROVE  LoadInv'
<1>1. /\ loading = "reading" /\ unread = {} /\ loading' = "loaded"
      /\ UNCHANGED <<model, unread, pending>>
  BY DEF Finish
<1>2. Have = model.checkpoint /\ Have' = Have
  BY <1>1 DEF Have
<1>3. AliasIs'
  <2>1. model.arch \in {"llama", "qwen2", "opt", "gptj", "gpt_oss"}
    BY DEF LoadInv, LoadTypeOK, WellFormed
  <2>2. alias' = CASE model.arch = "llama" -> model.tied
                   [] model.arch = "opt" -> LmHead \notin model.checkpoint
                   [] OTHER -> alias
    BY DEF Finish
  <2>3. alias = CASE model.arch = "qwen2" -> model.tied
                  [] model.arch = "llama" -> FALSE
                  [] model.arch = "opt" -> FALSE
                  [] OTHER -> FALSE
    BY <1>1 DEF LoadInv, AliasIs
  <2>4. alias' = CASE model.arch = "qwen2" -> model.tied
                   [] model.arch = "llama" -> model.tied
                   [] model.arch = "opt" -> LmHead \notin model.checkpoint
                   [] OTHER -> FALSE
    <3>1. CASE model.arch = "qwen2" BY <2>2, <2>3, <3>1
    <3>2. CASE model.arch = "llama" BY <2>2, <2>3, <3>2
    <3>3. CASE model.arch = "opt" BY <2>2, <2>3, <3>3
    <3>4. CASE model.arch \in {"gptj", "gpt_oss"} BY <2>2, <2>3, <3>4
    <3> QED BY <2>1, <3>1, <3>2, <3>3, <3>4
  <2> QED
    BY <1>1, <2>1, <2>4 DEF AliasIs, LoadInv, LoadTypeOK, WellFormed
<1>4. params' = [p \in Params(model) |->
       IF p[1] = "qkv" /\ Complete(p[2], qkv_cache) THEN Fused(p[2])
       ELSE IF p[1] = "qkv_bias" /\ Complete(p[2], qkv_cache)
       THEN FusedBias(p[2], qkv_cache) ELSE params[p]]
  BY DEF Finish
<1>5. LoadTypeOK'
  <2>1. params' = [p \in Params(model) |-> params'[p]]
    BY <1>4
  <2> QED
    BY <1>1, <2>1 DEF LoadInv, LoadTypeOK
<1>6. CacheIs' /\ PendingIs'
  BY <1>1, <1>2 DEF LoadInv, CacheIs, PendingIs
<1>7. ASSUME NEW p \in Params(model) PROVE params'[p] = Contents(p)'
  <2>1. params[p] = Contents(p) /\ p = <<p[1], p[2]>>
    BY ParamsAre DEF LoadInv
  <2>2. CASE p[1] \notin {"qkv", "qkv_bias"}
    <3>1. params'[p] = params[p]
      BY <1>4, <2>2
    <3> QED
      BY <1>1, <1>2, <2>1, <2>2, <3>1 DEF Contents
  <2>3. CASE p[1] \in {"qkv", "qkv_bias"}
    <3>1. model.arch # "gptj"
      <4>1. model.arch = "gptj" => ~model.bias
        BY DEF WellFormed, LoadInv, LoadTypeOK
      <4>2. p[1] \in LayerParams(model)
        BY <2>3 DEF Params, Embed, LmHead
      <4>3. model.arch = "gptj" => LayerParams(model) = {"norm", "q", "k", "v", "up", "down"}
        BY <4>1 DEF LayerParams
      <4> QED
        BY <2>3, <4>2, <4>3
    <3>2. \A n : n \in qkv_cache <=> n \in Have /\ n[1] \in Projections
      BY <1>1, <3>1 DEF LoadInv, CacheIs, Collected
    <3>3. \A i \in 1 .. 3 : \A l : <<QkvWeights[i], l>> \in qkv_cache <=> <<QkvWeights[i], l>> \in Have
      BY <3>2 DEF Projections
    <3>4. \A i \in 1 .. 3 : \A l : <<QkvBiases[i], l>> \in qkv_cache <=> <<QkvBiases[i], l>> \in Have
      BY <3>2 DEF Projections
    <3>5. Complete(p[2], qkv_cache) <=> Complete(p[2], Have)
      BY <3>3 DEF Complete
    <3>6. FusedBias(p[2], qkv_cache) = FusedBias(p[2], Have)
      BY <3>4, Zenon DEF FusedBias
    <3>7. p \in Have => ~Complete(p[2], Have)
      <4>1. p \in Have => p[2] \in 0 .. model.layers /\ model \in Models
        BY <1>2, <2>1 DEF WellFormed, LoadInv, LoadTypeOK
      <4>2. Complete(p[2], Have) =>
              {<<"q", p[2]>>, <<"k", p[2]>>, <<"v", p[2]>>} \subseteq model.checkpoint
        BY <1>2 DEF Complete, QkvWeights
      <4>3. p \in {<<"qkv", p[2]>>, <<"qkv_bias", p[2]>>}
        BY <2>1, <2>3
      <4> QED
        BY <1>2, <4>1, <4>2, <4>3 DEF WellFormed
    <3>8. params[p] = IF p \in Have THEN <<p>> ELSE Empty
      <4>1. p # LmHead
        BY <2>3 DEF LmHead
      <4> QED
        BY <1>1, <2>1, <2>3, <4>1 DEF Contents
    <3>9. params'[p] = Made(model, Have, p)
      <4>1. params'[p] = IF p[1] = "qkv" /\ Complete(p[2], Have) THEN Fused(p[2])
                         ELSE IF p[1] = "qkv_bias" /\ Complete(p[2], Have)
                         THEN FusedBias(p[2], Have) ELSE params[p]
        <5> HIDE DEF Complete, FusedBias, Fused
        <5> QED BY <1>4, <3>5, <3>6
      <4> HIDE DEF Complete, FusedBias, Fused, Have
      <4>2. CASE p \in Have
        BY <2>3, <3>7, <3>8, <4>1, <4>2 DEF Made, Quantized
      <4>3. CASE p \notin Have /\ p[1] = "qkv"
        BY <3>8, <4>1, <4>3 DEF Made, Quantized
      <4>4. CASE p \notin Have /\ p[1] = "qkv_bias"
        BY <3>8, <4>1, <4>4 DEF Made, Quantized
      <4> QED BY <2>3, <4>2, <4>3, <4>4
    <3>10. Contents(p)' = Made(model, Have, p)
      <4>1. p # LmHead
        BY <2>3 DEF LmHead
      <4> QED BY <1>1, <1>2, <4>1 DEF Contents
    <3> QED
      BY <3>9, <3>10
  <2> QED
    BY <2>2, <2>3
<1> QED
  BY <1>1, <1>3, <1>5, <1>6, <1>7 DEF LoadInv

LEMMA LoadKeeps ==
  ASSUME LoadInv, WellFormed, [LoadNext]_loadVars
  PROVE  LoadInv'
<1>1. ASSUME NEW n \in unread, LoadTensor(n) PROVE LoadInv'
  BY <1>1, Skips, Collects, CollectsExpert, Copies DEF LoadTensor
<1>2. ASSUME NEW n \in unread, LoadFails(n) PROVE LoadInv'
  <2>1. /\ loading = "reading" /\ loading' = "failed"
        /\ UNCHANGED <<model, unread, params, alias, qkv_cache, pending>>
    BY <1>2 DEF LoadFails
  <2>2. \A p \in Params(model) : Contents(p)' = Contents(p)
    BY <2>1 DEF Contents, Have
  <2>3. LoadTypeOK' /\ AliasIs' /\ CacheIs' /\ PendingIs'
    BY <2>1 DEF LoadInv, LoadTypeOK, AliasIs, CacheIs, PendingIs, Have
  <2> QED
    BY <2>1, <2>2, <2>3 DEF LoadInv
<1>3. CASE UNCHANGED loadVars
  <2>1. Have' = Have /\ \A p \in Params(model) : Contents(p)' = Contents(p)
    BY <1>3 DEF Contents, Have, loadVars
  <2>2. LoadTypeOK' /\ AliasIs' /\ CacheIs' /\ PendingIs'
    BY <1>3 DEF LoadInv, LoadTypeOK, AliasIs, CacheIs, PendingIs, Have, loadVars
  <2> QED
    BY <1>3, <2>1, <2>2 DEF LoadInv, loadVars
<1> QED
  BY <1>1, <1>2, <1>3, Finishes DEF LoadNext

(* What LoadInv says of the values that the model computes with.           *)
LEMMA LoadedIs ==
  ASSUME LoadInv, WellFormed PROVE WeightsLoaded
<1> SUFFICES ASSUME NEW p \in Params(model)
             PROVE  /\ Value(p) \in {Empty, Wanted(model, p)}
                    /\ loading = "loaded" => Value(p) = Wanted(model, p)
  BY DEF WeightsLoaded
<1>1. /\ model \in Models /\ Have \subseteq model.checkpoint
      /\ loading \in {"reading", "loaded", "failed"}
      /\ loading = "loaded" => Have = model.checkpoint
  BY DEF LoadInv, LoadTypeOK, Have
<1>2. model.arch \in {"llama", "qwen2", "opt", "gptj", "gpt_oss"} /\ model.tied \in BOOLEAN
  BY <1>1 DEF WellFormed
<1>3. Embed \in Params(model) /\ Embed[1] = "embed" /\ LmHead[1] = "head" /\ LmHead # Embed
  BY DEF Params, Embed, LmHead
<1>4. \A r \in Params(model) : params[r] = Contents(r)
  BY DEF LoadInv
<1>5. \A r \in {Embed, LmHead} : \A have :
        Made(model, have, r) = IF r \in have THEN <<r>> ELSE Empty
  BY <1>3 DEF Made, Quantized
<1>6. /\ params[Embed] \in {Empty, Made(model, model.checkpoint, Embed)}
      /\ loading = "loaded" => params[Embed] = Made(model, model.checkpoint, Embed)
  <2>1. params[Embed] = Made(model, Have, Embed)
    BY <1>3, <1>4 DEF Contents
  <2> QED
    BY <1>1, <1>5, <2>1
<1>7. CASE p = LmHead
  <2>1. /\ alias => Tied(model)
        /\ loading = "loaded" /\ Tied(model) => alias
    BY <1>2 DEF LoadInv, AliasIs, Tied
  <2>2. CASE alias
    BY <1>6, <1>7, <2>1, <2>2 DEF Value, Wanted
  <2>3. CASE ~alias
    <3>1. Value(p) = params[LmHead] /\ params[LmHead] = Contents(LmHead)
      BY <1>4, <1>7, <2>3 DEF Value
    <3>2. CASE Skipped(model, LmHead)
      <4>1. Tied(model)
        BY <1>3, <3>2 DEF Skipped, Tied, Quantized
      <4> QED
        BY <1>3, <1>7, <2>1, <2>3, <3>1, <3>2, <4>1 DEF Contents
    <3>3. CASE ~Skipped(model, LmHead)
      <4>1. Value(p) = Made(model, Have, LmHead)
        BY <1>3, <3>1, <3>3 DEF Contents
      <4>2. Tied(model) => LmHead \notin model.checkpoint
        BY <1>2, <3>3 DEF Skipped, Tied
      <4>3. Tied(model) => loading # "loaded" /\ Value(p) = Empty
        BY <1>1, <1>5, <2>1, <2>3, <4>1, <4>2
      <4>4. ~Tied(model) => Wanted(model, p) = Made(model, model.checkpoint, LmHead)
        BY <1>7 DEF Wanted
      <4> QED
        BY <1>1, <1>5, <4>1, <4>3, <4>4
    <3> QED
      BY <3>2, <3>3
  <2> QED
    BY <2>2, <2>3
<1>8. CASE p # LmHead
  <2>1. Value(p) = Contents(p) /\ Wanted(model, p) = Made(model, model.checkpoint, p)
    BY <1>4, <1>8 DEF Value, Wanted
  <2>2. loading = "loaded" => Contents(p) = Made(model, model.checkpoint, p)
    BY <1>1, <1>8 DEF Contents
  <2>3. CASE p[1] \in {"qkv", "qkv_bias"} /\ loading # "loaded"
    <3>1. Contents(p) = IF p \in Have THEN <<p>> ELSE Empty
      BY <1>8, <2>3 DEF Contents
    <3>2. p \in Have => Made(model, model.checkpoint, p) = <<p>>
      BY <1>1, <2>3 DEF Made, Quantized
    <3> QED
      BY <2>1, <2>3, <3>1, <3>2
  <2>4. CASE p[1] \notin {"qkv", "qkv_bias"} /\ loading # "loaded"
    <3>1. Contents(p) = Made(model, Have, p)
      BY <1>8, <2>4 DEF Contents
    <3>2. Made(model, Have, p) \in {Empty, Made(model, model.checkpoint, p)}
      <4>1. CASE model.arch = "gpt_oss" /\ p[1] \in DOMAIN Quantized
        <5>1. \A have : Made(model, have, p) =
                IF PairOf(p) \subseteq have THEN Dequantized(p) ELSE Empty
          BY <2>4, <4>1 DEF Made, Quantized
        <5> QED
          BY <1>1, <5>1
      <4>2. CASE ~(model.arch = "gpt_oss" /\ p[1] \in DOMAIN Quantized)
        <5>1. \A have : Made(model, have, p) =
                IF model.arch = "llama" /\ p[1] \in {"gate", "up"} /\ <<"gate_up", p[2]>> \in have
                THEN Half(<<"gate_up", p[2]>>, IF p[1] = "gate" THEN 1 ELSE 2)
                ELSE IF p \in have THEN <<p>> ELSE Empty
          BY <2>4, <4>2 DEF Made
        <5>2. model.arch = "llama" /\ p[1] \in {"gate", "up"}
                /\ <<"gate_up", p[2]>> \in model.checkpoint => p \notin model.checkpoint
          <6>1. p[2] \in 0 .. model.layers \/ <<"gate_up", p[2]>> \notin model.checkpoint
            BY <1>1 DEF WellFormed
          <6>2. p = <<p[1], p[2]>>
            BY ParamsAre
          <6> QED
            BY <1>1, <6>1, <6>2 DEF WellFormed
        <5> QED
          BY <1>1, <5>1, <5>2
      <4> QED
        BY <4>1, <4>2
    <3> QED
      BY <2>1, <2>4, <3>1, <3>2
  <2> QED
    BY <2>1, <2>2, <2>3, <2>4
<1> QED
  BY <1>7, <1>8

(* For every set of models whose checkpoints are well formed, whatever     *)
(* tensors they have and in whatever order the weight iterator yields      *)
(* them: load_weights never makes a parameter from anything but its own    *)
(* tensors, and the model it returns has every parameter whose tensors the *)
(* checkpoint has.                                                         *)
THEOREM EveryWeightIsLoaded ==
  ASSUME WellFormed PROVE LoadSpec => []WeightsLoaded
<1>1. LoadInit => LoadInv
  BY LoadStarts
<1>2. LoadInv /\ [LoadNext]_loadVars => LoadInv'
  BY LoadKeeps
<1>3. LoadInv => WeightsLoaded
  BY LoadedIs
<1> QED
  BY <1>1, <1>2, <1>3, PTL DEF LoadSpec

-----------------------------------------------------------------------------
(* A forward pass                                                          *)

(* What hidden and residual add up to. *)
Stream == Embedded(net) \union Ran

FwdTypeOK ==
  /\ net \in Nets /\ layer \in 1 .. net.layers
  /\ point \in {"embed", "refused", "attn", "mlp", "route", "experts", "norm", "done"}
  /\ point = "mlp" => net.wiring \in {"pre", "post"}
  /\ point \in {"route", "experts"} => net.wiring = "pre"
  /\ hidden \in [Terms(net) -> Nat] /\ residual \in [Terms(net) -> Nat]
  /\ given \in [Blocks(net) -> [Terms(net) -> Nat]]

Streams == (* the two tensors add up to what was computed *)
  /\ point \in {"attn", "mlp", "route", "norm"} => Plus(hidden, residual) = Once(Stream)
  /\ point = "experts" => residual = Once(Stream \ {MlpBlock(layer)})
  /\ net.wiring = "post" => residual = Once({})
  /\ point = "norm" /\ net.wiring = "pre" => hidden = Once({MlpBlock(net.layers)})

Gives == \A b \in Ran : given[b] = Once(Before(b))

Results ==
  point = "done" => final_sum = Once(IF DropsResidual THEN {MlpBlock(net.layers)}
                               ELSE Embedded(net) \union Blocks(net))

(* What the experts made so far. *)
Mixes ==
  point = "experts" =>
    /\ active \subseteq 1 .. net.experts
    /\ mixed \in [InputTokens -> [1 .. net.experts -> Nat]]
    /\ \A t \in InputTokens, e \in 1 .. net.experts :
         mixed[t][e] = IF e \in routed[t] /\ e \notin active THEN 1 ELSE 0

Begun == point = "embed" => layer = 1

ForwardInv == Begun /\ FwdTypeOK /\ Streams /\ Gives /\ Results /\ Mixes

(* Sums of terms. *)
LEMMA OnceType ==
  \A S : Once(S) \in [Terms(net) -> Nat]
BY DEF Once

LEMMA PlusType ==
  ASSUME NEW a \in [Terms(net) -> Nat], NEW b \in [Terms(net) -> Nat]
  PROVE  Plus(a, b) \in [Terms(net) -> Nat]
BY DEF Plus

LEMMA PlusOnce ==
  ASSUME NEW S, NEW T, S \intersect T = {}
  PROVE  Plus(Once(S), Once(T)) = Once(S \union T)
BY DEF Plus, Once

LEMMA PlusNothing ==
  ASSUME NEW a \in [Terms(net) -> Nat]
  PROVE  Plus(a, Once({})) = a
BY DEF Plus, Once

LEMMA SameNet ==
  ASSUME net' = net
  PROVE  /\ \A S : Once(S)' = Once(S)
         /\ \A a, b : Plus(a, b)' = Plus(a, b)
         /\ \A b : Before(b)' = Before(b)
BY DEF Once, Plus, Before, LayersBefore

(* Blocks and what has run, layer by layer. *)
LEMMA BlocksAre ==
  ASSUME NetsAreWired, net \in Nets, layer \in 1 .. net.layers
  PROVE  /\ net.layers \in Nat \ {0}
         /\ AttnBlock(layer) \in Blocks(net) /\ MlpBlock(layer) \in Blocks(net)
         /\ AttnBlock(layer) # MlpBlock(layer)
         /\ \A b \in Blocks(net) : /\ b = <<b[1], b[2]>> /\ b[2] \in 1 .. net.layers
                                   /\ b[2] = layer => b \in {AttnBlock(layer), MlpBlock(layer)}
         /\ Embedded(net) \intersect Blocks(net) = {}
         /\ Embedded(net) \union Blocks(net) \subseteq Terms(net)
BY DEF NetsAreWired, Blocks, AttnBlock, MlpBlock, Embedded, TokenEmbedding, PositionEmbedding, Terms

LEMMA Advance ==
  ASSUME NetsAreWired, net \in Nets, layer \in 1 .. net.layers, ToLayer(layer + 1), net' = net
  PROVE  /\ layer' \in 1 .. net.layers /\ point' \in {"attn", "norm"}
         /\ Ran' = {b \in Blocks(net) : b[2] < layer} \union {AttnBlock(layer), MlpBlock(layer)}
         /\ point' = "norm" => layer = net.layers
<1>1. net.layers \in Nat
  BY DEF NetsAreWired
<1>2. CASE layer + 1 <= net.layers
  <2>1. layer' = layer + 1 /\ point' = "attn"
    BY <1>2 DEF ToLayer
  <2>2. Ran' = {b \in Blocks(net) : b[2] < layer + 1}
    BY <2>1 DEF Ran
  <2>3. {b \in Blocks(net) : b[2] < layer + 1}
          = {b \in Blocks(net) : b[2] < layer} \union {AttnBlock(layer), MlpBlock(layer)}
    <3>1. \A b \in Blocks(net) : b[2] < layer + 1 <=> b[2] < layer \/ b[2] = layer
      BY BlocksAre
    <3>2. AttnBlock(layer)[2] = layer /\ MlpBlock(layer)[2] = layer
      BY DEF AttnBlock, MlpBlock
    <3> HIDE DEF AttnBlock, MlpBlock, Blocks
    <3> QED
      BY <3>1, <3>2, BlocksAre
  <2> QED
    BY <1>1, <1>2, <2>1, <2>2, <2>3
<1>3. CASE layer + 1 > net.layers
  <2>1. layer' = layer /\ point' = "norm" /\ layer = net.layers
    BY <1>1, <1>3 DEF ToLayer
  <2>2. Ran' = Blocks(net)
    BY <2>1 DEF Ran
  <2> QED
    BY <1>1, <2>1, <2>2, BlocksAre
<1> QED
  BY <1>1, <1>2, <1>3

(* Where every layer begins.                                               *)
LEMMA NextLayer ==
  ASSUME NetsAreWired, ForwardInv, ToLayer(layer + 1), net' = net,
         point \in {"attn", "mlp", "experts"},
         hidden' \in [Terms(net) -> Nat], residual' \in [Terms(net) -> Nat],
         given' \in [Blocks(net) -> [Terms(net) -> Nat]],
         Plus(hidden', residual') =
           Once(Embedded(net) \union {b \in Blocks(net) : b[2] < layer}
                \union {AttnBlock(layer), MlpBlock(layer)}),
         net.wiring = "post" => residual' = Once({}),
         net.wiring = "pre" => hidden' = Once({MlpBlock(layer)}),
         \A b \in {b \in Blocks(net) : b[2] < layer} \union {AttnBlock(layer), MlpBlock(layer)} :
           given'[b] = Once(Before(b))
  PROVE  ForwardInv'
<1>1. /\ layer' \in 1 .. net.layers /\ point' \in {"attn", "norm"}
      /\ Ran' = {b \in Blocks(net) : b[2] < layer} \union {AttnBlock(layer), MlpBlock(layer)}
      /\ point' = "norm" => layer = net.layers
  BY Advance DEF ForwardInv, FwdTypeOK
<1>2. FwdTypeOK'
  BY <1>1 DEF ForwardInv, FwdTypeOK
<1>3. Stream' = Embedded(net) \union {b \in Blocks(net) : b[2] < layer}
                \union {AttnBlock(layer), MlpBlock(layer)}
  BY <1>1 DEF Stream
<1>4. Streams'
  <2>1. Plus(hidden, residual)' = Once(Stream)'
    BY <1>3 DEF Plus, Once
  <2>2. Once({})' = Once({}) /\ Once({MlpBlock(net.layers)})' = Once({MlpBlock(net.layers)})
    BY DEF Once
  <2> QED
    BY <1>1, <2>1, <2>2 DEF Streams
<1>5. Gives'
  BY <1>1, SameNet DEF Gives
<1> QED
  BY <1>1, <1>2, <1>4, <1>5 DEF ForwardInv, Results, Mixes, Begun

(* One lemma per action. *)
LEMMA PreMlps ==
  ASSUME NetsAreWired, ForwardInv, MlpPre PROVE ForwardInv'
<1>1. /\ point = "mlp" /\ net.wiring = "pre" /\ net' = net /\ ToLayer(layer + 1)
      /\ given' = [given EXCEPT ![MlpBlock(layer)] = Plus(hidden, residual)]
      /\ residual' = Plus(hidden, residual) /\ hidden' = Once({MlpBlock(layer)})
  BY DEF MlpPre, Give, FusedNorm
<1> DEFINE S == Embedded(net) \union {b \in Blocks(net) : b[2] < layer} \union {AttnBlock(layer)}
<1>2. Plus(hidden, residual) = Once(S)
  BY <1>1 DEF ForwardInv, Streams, Stream, Ran
<1>3. net \in Nets /\ layer \in 1 .. net.layers
  BY DEF ForwardInv, FwdTypeOK
<1>4. MlpBlock(layer) \notin S
  BY <1>3, BlocksAre DEF MlpBlock, AttnBlock
<1>5. Plus(hidden', residual') = Once(S \union {MlpBlock(layer)})
  <2>1. {MlpBlock(layer)} \intersect S = {}
    BY <1>4
  <2> HIDE DEF S
  <2>2. Plus(Once({MlpBlock(layer)}), Once(S)) = Once({MlpBlock(layer)} \union S)
    BY <2>1, PlusOnce
  <2> QED
    BY <1>1, <1>2, <2>2
<1>6. Before(MlpBlock(layer)) = S
  BY <1>1 DEF Before, LayersBefore, MlpBlock
<1>7. \A b \in {b \in Blocks(net) : b[2] < layer} \union {AttnBlock(layer), MlpBlock(layer)} :
        given'[b] = Once(Before(b))
  <2>1. \A b \in {b \in Blocks(net) : b[2] < layer} \union {AttnBlock(layer)} :
          given[b] = Once(Before(b)) /\ b # MlpBlock(layer) /\ b \in Blocks(net)
    BY <1>1, <1>3, <1>4, BlocksAre DEF ForwardInv, Gives, Ran
  <2>2. given'[MlpBlock(layer)] = Once(S)
    BY <1>1, <1>2, <1>3, BlocksAre DEF ForwardInv, FwdTypeOK
  <2> HIDE DEF S
  <2>3. \A b \in Blocks(net) : b # MlpBlock(layer) => given'[b] = given[b]
    BY <1>1 DEF ForwardInv, FwdTypeOK
  <2> QED
    BY <1>6, <2>1, <2>2, <2>3
<1>8. /\ Plus(hidden, residual) \in [Terms(net) -> Nat]
      /\ given' \in [Blocks(net) -> [Terms(net) -> Nat]] /\ hidden' \in [Terms(net) -> Nat]
  <2>1. Plus(hidden, residual) \in [Terms(net) -> Nat]
    BY PlusType DEF ForwardInv, FwdTypeOK
  <2> QED
    BY <1>1, <2>1, OnceType DEF ForwardInv, FwdTypeOK
<1>9. S \union {MlpBlock(layer)} =
        Embedded(net) \union {b \in Blocks(net) : b[2] < layer}
          \union {AttnBlock(layer), MlpBlock(layer)}
  OBVIOUS
<1> QED
  BY <1>1, <1>5, <1>7, <1>8, <1>9, NextLayer

(* A block that is given what comes before it. *)
LEMMA GiveBlock ==
  ASSUME ForwardInv, NEW b \in Blocks(net), given' = [given EXCEPT ![b] = Once(Before(b))]
  PROVE  /\ given' \in [Blocks(net) -> [Terms(net) -> Nat]]
         /\ \A c \in (Ran \intersect Blocks(net)) \union {b} : given'[c] = Once(Before(c))
<1>1. Once(Before(b)) \in [Terms(net) -> Nat]
  BY OnceType
<1> QED
  BY <1>1 DEF ForwardInv, FwdTypeOK, Gives

LEMMA BeforeIs ==
  ASSUME net.wiring \in {"pre", "post", "parallel"}
  PROVE  /\ Before(AttnBlock(layer)) = Embedded(net) \union {b \in Blocks(net) : b[2] < layer}
         /\ net.wiring # "parallel" =>
              Before(MlpBlock(layer)) =
                Embedded(net) \union {b \in Blocks(net) : b[2] < layer} \union {AttnBlock(layer)}
         /\ net.wiring = "parallel" => Before(MlpBlock(layer)) = Before(AttnBlock(layer))
BY DEF Before, LayersBefore, AttnBlock, MlpBlock

LEMMA AttnStream ==
  ASSUME NetsAreWired, ForwardInv, point = "attn"
  PROVE  Plus(hidden, residual) = Once(Before(AttnBlock(layer)))
<1>1. net.wiring \in {"pre", "post", "parallel"}
  BY DEF ForwardInv, FwdTypeOK, NetsAreWired
<1>2. Stream = Before(AttnBlock(layer))
  BY <1>1, BeforeIs DEF Stream, Ran
<1> QED
  BY <1>2 DEF ForwardInv, Streams

LEMMA PreAttentions ==
  ASSUME NetsAreWired, ForwardInv, AttentionPre PROVE ForwardInv'
<1>1. /\ point = "attn" /\ net.wiring = "pre" /\ net' = net /\ layer' = layer
      /\ given' = [given EXCEPT ![AttnBlock(layer)] = Plus(hidden, residual)]
      /\ residual' = Plus(hidden, residual) /\ hidden' = Once({AttnBlock(layer)})
      /\ point' \in {"mlp", "route"}
  BY DEF AttentionPre, Give, FusedNorm
<1> DEFINE S == Embedded(net) \union {b \in Blocks(net) : b[2] < layer}
<1>2. Plus(hidden, residual) = Once(S) /\ Before(AttnBlock(layer)) = S
  BY <1>1, AttnStream, BeforeIs
<1>3. net \in Nets /\ layer \in 1 .. net.layers
  BY DEF ForwardInv, FwdTypeOK
<1>4. /\ given' \in [Blocks(net) -> [Terms(net) -> Nat]]
      /\ \A c \in (Ran \intersect Blocks(net)) \union {AttnBlock(layer)} :
           given'[c] = Once(Before(c))
  BY <1>1, <1>2, <1>3, BlocksAre, GiveBlock
<1>5. Ran = {b \in Blocks(net) : b[2] < layer} /\ Ran' = Ran \union {AttnBlock(layer)}
  BY <1>1 DEF Ran
<1>6. Gives'
  BY <1>1, <1>4, <1>5, SameNet DEF Gives
<1>7. Streams'
  <2>1. {AttnBlock(layer)} \intersect S = {}
    BY <1>3, BlocksAre DEF AttnBlock
  <2>2. Plus(Once({AttnBlock(layer)}), Once(S)) = Once({AttnBlock(layer)} \union S)
    <3> HIDE DEF S
    <3> QED BY <2>1, PlusOnce
  <2>3. Stream' = {AttnBlock(layer)} \union S
    BY <1>1, <1>5 DEF Stream
  <2>4. Plus(hidden, residual)' = Once(Stream)'
    <3>1. Plus(hidden', residual') = Once({AttnBlock(layer)} \union S)
      BY <1>1, <1>2, <2>2
    <3> HIDE DEF S
    <3> QED BY <1>1, <2>3, <3>1 DEF Plus, Once
  <2> QED
    BY <1>1, <2>4 DEF Streams
<1>8. FwdTypeOK'
  <2>1. Plus(hidden, residual) \in [Terms(net) -> Nat]
    BY <1>2, OnceType
  <2> QED
    BY <1>1, <1>3, <1>4, <2>1, OnceType DEF FwdTypeOK
<1> QED
  BY <1>1, <1>6, <1>7, <1>8 DEF ForwardInv, Results, Mixes, Begun

LEMMA Routes ==
  ASSUME NetsAreWired, ForwardInv, Route PROVE ForwardInv'
<1>1. /\ point = "route" /\ point' = "experts" /\ net' = net /\ layer' = layer /\ hidden' = hidden
      /\ given' = [given EXCEPT ![MlpBlock(layer)] = Plus(hidden, residual)]
      /\ residual' = Plus(hidden, residual) /\ mixed' = NoneMixed(net)
      /\ routed' \in [InputTokens -> SUBSET (1 .. net.experts)]
      /\ active' = UNION {routed'[t] : t \in InputTokens}
  BY DEF Route, Give, FusedNorm
<1> DEFINE S == Embedded(net) \union {b \in Blocks(net) : b[2] < layer} \union {AttnBlock(layer)}
<1>2. net \in Nets /\ layer \in 1 .. net.layers /\ net.wiring = "pre"
  BY <1>1 DEF ForwardInv, FwdTypeOK
<1>3. Plus(hidden, residual) = Once(S) /\ Before(MlpBlock(layer)) = S
  <2>1. Stream = S
    BY <1>1 DEF Stream, Ran
  <2> QED
    BY <1>1, <1>2, <2>1, BeforeIs DEF ForwardInv, Streams
<1>4. /\ given' \in [Blocks(net) -> [Terms(net) -> Nat]]
      /\ \A c \in (Ran \intersect Blocks(net)) \union {MlpBlock(layer)} :
           given'[c] = Once(Before(c))
  BY <1>1, <1>2, <1>3, BlocksAre, GiveBlock
<1>5. /\ Ran = {b \in Blocks(net) : b[2] < layer} \union {AttnBlock(layer)}
      /\ Ran' = {b \in Blocks(net) : b[2] <= layer}
  BY <1>1 DEF Ran
<1>6. Ran' = Ran \union {MlpBlock(layer)} /\ Ran \subseteq Blocks(net)
  <2>1. \A b \in Blocks(net) : b[2] <= layer <=> b[2] < layer \/ b[2] = layer
    BY <1>2, BlocksAre
  <2>2. AttnBlock(layer)[2] = layer /\ MlpBlock(layer)[2] = layer
    BY DEF AttnBlock, MlpBlock
  <2> HIDE DEF AttnBlock, MlpBlock, Blocks
  <2> QED
    BY <1>2, <1>5, <2>1, <2>2, BlocksAre
<1>7. Gives'
  BY <1>1, <1>4, <1>6, SameNet DEF Gives
<1>8. Streams'
  <2>1. Stream' = S \union {MlpBlock(layer)}
    BY <1>1, <1>5, <1>6 DEF Stream
  <2>2. MlpBlock(layer) \notin S
    BY <1>2, BlocksAre DEF MlpBlock, AttnBlock
  <2>3. Stream' \ {MlpBlock(layer)} = S
    <3> HIDE DEF S
    <3> QED BY <2>1, <2>2
  <2>4. residual' = Once(Stream \ {MlpBlock(layer)})'
    <3>1. residual' = Once(S)
      BY <1>1, <1>3
    <3> HIDE DEF S
    <3> QED BY <1>1, <2>3, <3>1 DEF Once
  <2> QED
    BY <1>1, <1>2, <2>4 DEF Streams
<1>9. FwdTypeOK'
  <2>1. Plus(hidden, residual) \in [Terms(net) -> Nat]
    BY <1>3, OnceType
  <2> QED
    BY <1>1, <1>2, <1>4, <2>1 DEF ForwardInv, FwdTypeOK
<1>10. Mixes'
  <2>1. \A t \in InputTokens : routed'[t] \subseteq 1 .. net.experts /\ routed'[t] \subseteq active'
    BY <1>1
  <2>2. active' \subseteq 1 .. net.experts
    BY <1>1, <2>1
  <2>3. /\ mixed' \in [InputTokens -> [1 .. net.experts -> Nat]]
        /\ \A t \in InputTokens, e \in 1 .. net.experts : mixed'[t][e] = 0
    BY <1>1 DEF NoneMixed
  <2> QED
    BY <1>1, <2>1, <2>2, <2>3 DEF Mixes
<1> QED
  BY <1>1, <1>7, <1>8, <1>9, <1>10 DEF ForwardInv, Results, Begun

LEMMA ExpertAdds ==
  ASSUME NetsAreWired, ForwardInv, NEW e \in active, Expert_(e) PROVE ForwardInv'
<1>1. /\ point = "experts" /\ active' = active \ {e}
      /\ mixed' = [t \in InputTokens |->
                     IF e \in routed[t] THEN [mixed[t] EXCEPT ![e] = @ + 1] ELSE mixed[t]]
      /\ UNCHANGED <<net, point, layer, hidden, residual, given, routed, final_sum>>
  BY DEF Expert_
<1>2. /\ active \subseteq 1 .. net.experts /\ mixed \in [InputTokens -> [1 .. net.experts -> Nat]]
      /\ \A t \in InputTokens, f \in 1 .. net.experts :
           mixed[t][f] = IF f \in routed[t] /\ f \notin active THEN 1 ELSE 0
  BY <1>1 DEF ForwardInv, Mixes
<1>3. ASSUME NEW t \in InputTokens
      PROVE  /\ mixed'[t] \in [1 .. net.experts -> Nat]
             /\ \A f \in 1 .. net.experts :
                  mixed'[t][f] = IF f \in routed[t] /\ f \notin active' THEN 1 ELSE 0
  <2>1. mixed'[t] = IF e \in routed[t] THEN [mixed[t] EXCEPT ![e] = @ + 1] ELSE mixed[t]
    BY <1>1
  <2>2. mixed[t] \in [1 .. net.experts -> Nat] /\ e \in 1 .. net.experts
    BY <1>2
  <2>3. \A f \in 1 .. net.experts :
          mixed[t][f] = IF f \in routed[t] /\ f \notin active THEN 1 ELSE 0
    BY <1>2
  <2>4. CASE e \in routed[t]
    <3>2. mixed[t][e] = 0
      BY <2>2, <2>3
    <3>1. mixed'[t] = [mixed[t] EXCEPT ![e] = 1]
      <4>1. mixed'[t] = [mixed[t] EXCEPT ![e] = mixed[t][e] + 1]
        BY <2>1, <2>4
      <4> QED
        BY <3>2, <4>1
    <3>3. \A f \in 1 .. net.experts : mixed'[t][f] = IF f = e THEN 1 ELSE mixed[t][f]
      BY <2>2, <3>1, <3>2
    <3>4. mixed'[t] \in [1 .. net.experts -> Nat]
      BY <2>2, <3>1, <3>2
    <3> QED
      BY <1>1, <2>3, <2>4, <3>3, <3>4
  <2>5. CASE e \notin routed[t]
    <3>1. mixed'[t] = mixed[t]
      BY <2>1, <2>5
    <3> QED
      BY <1>1, <2>2, <2>3, <2>5, <3>1
  <2> QED
    BY <2>4, <2>5
<1>4. mixed' \in [InputTokens -> [1 .. net.experts -> Nat]]
  BY <1>1, <1>3
<1>5. Mixes'
  BY <1>1, <1>2, <1>3, <1>4 DEF Mixes
<1>6. Ran' = Ran /\ Stream' = Stream
  BY <1>1 DEF Ran, Stream
<1>7. FwdTypeOK' /\ Results' /\ Gives' /\ Streams'
  <2>1. FwdTypeOK'
    BY <1>1 DEF ForwardInv, FwdTypeOK
  <2>2. Gives'
    BY <1>1, <1>6, SameNet DEF ForwardInv, Gives
  <2>3. Streams'
    BY <1>1, <1>6 DEF ForwardInv, Streams, Once
  <2> QED
    BY <1>1, <2>1, <2>2, <2>3 DEF Results
<1> QED
  BY <1>1, <1>5, <1>7 DEF ForwardInv, Begun

LEMMA ExpertsFinish ==
  ASSUME NetsAreWired, ForwardInv, ExpertsDone PROVE ForwardInv'
<1>1. /\ point = "experts" /\ net' = net /\ ToLayer(layer + 1) /\ hidden' = Once({MlpBlock(layer)})
      /\ UNCHANGED <<residual, given>>
  BY DEF ExpertsDone
<1>2. net \in Nets /\ layer \in 1 .. net.layers /\ net.wiring = "pre"
  BY <1>1 DEF ForwardInv, FwdTypeOK
<1> DEFINE S == Embedded(net) \union {b \in Blocks(net) : b[2] < layer} \union {AttnBlock(layer)}
<1>3. Ran = {b \in Blocks(net) : b[2] < layer} \union {AttnBlock(layer), MlpBlock(layer)}
  <2>1. Ran = {b \in Blocks(net) : b[2] <= layer}
    BY <1>1 DEF Ran
  <2>2. \A b \in Blocks(net) : b[2] <= layer <=> b[2] < layer \/ b[2] = layer
    BY <1>2, BlocksAre
  <2>3. AttnBlock(layer)[2] = layer /\ MlpBlock(layer)[2] = layer
    BY DEF AttnBlock, MlpBlock
  <2> HIDE DEF AttnBlock, MlpBlock, Blocks
  <2> QED
    BY <1>2, <2>1, <2>2, <2>3, BlocksAre
<1>4. {MlpBlock(layer)} \intersect S = {}
  BY <1>2, BlocksAre DEF MlpBlock, AttnBlock
<1>5. residual = Once(S)
  <2>1. Stream \ {MlpBlock(layer)} = S
    BY <1>3, <1>4 DEF Stream
  <2> HIDE DEF S
  <2> QED BY <1>1, <2>1 DEF ForwardInv, Streams
<1>6. Plus(hidden', residual') = Once({MlpBlock(layer)} \union S)
  <2> HIDE DEF S
  <2> QED BY <1>1, <1>4, <1>5, PlusOnce
<1>7. {MlpBlock(layer)} \union S =
        Embedded(net) \union {b \in Blocks(net) : b[2] < layer}
          \union {AttnBlock(layer), MlpBlock(layer)}
  OBVIOUS
<1>8. /\ hidden' \in [Terms(net) -> Nat] /\ residual' \in [Terms(net) -> Nat]
      /\ given' \in [Blocks(net) -> [Terms(net) -> Nat]]
  BY <1>1, OnceType DEF ForwardInv, FwdTypeOK
<1>9. \A b \in {b \in Blocks(net) : b[2] < layer} \union {AttnBlock(layer), MlpBlock(layer)} :
        given'[b] = Once(Before(b))
  BY <1>1, <1>3 DEF ForwardInv, Gives
<1> QED
  BY <1>1, <1>2, <1>6, <1>7, <1>8, <1>9, NextLayer

LEMMA PostAttentions ==
  ASSUME NetsAreWired, ForwardInv, AttentionPost PROVE ForwardInv'
<1>1. /\ point = "attn" /\ point' = "mlp" /\ net.wiring = "post"
      /\ given' = [given EXCEPT ![AttnBlock(layer)] = Plus(hidden, residual)]
      /\ hidden' = Plus(Plus(hidden, residual), Once({AttnBlock(layer)}))
      /\ UNCHANGED <<net, layer, residual>>
  BY DEF AttentionPost, Give
<1> DEFINE S == Embedded(net) \union {b \in Blocks(net) : b[2] < layer}
<1>2. Plus(hidden, residual) = Once(S) /\ Before(AttnBlock(layer)) = S
  BY <1>1, AttnStream, BeforeIs
<1>3. net \in Nets /\ layer \in 1 .. net.layers /\ residual = Once({})
  BY <1>1 DEF ForwardInv, FwdTypeOK, Streams
<1>4. /\ given' \in [Blocks(net) -> [Terms(net) -> Nat]]
      /\ \A c \in (Ran \intersect Blocks(net)) \union {AttnBlock(layer)} :
           given'[c] = Once(Before(c))
  BY <1>1, <1>2, <1>3, BlocksAre, GiveBlock
<1>5. Ran = {b \in Blocks(net) : b[2] < layer} /\ Ran' = Ran \union {AttnBlock(layer)}
  BY <1>1 DEF Ran
<1>6. Gives'
  BY <1>1, <1>4, <1>5, SameNet DEF Gives
<1>7. hidden' = Once(S \union {AttnBlock(layer)})
  <2>1. {AttnBlock(layer)} \intersect S = {}
    BY <1>3, BlocksAre DEF AttnBlock
  <2> HIDE DEF S
  <2> QED
    BY <1>1, <1>2, <2>1, PlusOnce
<1>8. hidden' \in [Terms(net) -> Nat]
  BY <1>7, OnceType
<1>9. Streams'
  <2>1. Plus(hidden', residual') = Once(S \union {AttnBlock(layer)})
    <3> HIDE DEF S
    <3> QED BY <1>1, <1>3, <1>7, <1>8, PlusNothing
  <2>2. Stream' = S \union {AttnBlock(layer)}
    BY <1>1, <1>5 DEF Stream
  <2>3. Plus(hidden, residual)' = Once(Stream)'
    <3> HIDE DEF S
    <3> QED BY <1>1, <2>1, <2>2 DEF Plus, Once
  <2>4. residual' = Once({})'
    BY <1>1, <1>3 DEF Once
  <2> QED
    BY <1>1, <2>3, <2>4 DEF Streams
<1>10. FwdTypeOK'
  BY <1>1, <1>4, <1>8 DEF ForwardInv, FwdTypeOK
<1> QED
  BY <1>1, <1>6, <1>9, <1>10 DEF ForwardInv, Results, Mixes, Begun

LEMMA PostMlps ==
  ASSUME NetsAreWired, ForwardInv, MlpPost PROVE ForwardInv'
<1>1. /\ point = "mlp" /\ net.wiring = "post" /\ net' = net /\ ToLayer(layer + 1)
      /\ given' = [given EXCEPT ![MlpBlock(layer)] = hidden]
      /\ hidden' = Plus(hidden, Once({MlpBlock(layer)})) /\ residual' = Once({})
  BY DEF MlpPost, Give
<1> DEFINE S == Embedded(net) \union {b \in Blocks(net) : b[2] < layer} \union {AttnBlock(layer)}
<1>2. net \in Nets /\ layer \in 1 .. net.layers /\ residual = Once({})
  BY <1>1 DEF ForwardInv, FwdTypeOK, Streams
<1>3. hidden = Once(S) /\ Before(MlpBlock(layer)) = S
  <2>1. Stream = S
    BY <1>1 DEF Stream, Ran
  <2>2. Plus(hidden, residual) = hidden
    BY <1>2, PlusNothing DEF ForwardInv, FwdTypeOK
  <2>3. Plus(hidden, residual) = Once(S)
    BY <1>1, <2>1 DEF ForwardInv, Streams
  <2> QED
    BY <1>1, <2>2, <2>3, BeforeIs
<1>4. Ran = {b \in Blocks(net) : b[2] < layer} \union {AttnBlock(layer)}
  BY <1>1 DEF Ran
<1>5. /\ given' \in [Blocks(net) -> [Terms(net) -> Nat]]
      /\ \A c \in (Ran \intersect Blocks(net)) \union {MlpBlock(layer)} :
           given'[c] = Once(Before(c))
  BY <1>1, <1>2, <1>3, BlocksAre, GiveBlock
<1>6. {MlpBlock(layer)} \intersect S = {}
  BY <1>2, BlocksAre DEF MlpBlock, AttnBlock
<1>7. hidden' = Once(S \union {MlpBlock(layer)})
  <2> HIDE DEF S
  <2> QED BY <1>1, <1>3, <1>6, PlusOnce
<1>8. hidden' \in [Terms(net) -> Nat] /\ residual' \in [Terms(net) -> Nat]
  BY <1>1, <1>7, OnceType
<1>9. Plus(hidden', residual') = Once(S \union {MlpBlock(layer)})
  <2> HIDE DEF S
  <2> QED BY <1>1, <1>7, <1>8, PlusNothing
<1>10. S \union {MlpBlock(layer)} =
        Embedded(net) \union {b \in Blocks(net) : b[2] < layer}
          \union {AttnBlock(layer), MlpBlock(layer)}
  OBVIOUS
<1>11. \A b \in {b \in Blocks(net) : b[2] < layer} \union {AttnBlock(layer), MlpBlock(layer)} :
        given'[b] = Once(Before(b))
  BY <1>2, <1>4, <1>5, BlocksAre
<1> QED
  BY <1>1, <1>5, <1>8, <1>9, <1>10, <1>11, NextLayer

LEMMA ParallelBlocks ==
  ASSUME NetsAreWired, ForwardInv, BothBlocks PROVE ForwardInv'
<1>1. /\ point = "attn" /\ net.wiring = "parallel" /\ net' = net /\ ToLayer(layer + 1)
      /\ given' = [given EXCEPT ![AttnBlock(layer)] = Plus(hidden, residual),
                                ![MlpBlock(layer)] = Plus(hidden, residual)]
      /\ residual' = Plus(hidden, residual)
      /\ hidden' = Plus(Once({AttnBlock(layer)}), Once({MlpBlock(layer)}))
  BY DEF BothBlocks, FusedNorm
<1> DEFINE S == Embedded(net) \union {b \in Blocks(net) : b[2] < layer}
<1>2. net \in Nets /\ layer \in 1 .. net.layers
  BY DEF ForwardInv, FwdTypeOK
<1>3. /\ Plus(hidden, residual) = Once(S)
      /\ Before(AttnBlock(layer)) = S /\ Before(MlpBlock(layer)) = S
  BY <1>1, AttnStream, BeforeIs
<1>4. Ran = {b \in Blocks(net) : b[2] < layer}
  BY <1>1 DEF Ran
<1>5. AttnBlock(layer) \notin S /\ MlpBlock(layer) \notin S /\ AttnBlock(layer) # MlpBlock(layer)
  BY <1>2, BlocksAre DEF MlpBlock, AttnBlock
<1>6. hidden' = Once({AttnBlock(layer), MlpBlock(layer)})
  <2>1. {AttnBlock(layer)} \intersect {MlpBlock(layer)} = {}
    BY <1>5
  <2>2. {AttnBlock(layer)} \union {MlpBlock(layer)} = {AttnBlock(layer), MlpBlock(layer)}
    OBVIOUS
  <2> QED
    BY <1>1, <2>1, <2>2, PlusOnce
<1>7. Plus(hidden', residual') = Once({AttnBlock(layer), MlpBlock(layer)} \union S)
  <2>1. {AttnBlock(layer), MlpBlock(layer)} \intersect S = {}
    BY <1>5
  <2> HIDE DEF S
  <2> QED BY <1>1, <1>3, <1>6, <2>1, PlusOnce
<1>8. Once(S) \in [Terms(net) -> Nat] /\ hidden' \in [Terms(net) -> Nat] /\ residual' \in [Terms(net) -> Nat]
  BY <1>1, <1>3, <1>6, OnceType
<1>9. /\ given' \in [Blocks(net) -> [Terms(net) -> Nat]]
      /\ \A b \in {b \in Blocks(net) : b[2] < layer} \union {AttnBlock(layer), MlpBlock(layer)} :
           given'[b] = Once(Before(b))
  <2>1. AttnBlock(layer) \in Blocks(net) /\ MlpBlock(layer) \in Blocks(net)
    BY <1>2, BlocksAre
  <2>2. given' = [given EXCEPT ![AttnBlock(layer)] = Once(S), ![MlpBlock(layer)] = Once(S)]
    BY <1>1, <1>3
  <2>3. given \in [Blocks(net) -> [Terms(net) -> Nat]]
    BY DEF ForwardInv, FwdTypeOK
  <2>4. \A b \in Blocks(net) : b[2] < layer => given[b] = Once(Before(b))
    BY <1>4 DEF ForwardInv, Gives
  <2> HIDE DEF S, AttnBlock, MlpBlock, Blocks
  <2> QED
    BY <1>3, <1>8, <2>1, <2>2, <2>3, <2>4
<1>10. {AttnBlock(layer), MlpBlock(layer)} \union S =
        Embedded(net) \union {b \in Blocks(net) : b[2] < layer}
          \union {AttnBlock(layer), MlpBlock(layer)}
  OBVIOUS
<1> QED
  BY <1>1, <1>7, <1>8, <1>9, <1>10, NextLayer

LEMMA EmbedsTokens ==
  ASSUME NetsAreWired, ForwardInv, EmbedTokens PROVE ForwardInv'
<1>1. /\ point = "embed" /\ point' = "attn" /\ UNCHANGED <<net, given>> /\ layer' = layer
      /\ hidden' = Once(Embedded(net)) /\ residual' = Once({}) /\ layer = 1
  BY DEF EmbedTokens, ForwardInv, FwdTypeOK, Begun
<1>2. net \in Nets /\ layer \in 1 .. net.layers
  BY DEF ForwardInv, FwdTypeOK
<1>3. Ran' = {}
  BY <1>1, <1>2, BlocksAre DEF Ran
<1>4. hidden' \in [Terms(net) -> Nat] /\ residual' \in [Terms(net) -> Nat]
  BY <1>1, OnceType
<1>5. Streams'
  <2>1. Plus(hidden', residual') = Once(Embedded(net))
    BY <1>1, <1>4, PlusNothing
  <2>2. Plus(hidden, residual)' = Once(Stream)'
    BY <1>1, <1>3, <2>1 DEF Plus, Once, Stream
  <2>3. residual' = Once({})'
    BY <1>1 DEF Once
  <2> QED
    BY <1>1, <2>2, <2>3 DEF Streams
<1>6. FwdTypeOK'
  BY <1>1, <1>4 DEF ForwardInv, FwdTypeOK
<1> QED
  BY <1>1, <1>3, <1>5, <1>6 DEF ForwardInv, Gives, Results, Mixes, Begun

LEMMA NormsFinally ==
  ASSUME NetsAreWired, ForwardInv, FinalNorm PROVE ForwardInv'
<1>1. /\ point = "norm" /\ point' = "done" /\ UNCHANGED <<net, layer, hidden, residual, given>>
      /\ final_sum' = IF net.final THEN Plus(hidden, residual) ELSE hidden
  BY DEF FinalNorm
<1>2. net \in Nets
  BY DEF ForwardInv, FwdTypeOK
<1>3. Plus(hidden, residual) = Once(Embedded(net) \union Blocks(net))
  BY <1>1 DEF ForwardInv, Streams, Stream, Ran
<1>4. final_sum' = Once(IF DropsResidual THEN {MlpBlock(net.layers)}
                     ELSE Embedded(net) \union Blocks(net))
  <2>1. CASE net.final
    BY <1>1, <1>3, <2>1 DEF DropsResidual
  <2>2. CASE ~net.final /\ net.wiring = "pre"
    BY <1>1, <2>2 DEF DropsResidual, ForwardInv, Streams
  <2>3. CASE ~net.final /\ net.wiring = "post"
    <3>1. Plus(hidden, residual) = hidden
      BY <2>3, PlusNothing DEF ForwardInv, FwdTypeOK, Streams
    <3> QED
      BY <1>1, <1>3, <2>3, <3>1 DEF DropsResidual
  <2> QED
    BY <1>2, <2>1, <2>2, <2>3 DEF NetsAreWired
<1>5. Results'
  BY <1>1, <1>4, SameNet DEF Results, DropsResidual
<1>6. Gives'
  <2>1. Ran' = Ran
    BY <1>1 DEF Ran
  <2> QED
    BY <1>1, <2>1, SameNet DEF ForwardInv, Gives
<1>7. FwdTypeOK' /\ Streams'
  <2>1. net.wiring = "post" => residual' = Once({})'
    BY <1>1, SameNet DEF ForwardInv, Streams
  <2> QED
    BY <1>1, <2>1 DEF ForwardInv, FwdTypeOK, Streams
<1> QED
  BY <1>1, <1>5, <1>6, <1>7 DEF ForwardInv, Mixes, Begun

LEMMA ForwardStarts ==
  ASSUME NetsAreWired, ForwardInit PROVE ForwardInv
<1>1. net \in Nets /\ layer = 1 /\ 1 \in 1 .. net.layers
  BY DEF ForwardInit, NetsAreWired
<1>2. Once({}) \in [Terms(net) -> Nat]
  BY OnceType
<1>3. FwdTypeOK
  BY <1>1, <1>2 DEF ForwardInit, FwdTypeOK
<1>4. Ran = {}
  BY DEF ForwardInit, Ran
<1> QED
  BY <1>1, <1>3, <1>4 DEF ForwardInit, ForwardInv, Streams, Gives, Results, Mixes, Begun

LEMMA ForwardKeeps ==
  ASSUME NetsAreWired, ForwardInv, [ForwardNext]_forwardVars PROVE ForwardInv'
<1>1. CASE Refuse
  <2>1. /\ point = "embed" /\ point' = "refused"
        /\ UNCHANGED <<net, layer, hidden, residual, given, final_sum>>
    BY <1>1 DEF Refuse
  <2>2. FwdTypeOK'
    BY <2>1 DEF ForwardInv, FwdTypeOK
  <2>3. Streams'
    BY <2>1, SameNet DEF ForwardInv, Streams
  <2> QED
    BY <2>1, <2>2, <2>3 DEF ForwardInv, Gives, Ran, Results, Mixes, Begun
<1>2. CASE UNCHANGED forwardVars
  <2>1. /\ UNCHANGED <<net, point, layer, hidden, residual, given, routed, active, mixed, final_sum>>
        /\ Ran' = Ran /\ Stream' = Stream
    BY <1>2 DEF forwardVars, Ran, Stream
  <2>2. FwdTypeOK'
    BY <2>1 DEF ForwardInv, FwdTypeOK
  <2>3. Streams'
    BY <2>1 DEF ForwardInv, Streams, Once, Plus
  <2>4. Gives'
    BY <2>1, SameNet DEF ForwardInv, Gives
  <2>5. Results' /\ Mixes' /\ Begun'
    BY <2>1, SameNet DEF ForwardInv, Results, DropsResidual, Mixes, Begun
  <2> QED
    BY <2>2, <2>3, <2>4, <2>5 DEF ForwardInv
<1> QED
  BY <1>1, <1>2, EmbedsTokens, PreAttentions, PreMlps, Routes, ExpertAdds, ExpertsFinish,
     PostAttentions, PostMlps, ParallelBlocks, NormsFinally DEF ForwardNext

(* For every number of layers, tokens and experts and each of the wirings: *)
(* the forward methods give every block the sum of the embeddings and all  *)
(* that was computed before it, each once, and the output projection the   *)
(* sum of everything, but for the checkpoints of OPT that have no final    *)
(* norm; an expert is added for the tokens that were routed to it, once.   *)
THEOREM EveryBlockIsGivenAll ==
  ASSUME NetsAreWired PROVE ForwardSpec => []ForwardExact
<1>1. ForwardInit => ForwardInv
  BY ForwardStarts
<1>2. ForwardInv /\ [ForwardNext]_forwardVars => ForwardInv'
  BY ForwardKeeps
<1>3. ForwardInv => ForwardExact
  BY DEF ForwardInv, Gives, Results, Mixes, ForwardExact
<1> QED
  BY <1>1, <1>2, <1>3, PTL DEF ForwardSpec

-----------------------------------------------------------------------------
(* Operators                                                               *)

Index == 1 .. 9
(* Who changes which weight, and into what. *)
Mine(m) == IF m = "mlp" THEN Weights \ {"head"} ELSE {LinearOf(m)}
Changes(m, w) == w \in Mine(m) /\ cls[m] \in {"tpp", "aocldlp"}
After(c, w) ==
  IF c = "tpp" THEN IF w \in build.fits THEN "packed" ELSE "rows"
  ELSE IF build.reshape THEN "reordered" ELSE "columns"

(* How far constructors and preprocessing have come. *)
Built(i) == phase \in {"preprocess", "execute", "done"} \/ (phase = "construct" /\ i < turn)
Laid(i) == phase \in {"execute", "done"} \/ (phase = "preprocess" /\ i < turn)

OpTypeOK ==
  /\ build \in Builds /\ turn \in Index
  /\ phase \in {"finalize", "construct", "preprocess", "execute", "done", "raised"}
  /\ phase = "finalize" => turn = 1
  /\ impl = [m \in Names |-> impl[m]] /\ cls = [m \in Names |-> cls[m]]
  /\ weight = [w \in Weights \union {"embed"} |-> weight[w]]

(* A module has what the registry gives for what it was asked to have.     *)
Chosen(i) ==
  LET m == Modules[i]
  IN IF Exists(m) THEN impl[m] = Asked(m) /\ cls[m] = Get(TypeOf(m), Asked(m), build.dtype)
     ELSE impl[m] = None /\ cls[m] = None
Acts == {"relu", "gelu", "silu"}

ChoicesMade ==
  /\ \A i \in Index : Built(i) /\ phase # "raised" => Chosen(i)
  /\ \A i \in Index : ~Built(i) /\ phase # "raised" =>
        impl[Modules[i]] = None /\ cls[Modules[i]] = None
  /\ \A i \in Index : Built(i) /\ Exists(Modules[i]) /\ Modules[i] \in {"up", "gate"} =>
        ActOf(Modules[i]) \in Acts \union {"mul"}

(* A weight is as its checkpoint had it until its one operator changes it. *)
Layouts ==
  /\ weight["embed"] = "rows"
  /\ \A i \in Index, w \in Weights :
       Laid(i) /\ Changes(Modules[i], w) => weight[w] = After(cls[Modules[i]], w)
  /\ phase # "raised" => \A w \in Weights :
       (\A i \in Index : ~(Laid(i) /\ Changes(Modules[i], w))) => weight[w] = "rows"

Cuts ==
  phase # "raised" =>
    pieces = [w \in {"up.linear", "gate.linear", "down"} |->
                IF cls["mlp"] = "imbps" /\ Laid(1) THEN Chunks(build.width, build.chunks)
                ELSE <<1 .. build.width>>]

(* A call of the kernels. *)
Round(i) ==
  [kernel |-> [w \in UsedWeights |-> Kernel(w)],
   cols |-> [w \in UsedWeights |-> pieces[w][i]],
   act |-> Activation, bias |-> DownBias(i)]
Computed ==
  /\ phase \notin {"execute", "done"} => rounds = <<>>
  /\ phase \in {"execute", "done"} =>
       \E n \in 0 .. Len(pieces["up.linear"]) :
         /\ rounds = [i \in 1 .. n |-> Round(i)]
         /\ IF phase = "done" THEN n = Len(pieces["up.linear"]) ELSE n < Len(pieces["up.linear"])
  /\ rounds # <<>> => ~Refused

OpInv == OpTypeOK /\ ChoicesMade /\ Layouts /\ Cuts /\ Computed /\ BackendFitsCache

LEMMA Order ==
  /\ Modules[1] = "mlp" /\ Modules[2] = "up" /\ Modules[3] = "up.linear"
  /\ Modules[4] = "up.act" /\ Modules[5] = "down" /\ Modules[6] = "gate"
  /\ Modules[7] = "gate.linear" /\ Modules[8] = "gate.act" /\ Modules[9] = "head"
  /\ Index = {1, 2, 3, 4, 5, 6, 7, 8, 9}
BY DEF Modules, Index

(* What the registry has. *)
LEMMA GetLinear ==
  ASSUME NEW asked, NEW dtype \in Dtypes
  PROVE  /\ Get("linear", asked, dtype) \in {"native", "jit", "tpp", "aocldlp"}
         /\ Get("linear", None, dtype) = "native"
<1>1. <<"linear", "native", dtype>> \in Registered
  BY DEF Registered, Dtypes
<1>2. \A a : <<"linear", a, dtype>> \in Registered => a \in {"native", "jit", "tpp", "aocldlp"}
  BY DEF Registered, FusedLinears, Dtypes
<1>3. <<"linear", None, dtype>> \notin Registered
  BY <1>2 DEF None
<1>4. "linear" \notin FusedTypes
  BY DEF FusedTypes, FusedLinears
<1> DEFINE P(i) == /\ <<"linear", Fallback[i], dtype>> \in Registered
                   /\ \A j \in 1 .. (i - 1) : <<"linear", Fallback[j], dtype>> \notin Registered
           c == CHOOSE i \in 1 .. 5 : P(i)
<1>5. Fallback[1] = "native"
  BY DEF Fallback
<1>6. P(1)
  BY <1>1, <1>5
<1>7. \A i \in 1 .. 5 : P(i) => i = 1
  BY <1>1, <1>5
<1>8. c = 1
  BY <1>6, <1>7
<1>9. Fallback[c] = "native"
  BY <1>5, <1>8
<1> HIDE DEF c
<1> QED
  BY <1>2, <1>3, <1>4, <1>9 DEF Get, c

LEMMA GetAct ==
  ASSUME NEW asked, NEW dtype \in Dtypes, NEW a \in Acts
  PROVE  Get(a, asked, dtype) = "native"
<1>1. <<a, "native", dtype>> \in Registered
  BY DEF Registered, Dtypes, Acts
<1>2. \A x : <<a, x, dtype>> \in Registered => x = "native"
  BY DEF Registered, FusedLinears, Dtypes, Acts
<1>4. a \notin FusedTypes
  BY DEF FusedTypes, FusedLinears, Acts
<1> DEFINE P(i) == /\ <<a, Fallback[i], dtype>> \in Registered
                   /\ \A j \in 1 .. (i - 1) : <<a, Fallback[j], dtype>> \notin Registered
           c == CHOOSE i \in 1 .. 5 : P(i)
<1>5. Fallback[1] = "native"
  BY DEF Fallback
<1>6. P(1)
  BY <1>1, <1>5
<1>7. \A i \in 1 .. 5 : P(i) => i = 1
  BY <1>1, <1>5
<1>8. c = 1
  BY <1>6, <1>7
<1>9. Fallback[c] = "native"
  BY <1>5, <1>8
<1> HIDE DEF c
<1> QED
  BY <1>2, <1>4, <1>9 DEF Get, c

LEMMA GetFused ==
  ASSUME NEW asked, NEW dtype \in Dtypes, NEW t \in FusedLinears
  PROVE  /\ Get(t, asked, dtype) \in {None, "tpp", "aocldlp"}
         /\ Get(t, None, dtype) = None
<1>1. \A x : <<t, x, dtype>> \in Registered => x \in {"tpp", "aocldlp"}
  BY DEF Registered, FusedLinears, Dtypes
<1> QED
  BY <1>1 DEF Get, FusedTypes

LEMMA GetMlp ==
  ASSUME NEW asked, NEW dtype \in Dtypes
  PROVE  Get("mlp", asked, dtype) \in {None, "tpp", "imbps"}
<1>1. \A x : <<"mlp", x, dtype>> \in Registered => x \in {"tpp", "imbps"}
  BY DEF Registered, FusedLinears, Dtypes
<1> QED
  BY <1>1 DEF Get, FusedTypes

(* What the registry gives once the model is constructed: the parts of an  *)
(* operator that is fused are native.                                      *)
AllBuilt == phase \in {"preprocess", "execute", "done"}
LEMMA Classes ==
  ASSUME BuildsMakeSense, OpTypeOK, ChoicesMade, AllBuilt
  PROVE  /\ cls["mlp"] \in {None, "tpp", "imbps"}
         /\ \A m \in {"up", "gate"} :
              /\ cls[m] \in {None, "tpp", "aocldlp"}
              /\ cls["mlp"] # None => cls[m] = None
         /\ \A m \in {"up.linear", "gate.linear", "down", "head"} :
              /\ cls[m] \in {None, "native", "jit", "tpp", "aocldlp"}
              /\ Exists(m) => cls[m] # None
              /\ m # "head" /\ cls[Parent(m)] # None => cls[m] \in {"native", None}
              /\ m # "head" /\ cls["mlp"] # None => cls[m] \in {"native", None}
         /\ \A m \in {"up.act", "gate.act"} : cls[m] \in {"native", None}
         /\ Family(build.act) \in Acts
<1> USE DEF AllBuilt
<1>1. build.dtype \in Dtypes /\ build.act \in STRING \ {"mul"} /\ build.gated \in BOOLEAN
  BY DEF OpTypeOK, BuildsMakeSense
<1>2. \A i \in Index : Chosen(i)
  BY DEF ChoicesMade, Built
<1>3. Family(build.act) \in Acts
  <2>1. CASE build.gated
    <3>1. ActOf("gate") \in Acts \union {"mul"}
      BY <2>1, Order DEF ChoicesMade, Built, Exists
    <3> QED
      BY <1>1, <3>1 DEF ActOf, Family, Gelus
  <2>2. CASE ~build.gated
    <3>1. ActOf("up") \in Acts \union {"mul"}
      BY <2>2, Order DEF ChoicesMade, Built, Exists
    <3> QED
      BY <1>1, <2>2, <3>1 DEF ActOf, Family, Gelus
  <2> QED
    BY <1>1, <2>1, <2>2
<1>4. cls["mlp"] = Get("mlp", build.backend, build.dtype)
  BY <1>2, Order DEF Chosen, Exists, TypeOf, Asked
<1>5. \A m \in {"up", "gate"} : TypeOf(m) \in FusedLinears
  BY <1>3 DEF TypeOf, FusedLinear, ActOf, FusedLinears, Acts
<1>6. \A m \in {"up", "gate"} :
        /\ cls[m] \in {None, "tpp", "aocldlp"}
        /\ cls["mlp"] # None => cls[m] = None /\ impl[m] = None
  <2> SUFFICES ASSUME NEW m \in {"up", "gate"}
               PROVE  /\ cls[m] \in {None, "tpp", "aocldlp"}
                      /\ cls["mlp"] # None => cls[m] = None /\ impl[m] = None
    OBVIOUS
  <2>1. \/ cls[m] = None /\ impl[m] = None
        \/ impl[m] = Asked(m) /\ cls[m] = Get(TypeOf(m), Asked(m), build.dtype)
    BY <1>2, Order DEF Chosen
  <2>2. cls["mlp"] # None => Asked(m) = None
    BY DEF Asked, Parent, None
  <2> QED
    BY <1>1, <1>5, <2>1, <2>2, GetFused
<1>7. \A m \in {"up.linear", "gate.linear", "down", "head"} :
        /\ cls[m] \in {None, "native", "jit", "tpp", "aocldlp"}
        /\ Exists(m) => cls[m] # None
        /\ m # "head" /\ cls[Parent(m)] # None => cls[m] \in {"native", None}
        /\ m # "head" /\ cls["mlp"] # None => cls[m] \in {"native", None}
  <2> SUFFICES ASSUME NEW m \in {"up.linear", "gate.linear", "down", "head"}
               PROVE  /\ cls[m] \in {None, "native", "jit", "tpp", "aocldlp"}
                      /\ Exists(m) => cls[m] # None
                      /\ m # "head" /\ cls[Parent(m)] # None => cls[m] \in {"native", None}
                      /\ m # "head" /\ cls["mlp"] # None => cls[m] \in {"native", None}
    OBVIOUS
  <2>1. IF Exists(m) THEN cls[m] = Get("linear", Asked(m), build.dtype) ELSE cls[m] = None
    BY <1>2, Order DEF Chosen, TypeOf
  <2>2. m # "head" /\ cls[Parent(m)] # None => Asked(m) = None
    BY DEF Asked
  <2>3. m # "head" /\ cls["mlp"] # None => Asked(m) = None
    BY <1>6 DEF Asked, Parent
  <2> QED
    BY <1>1, <2>1, <2>2, <2>3, GetLinear DEF None
<1>8. \A m \in {"up.act", "gate.act"} : cls[m] \in {"native", None}
  <2> SUFFICES ASSUME NEW m \in {"up.act", "gate.act"} PROVE cls[m] \in {"native", None}
    OBVIOUS
  <2>1. cls[m] = None \/ cls[m] = Get(Family(build.act), Asked(m), build.dtype)
    BY <1>2, Order DEF Chosen, TypeOf
  <2> QED
    BY <1>1, <1>3, <2>1, GetAct
<1> QED
  BY <1>1, <1>3, <1>4, <1>6, <1>7, <1>8, GetMlp

(* No weight is changed twice: an operator that is fused changes those of   *)
(* its parts, and the parts are native then.                               *)
LEMMA OneChanger ==
  ASSUME BuildsMakeSense, OpTypeOK, ChoicesMade, AllBuilt,
         NEW i \in Index, NEW j \in Index, NEW w \in Weights,
         Changes(Modules[i], w), Changes(Modules[j], w)
  PROVE  i = j
<1>1. ASSUME NEW k \in Index, Changes(Modules[k], w) PROVE
        \/ w = "head" /\ k = 9
        \/ w = "down" /\ ((k = 1 /\ cls["mlp"] = "tpp") \/ k = 5)
        \/ w = "up.linear" /\ ((k = 1 /\ cls["mlp"] = "tpp") \/ (k = 2 /\ cls["up"] # None) \/ k = 3)
        \/ w = "gate.linear" /\ ((k = 1 /\ cls["mlp"] = "tpp") \/ (k = 6 /\ cls["gate"] # None) \/ k = 7)
  <2> DEFINE M == cls["mlp"] = "tpp"
             U == cls["up"] # None
             G == cls["gate"] # None
  <2> HIDE DEF M, U, G
  <2> SUFFICES
        \/ w = "head" /\ k = 9
        \/ w = "down" /\ ((k = 1 /\ M) \/ k = 5)
        \/ w = "up.linear" /\ ((k = 1 /\ M) \/ (k = 2 /\ U) \/ k = 3)
        \/ w = "gate.linear" /\ ((k = 1 /\ M) \/ (k = 6 /\ G) \/ k = 7)
    BY DEF M, U, G
  <2>1. w \in Mine(Modules[k]) /\ cls[Modules[k]] \in {"tpp", "aocldlp"}
    BY <1>1 DEF Changes
  <2>2. \A m \in {"up.act", "gate.act"} : cls[m] \notin {"tpp", "aocldlp"}
    BY Classes DEF None
  <2>3. k # 4 /\ k # 8
    BY <2>1, <2>2, Order
  <2>4. cls["mlp"] \in {None, "tpp", "imbps"}
    BY Classes
  <2>5. CASE k = 1
    <3>1. Modules[k] = "mlp"
      BY <2>5, Order
    <3>2. M
      BY <2>1, <2>4, <3>1 DEF None, M
    <3>3. w \in {"up.linear", "gate.linear", "down"}
      BY <2>1, <3>1 DEF Mine, Weights
    <3> QED
      BY <2>5, <3>2, <3>3
  <2>6. CASE k \in {2, 3, 5, 6, 7, 9}
    BY <2>1, <2>6, Order DEF Mine, LinearOf, Weights, None, U, G
  <2> QED
    BY <2>3, <2>5, <2>6, Order
<1>2. \A k \in Index : Changes(Modules[k], w) => cls[Modules[k]] \in {"tpp", "aocldlp"}
  BY DEF Changes
<1>3. cls["down"] \in {"tpp", "aocldlp"} => cls["mlp"] = None
  BY Classes DEF None
<1>4. cls["up.linear"] \in {"tpp", "aocldlp"} => cls["mlp"] = None /\ cls["up"] = None
  BY Classes DEF Parent, None
<1>5. cls["gate.linear"] \in {"tpp", "aocldlp"} => cls["mlp"] = None /\ cls["gate"] = None
  BY Classes DEF Parent, None
<1>6. \A m \in {"up", "gate"} : cls[m] # None => cls["mlp"] = None
  BY Classes DEF None
<1>7. cls[Modules[i]] \in {"tpp", "aocldlp"} /\ cls[Modules[j]] \in {"tpp", "aocldlp"}
  BY <1>2
<1>8. "tpp" # None
  BY DEF None
<1>9. \/ w = "head" /\ i = 9
      \/ w = "down" /\ ((i = 1 /\ cls["mlp"] = "tpp") \/ i = 5)
      \/ w = "up.linear" /\ ((i = 1 /\ cls["mlp"] = "tpp") \/ (i = 2 /\ cls["up"] # None) \/ i = 3)
      \/ w = "gate.linear" /\ ((i = 1 /\ cls["mlp"] = "tpp") \/ (i = 6 /\ cls["gate"] # None) \/ i = 7)
  BY <1>1
<1>10. \/ w = "head" /\ j = 9
       \/ w = "down" /\ ((j = 1 /\ cls["mlp"] = "tpp") \/ j = 5)
       \/ w = "up.linear" /\ ((j = 1 /\ cls["mlp"] = "tpp") \/ (j = 2 /\ cls["up"] # None) \/ j = 3)
       \/ w = "gate.linear" /\ ((j = 1 /\ cls["mlp"] = "tpp") \/ (j = 6 /\ cls["gate"] # None) \/ j = 7)
  BY <1>1
<1>11. CASE w = "head"
  BY <1>9, <1>10, <1>11
<1>12. CASE w = "down"
  BY <1>3, <1>7, <1>8, <1>9, <1>10, <1>12, Order
<1>13. CASE w = "up.linear"
  BY <1>4, <1>6, <1>7, <1>8, <1>9, <1>10, <1>13, Order
<1>14. CASE w = "gate.linear"
  BY <1>5, <1>6, <1>7, <1>8, <1>9, <1>10, <1>14, Order
<1> QED
  BY <1>11, <1>12, <1>13, <1>14 DEF Weights

-----------------------------------------------------------------------------
LEMMA OpStarts ==
  ASSUME OpInit PROVE OpInv
<1> USE OpInit DEF OpInit
<1>1. OpTypeOK
  BY DEF OpTypeOK, Index
<1>2. ChoicesMade
  BY Order DEF ChoicesMade, Built, Names
<1>3. Layouts
  BY DEF Layouts, Laid, Weights
<1>4. Cuts
  BY DEF Cuts, Laid
<1>5. Computed /\ BackendFitsCache
  BY DEF Computed, BackendFitsCache
<1> QED
  BY <1>1, <1>2, <1>3, <1>4, <1>5 DEF OpInv

LEMMA AfterFinalize ==
  ASSUME BuildsMakeSense, OpInv, Finalize PROVE OpInv'
<1> USE DEF OpInv
<1>1. /\ phase = "finalize" /\ UNCHANGED <<build, turn, impl, cls, weight, pieces, rounds>>
      /\ phase' \in {"construct", "raised"}
  BY DEF Finalize, Raise
<1>2. turn = 1
  BY <1>1 DEF OpTypeOK
<1>3. OpTypeOK'
  BY <1>1, <1>2 DEF OpTypeOK
<1>4. \A i \in Index : ~Built(i) /\ ~Built(i)' /\ ~Laid(i) /\ ~Laid(i)'
  BY <1>1, <1>2 DEF Built, Laid, Index
<1>5. ChoicesMade'
  BY <1>1, <1>4 DEF ChoicesMade
<1>6. Layouts'
  <2>1. \A w \in Weights : weight[w] = "rows"
    BY <1>1, <1>4 DEF Layouts
  <2> QED
    BY <1>1, <1>4, <2>1 DEF Layouts
<1>7. Cuts'
  BY <1>1, <1>4 DEF Cuts, Index
<1>8. Computed'
  BY <1>1 DEF Computed
<1>9. BackendFitsCache'
  <2>1. build \in Builds
    BY DEF OpTypeOK
  <2>2. build.cache \in DOMAIN Compatible
        /\ build.attention \in {"jit", "native", "slab", "paged", None}
    BY <2>1 DEF BuildsMakeSense
  <2>3. CASE phase' = "raised"
    BY <2>3 DEF BackendFitsCache
  <2>4. CASE phase' # "raised"
    <3> DEFINE asked == IF build.attention = None THEN "jit" ELSE build.attention
               attn == IF asked \in Compatible[build.cache] THEN asked
                       ELSE DefaultAttention[build.cache]
    <3>1. attends' = [target |-> attn, draft |-> IF build.draft THEN attn ELSE None]
      BY <2>4 DEF Finalize, Raise
    <3>2. attn # None /\ AttentionClass(attn) = CacheClass[build.cache]
      BY <2>2 DEF Compatible, DefaultAttention, AttentionClass, CacheClass, None
    <3>3. build.attention # None /\ AttentionClass(build.attention) = CacheClass[build.cache]
            => attn = build.attention
      BY <2>2 DEF Compatible, DefaultAttention, AttentionClass, CacheClass, None
    <3> HIDE DEF attn
    <3> QED
      BY <1>1, <3>1, <3>2, <3>3 DEF BackendFitsCache, AttentionClass
  <2> QED
    BY <2>3, <2>4
<1> QED
  BY <1>3, <1>5, <1>6, <1>7, <1>8, <1>9

(* named_modules yields a module before its parts. *)
LEMMA Apart ==
  /\ \A i, j \in Index : Modules[i] = Modules[j] => i = j
  /\ \A i \in Index : Modules[i] \in Names
  /\ \A i \in Index \ {1, 9} : \E j \in Index : j < i /\ Modules[j] = Parent(Modules[i])
<1>1. \A i, j \in Index : Modules[i] = Modules[j] => i = j
  BY Order
<1>2. \A i \in Index : Modules[i] \in Names
  BY DEF Names, Index
<1>3. /\ Parent("up") = "mlp" /\ Parent("down") = "mlp" /\ Parent("gate") = "mlp"
      /\ Parent("up.linear") = "up" /\ Parent("up.act") = "up"
      /\ Parent("gate.linear") = "gate" /\ Parent("gate.act") = "gate"
  BY DEF Parent
<1>4. \A i \in Index \ {1, 9} : \E j \in Index : j < i /\ Modules[j] = Parent(Modules[i])
  BY <1>3, Order
<1> QED
  BY <1>1, <1>2, <1>4

(* A ValueError ends it. *)
LEMMA Halts ==
  ASSUME OpInv, phase' = "raised", UNCHANGED <<build, turn, impl, cls, weight, pieces>>, rounds' = <<>>
  PROVE  OpInv'
<1>1. \A i \in Index : ~Built(i)' /\ ~Laid(i)'
  BY DEF Built, Laid
<1>2. OpTypeOK'
  BY DEF OpInv, OpTypeOK
<1>3. ChoicesMade' /\ Cuts' /\ BackendFitsCache'
  BY <1>1 DEF ChoicesMade, Cuts, BackendFitsCache
<1>4. Layouts'
  BY <1>1 DEF OpInv, Layouts
<1>5. Computed'
  BY DEF Computed
<1> QED
  BY <1>2, <1>3, <1>4, <1>5 DEF OpInv

LEMMA AfterConstruct ==
  ASSUME BuildsMakeSense, OpInv, Construct PROVE OpInv'
<1> DEFINE m == Modules[turn]
<1> USE DEF OpInv
<1>1. phase = "construct" /\ turn \in Index /\ UNCHANGED <<build, attends, weight, pieces, rounds>>
  BY DEF Construct, Raise, OpTypeOK
<1>2. rounds = <<>>
  BY <1>1 DEF Computed
<1>3. CASE Raise
  BY <1>1, <1>2, <1>3, Halts DEF Raise
<1>4. ASSUME ~Raise PROVE OpInv'
  <2>1. /\ Step("preprocess")
        /\ \/ /\ Exists(m)
              /\ m \in {"up", "gate"} => ActOf(m) \in Acts \union {"mul"}
              /\ impl' = [impl EXCEPT ![m] = Asked(m)]
              /\ cls' = [cls EXCEPT ![m] = Get(TypeOf(m), Asked(m), build.dtype)]
           \/ ~Exists(m) /\ UNCHANGED <<impl, cls>>
    BY <1>1, <1>4 DEF Construct, Unsupported, Acts
  <2>2. /\ turn' \in Index /\ phase' \in {"construct", "preprocess"}
        /\ phase' = "preprocess" => turn' = 1
        /\ \A i \in Index : Built(i)' <=> (Built(i) \/ i = turn)
        /\ \A i \in Index : Built(i) <=> i < turn
        /\ \A i \in Index : ~Laid(i) /\ ~Laid(i)'
    BY <1>1, <2>1 DEF Step, Index, Built, Laid
  <2>3. OpTypeOK'
    BY <1>1, <2>1, <2>2 DEF OpTypeOK
  <2>4. \A i \in Index : i # turn =>
          impl'[Modules[i]] = impl[Modules[i]] /\ cls'[Modules[i]] = cls[Modules[i]]
    BY <1>1, <2>1, Apart DEF OpTypeOK
  <2>5. Exists(m) => impl'[m] = Asked(m) /\ cls'[m] = Get(TypeOf(m), Asked(m), build.dtype)
    BY <1>1, <2>1, Apart DEF OpTypeOK
  <2>6. \A i \in Index : i <= turn => Asked(Modules[i])' = Asked(Modules[i])
    <3> SUFFICES ASSUME NEW i \in Index, i <= turn PROVE Asked(Modules[i])' = Asked(Modules[i])
      OBVIOUS
    <3>1. CASE i \in {1, 9}
      BY <1>1, <3>1, Order DEF Asked
    <3>2. CASE i \notin {1, 9}
      <4>1. PICK j \in Index : j < i /\ Modules[j] = Parent(Modules[i])
        BY <3>2, Apart
      <4>2. j # turn
        BY <1>1, <4>1 DEF Index
      <4>3. impl'[Parent(Modules[i])] = impl[Parent(Modules[i])]
            /\ cls'[Parent(Modules[i])] = cls[Parent(Modules[i])]
        BY <2>4, <4>1, <4>2
      <4> QED
        BY <1>1, <4>3 DEF Asked
    <3> QED
      BY <3>1, <3>2
  <2>7. \A x : (Exists(x)' <=> Exists(x)) /\ TypeOf(x)' = TypeOf(x) /\ ActOf(x)' = ActOf(x)
    BY <1>1 DEF Exists, TypeOf, ActOf
  <2>8. \A i \in Index : Built(i)' => Chosen(i)'
    <3> SUFFICES ASSUME NEW i \in Index, Built(i)' PROVE Chosen(i)'
      OBVIOUS
    <3>1. i <= turn /\ (i # turn => Built(i))
      BY <1>1, <2>2 DEF Index
    <3>2. Asked(Modules[i])' = Asked(Modules[i])
      BY <2>6, <3>1
    <3>3. CASE i = turn
      <4>1. ~Exists(m) => impl'[m] = None /\ cls'[m] = None
        BY <1>1, <2>1, <2>2 DEF ChoicesMade, Index
      <4> QED
        BY <1>1, <2>5, <2>7, <3>2, <3>3, <4>1 DEF Chosen
    <3>4. CASE i # turn
      <4>1. Chosen(i)
        BY <1>1, <3>1, <3>4 DEF ChoicesMade
      <4> QED
        BY <1>1, <2>4, <2>7, <3>2, <3>4, <4>1 DEF Chosen
    <3> QED
      BY <3>3, <3>4
  <2>9. ChoicesMade'
    <3>1. \A i \in Index : ~Built(i)' => impl'[Modules[i]] = None /\ cls'[Modules[i]] = None
      BY <1>1, <2>2, <2>4 DEF ChoicesMade
    <3>2. \A i \in Index : Built(i)' /\ Exists(Modules[i])' /\ Modules[i] \in {"up", "gate"} =>
            ActOf(Modules[i])' \in Acts \union {"mul"}
      BY <2>1, <2>2, <2>7 DEF ChoicesMade
    <3> QED
      BY <2>8, <3>1, <3>2 DEF ChoicesMade
  <2>10. Layouts'
    <3>1. \A w \in Weights : weight[w] = "rows"
      BY <1>1, <2>2 DEF Layouts
    <3> QED
      BY <1>1, <2>2, <3>1 DEF Layouts
  <2>11. Cuts'
    BY <1>1, <2>2 DEF Cuts, Index
  <2>12. Computed'
    BY <1>1, <1>2, <2>2 DEF Computed
  <2>13. BackendFitsCache'
    BY <1>1, <2>2 DEF BackendFitsCache
  <2> QED
    BY <2>3, <2>9, <2>10, <2>11, <2>12, <2>13
<1> QED
  BY <1>3, <1>4

LEMMA Divided ==
  ASSUME NEW a \in Nat, NEW k \in Nat \ {0}
  PROVE  LET q == a \div k IN q \in Int /\ q * k <= a /\ a < q * k + k
<1> DEFINE q == a \div k
           r == a % k
<1>1. q \in Int /\ r \in Int /\ 0 <= r /\ r < k /\ a = k * q + r
  OBVIOUS
<1> HIDE DEF q, r
<1>2. k * q = q * k /\ q * k \in Int
  BY <1>1
<1>3. q * k <= a /\ a < q * k + k
  BY <1>1, <1>2
<1> QED
  BY <1>1, <1>3 DEF q

(* Rounded up: as many pieces of size k as it takes. *)
LEMMA CutIs ==
  ASSUME NEW n \in Nat \ {0}, NEW k \in Nat \ {0}
  PROVE  Cut(n, k) \in Nat \ {0} /\ (Cut(n, k) - 1) * k < n /\ n <= Cut(n, k) * k
<1> DEFINE a == n + k - 1
           q == a \div k
<1>1. a \in Nat /\ a >= k
  OBVIOUS
<1>2. q \in Int /\ q * k <= a /\ a < q * k + k
  BY <1>1, Divided
<1>3. q >= 1
  <2>1. SUFFICES ASSUME q <= 0 PROVE FALSE
    BY <1>2
  <2>2. q * k <= 0
    BY <1>2, <2>1
  <2> QED
    BY <1>1, <1>2, <2>2
<1>4. (q - 1) * k = q * k - k
  BY <1>2
<1> QED
  BY <1>2, <1>3, <1>4 DEF Cut

LEMMA Product ==
  ASSUME NEW i \in Nat, NEW j \in Nat, NEW s \in Nat \ {0}, i * s < j * s PROVE i < j
<1>1. SUFFICES ASSUME i >= j PROVE FALSE
  OBVIOUS
<1>2. i * s >= j * s
  BY <1>1
<1>3. i * s \in Int /\ j * s \in Int
  OBVIOUS
<1> QED
  BY <1>2, <1>3

(* torch.chunk takes a range apart. *)
LEMMA ChunksPartition ==
  ASSUME NEW n \in Nat \ {0}, NEW k \in Nat \ {0}
  PROVE  /\ Len(Chunks(n, k)) \in Nat \ {0}
         /\ \A c \in 1 .. n : \E i \in 1 .. Len(Chunks(n, k)) : c \in Chunks(n, k)[i]
         /\ \A i, j \in 1 .. Len(Chunks(n, k)) : \A c :
              c \in Chunks(n, k)[i] /\ c \in Chunks(n, k)[j] => i = j
<1> DEFINE s == Cut(n, k)
           N == Cut(n, s)
           F == Chunks(n, k)
<1>1. s \in Nat \ {0}
  BY CutIs
<1>2. N \in Nat \ {0} /\ n <= N * s
  BY <1>1, CutIs
<1>3. F = [i \in 1 .. N |-> {c \in 1 .. n : (i - 1) * s < c /\ c <= i * s}]
  BY DEF Chunks
<1> HIDE DEF F, s, N
<1>4. Len(F) = N
  BY <1>2, <1>3
<1>5. ASSUME NEW c \in 1 .. n PROVE \E i \in 1 .. N : c \in F[i]
  <2> DEFINE i == Cut(c, s)
  <2>0. c \in Nat \ {0}
    OBVIOUS
  <2>1. i \in Nat \ {0} /\ (i - 1) * s < c /\ c <= i * s
    BY <1>1, <2>0, CutIs
  <2> HIDE DEF i
  <2>2. (i - 1) * s < N * s
    <3>1. (i - 1) * s \in Int /\ N * s \in Int
      BY <1>1, <1>2, <2>1
    <3> QED
      BY <1>2, <2>1, <3>1
  <2>3. i - 1 < N
    BY <1>1, <1>2, <2>1, <2>2, Product
  <2> QED
    BY <1>2, <1>3, <2>1, <2>3
<1>6. ASSUME NEW i \in 1 .. N, NEW j \in 1 .. N, NEW c, c \in F[i], c \in F[j] PROVE i = j
  <2>1. c \in 1 .. n /\ (i - 1) * s < c /\ c <= i * s /\ (j - 1) * s < c /\ c <= j * s
    BY <1>3, <1>6
  <2>2. (i - 1) * s \in Int /\ i * s \in Int /\ (j - 1) * s \in Int /\ j * s \in Int
    BY <1>1, <1>2
  <2>3. (i - 1) * s < j * s /\ (j - 1) * s < i * s
    BY <2>1, <2>2
  <2>4. i \in Nat /\ j \in Nat /\ i - 1 \in Nat /\ j - 1 \in Nat
    BY <1>2
  <2>5. i - 1 < j /\ j - 1 < i
    BY <1>1, <2>3, <2>4, Product
  <2> QED
    BY <2>4, <2>5
<1> QED
  BY <1>2, <1>4, <1>5, <1>6 DEF F

LEMMA Partition ==
  ASSUME NEW n \in Nat \ {0}, NEW k \in Nat \ {0}, NEW p \in {Chunks(n, k), <<1 .. n>>}
  PROVE  /\ Len(p) \in Nat \ {0}
         /\ \A c \in 1 .. n : \E i \in 1 .. Len(p) : c \in p[i]
         /\ \A i, j \in 1 .. Len(p) : \A c : c \in p[i] /\ c \in p[j] => i = j
<1>1. CASE p = Chunks(n, k)
  BY <1>1, ChunksPartition
<1>2. CASE p = <<1 .. n>>
  <2>1. Len(p) = 1 /\ p[1] = 1 .. n
    BY <1>2
  <2> QED
    BY <2>1
<1> QED
  BY <1>1, <1>2

LEMMA PiecesAre ==
  ASSUME BuildsMakeSense, OpTypeOK, Cuts, phase # "raised"
  PROVE  /\ build.width \in Nat \ {0} /\ build.chunks \in Nat \ {0}
         /\ \A w \in {"up.linear", "gate.linear", "down"} : pieces[w] = pieces["up.linear"]
         /\ pieces["up.linear"] \in {Chunks(build.width, build.chunks), <<1 .. build.width>>}
         /\ Len(pieces["up.linear"]) \in Nat \ {0}
<1>1. build.width \in Nat \ {0} /\ build.chunks \in Nat \ {0}
  BY DEF OpTypeOK, BuildsMakeSense
<1> DEFINE some == IF cls["mlp"] = "imbps" /\ Laid(1) THEN Chunks(build.width, build.chunks)
                   ELSE <<1 .. build.width>>
<1>2. \A w \in {"up.linear", "gate.linear", "down"} : pieces[w] = some
  BY DEF Cuts
<1>3. some \in {Chunks(build.width, build.chunks), <<1 .. build.width>>}
  OBVIOUS
<1> HIDE DEF some
<1>4. /\ pieces["up.linear"] = some
      /\ \A w \in {"up.linear", "gate.linear", "down"} : pieces[w] = pieces["up.linear"]
  BY <1>2
<1>5. Len(some) \in Nat \ {0}
  <2> DEFINE n == build.width
             k == build.chunks
  <2>1. n \in Nat \ {0} /\ k \in Nat \ {0} /\ some \in {Chunks(n, k), <<1 .. n>>}
    BY <1>1, <1>3
  <2> HIDE DEF n, k
  <2> QED
    BY <2>1, Partition
<1> QED
  BY <1>1, <1>3, <1>4, <1>5

LEMMA AfterPreprocess ==
  ASSUME BuildsMakeSense, OpInv, Preprocess PROVE OpInv'
<1> DEFINE m == Modules[turn]
<1> USE DEF OpInv
<1>1. /\ phase = "preprocess" /\ turn \in Index
      /\ UNCHANGED <<build, attends, impl, cls, rounds>> /\ Step("execute")
  BY DEF Preprocess, OpTypeOK
<1>2. rounds = <<>> /\ AllBuilt /\ AllBuilt'
  BY <1>1 DEF Computed, AllBuilt, Step
<1>3. /\ turn' \in Index /\ phase' \in {"preprocess", "execute"}
      /\ \A i \in Index : Laid(i)' <=> (Laid(i) \/ i = turn)
      /\ \A i \in Index : Laid(i) <=> i < turn
      /\ \A i \in Index : Built(i) /\ Built(i)'
  BY <1>1 DEF Step, Index, Built, Laid
<1>4. weight' = [w \in DOMAIN weight |->
                   IF w \notin Mine(m) THEN weight[w]
                   ELSE CASE cls[m] = "tpp" -> PackedByTpp(w)
                          [] cls[m] = "aocldlp" -> Reordered(w)
                          [] OTHER -> weight[w]]
  BY DEF Preprocess, Mine
<1>5. DOMAIN weight = Weights \union {"embed"}
  BY DEF OpTypeOK
<1>6. OpTypeOK'
  BY <1>1, <1>3, <1>4, <1>5 DEF OpTypeOK
<1>7. ChoicesMade'
  <2>1. \A x : (Exists(x)' <=> Exists(x)) /\ TypeOf(x)' = TypeOf(x) /\ ActOf(x)' = ActOf(x)
               /\ Asked(x)' = Asked(x)
    BY <1>1 DEF Exists, TypeOf, ActOf, Asked
  <2>2. \A i \in Index : Chosen(i)' <=> Chosen(i)
    BY <1>1, <2>1 DEF Chosen
  <2>3. \A i \in Index : Chosen(i)
    BY <1>1, <1>3 DEF ChoicesMade
  <2>4. \A i \in Index : Exists(Modules[i]) /\ Modules[i] \in {"up", "gate"} =>
          ActOf(Modules[i]) \in Acts \union {"mul"}
    BY <1>3 DEF ChoicesMade
  <2> QED
    BY <1>3, <2>1, <2>2, <2>3, <2>4 DEF ChoicesMade
<1>8. Layouts'
  <2>1. \A i \in Index, w \in Weights : Changes(Modules[i], w)' <=> Changes(Modules[i], w)
    BY <1>1 DEF Changes, Mine
  <2>2. \A i \in Index, w \in Weights : After(cls[Modules[i]], w)' = After(cls[Modules[i]], w)
    BY <1>1 DEF After
  <2>3. \A w \in Weights : ~Changes(m, w) => weight'[w] = weight[w]
    BY <1>4, <1>5 DEF Changes
  <2>4. ASSUME NEW w \in Weights, Changes(m, w)
        PROVE  weight'[w] = After(cls[m], w) /\ \A i \in Index \ {turn} : ~Changes(Modules[i], w)
    <3>1. \A i \in Index \ {turn} : ~Changes(Modules[i], w)
      BY <1>1, <1>2, <2>4, OneChanger
    <3>2. weight[w] = "rows"
      BY <1>1, <1>3, <3>1 DEF Layouts, Index
    <3>3. weight'[w] = CASE cls[m] = "tpp" -> PackedByTpp(w) [] cls[m] = "aocldlp" -> Reordered(w)
                         [] OTHER -> weight[w]
      BY <1>4, <1>5, <2>4 DEF Changes
    <3> QED
      BY <2>4, <3>1, <3>2, <3>3 DEF PackedByTpp, Reordered, Changed, Changes, After
  <2>5. "embed" \notin Mine(m)
    BY <1>1, Order DEF Mine, LinearOf, Weights
  <2>6. weight'["embed"] = "rows"
    BY <1>4, <1>5, <2>5 DEF Layouts
  <2>7. ASSUME NEW i \in Index, NEW w \in Weights, Laid(i)', Changes(Modules[i], w)
        PROVE  weight'[w] = After(cls[Modules[i]], w)
    <3>1. CASE i = turn
      BY <2>4, <2>7, <3>1
    <3>2. CASE i # turn
      <4>1. ~Changes(m, w)
        BY <2>4, <2>7, <3>2
      <4> QED
        BY <1>3, <2>3, <2>7, <3>2, <4>1 DEF Layouts
    <3> QED
      BY <3>1, <3>2
  <2>8. ASSUME NEW w \in Weights, \A i \in Index : ~(Laid(i)' /\ Changes(Modules[i], w))
        PROVE  weight'[w] = "rows"
    <3>1. ~Changes(m, w)
      BY <1>1, <1>3, <2>8
    <3> QED
      BY <1>1, <1>3, <2>3, <2>8, <3>1 DEF Layouts
  <2> QED
    BY <1>1, <2>1, <2>2, <2>6, <2>7, <2>8 DEF Layouts
<1>9. Cuts'
  <2> DEFINE P == {"up.linear", "gate.linear", "down"}
  <2>1. pieces' = IF cls[m] = "imbps"
                  THEN [w \in DOMAIN pieces |-> Chunks(build.width, build.chunks)] ELSE pieces
    BY DEF Preprocess
  <2>2. pieces = [w \in P |-> IF cls["mlp"] = "imbps" /\ Laid(1)
                               THEN Chunks(build.width, build.chunks) ELSE <<1 .. build.width>>]
    BY <1>1 DEF Cuts
  <2>3. turn # 1 => cls[m] # "imbps"
    BY <1>1, <1>2, Classes, Order DEF None
  <2>4. (Laid(1)' <=> (Laid(1) \/ turn = 1)) /\ (Laid(1) <=> 1 < turn)
    BY <1>1, <1>3 DEF Index
  <2>5. turn = 1 => m = "mlp"
    BY Order
  <2>6. pieces' = [w \in P |-> IF cls["mlp"] = "imbps" /\ Laid(1)'
                                THEN Chunks(build.width, build.chunks) ELSE <<1 .. build.width>>]
    <3>1. CASE turn = 1
      BY <2>1, <2>2, <2>4, <2>5, <3>1
    <3>2. CASE turn # 1
      BY <1>1, <2>1, <2>2, <2>3, <2>4, <3>2 DEF Index
    <3> QED
      BY <3>1, <3>2
  <2>7. Chunks(build.width, build.chunks)' = Chunks(build.width, build.chunks)
    BY <1>1
  <2> QED
    BY <1>1, <2>6, <2>7 DEF Cuts
<1>10. BackendFitsCache'
  BY <1>1, <1>3 DEF BackendFitsCache
<1>11. Computed'
  <2>1. CASE phase' # "execute"
    BY <1>1, <1>2, <1>3, <2>1 DEF Computed
  <2>2. CASE phase' = "execute"
    <3>1. build.width \in Nat \ {0} /\ build.chunks \in Nat \ {0}
      BY DEF OpTypeOK, BuildsMakeSense
    <3>2. pieces'["up.linear"] \in {Chunks(build.width, build.chunks), <<1 .. build.width>>}
      BY <1>1, <1>9, <2>2 DEF Cuts
    <3>3. Len(pieces'["up.linear"]) \in Nat \ {0}
      BY <3>1, <3>2, Partition
    <3>4. rounds' = [i \in 1 .. 0 |-> Round(i)'] /\ 0 \in 0 .. Len(pieces'["up.linear"])
      BY <1>1, <1>2, <3>3
    <3> HIDE DEF Round
    <3>5. 0 < Len(pieces'["up.linear"])
      BY <3>3
    <3> QED
      BY <1>1, <1>2, <2>2, <3>4, <3>5 DEF Computed
  <2> QED
    BY <2>1, <2>2
<1> QED
  BY <1>6, <1>7, <1>8, <1>9, <1>10, <1>11

LEMMA AfterExecute ==
  ASSUME BuildsMakeSense, OpInv, Execute PROVE OpInv'
<1> USE DEF OpInv
<1>1. phase = "execute" /\ UNCHANGED <<build, turn, attends, impl, cls, weight, pieces>>
  BY DEF Execute
<1>2. PICK n \in 0 .. Len(pieces["up.linear"]) :
        rounds = [i \in 1 .. n |-> Round(i)] /\ n < Len(pieces["up.linear"])
  BY <1>1 DEF Computed
<1>3. Len(pieces["up.linear"]) \in Nat \ {0}
  BY <1>1, PiecesAre
<1>4. Len(rounds) = n /\ n \in Nat
  BY <1>2, <1>3
<1>5. CASE Refused /\ phase' = "raised" /\ UNCHANGED rounds
  <2>1. rounds = <<>>
    BY <1>5 DEF Computed
  <2> QED
    BY <1>1, <1>5, <2>1, Halts
<1>6. CASE ~Refused /\ phase' # "raised"
  <2>1. rounds' = Append(rounds, Round(n + 1))
        /\ phase' = IF n + 1 = Len(pieces["up.linear"]) THEN "done" ELSE "execute"
    BY <1>1, <1>4, <1>6 DEF Execute, Round
  <2>2. \A i : Round(i)' = Round(i)
    BY <1>1 DEF Round, UsedWeights, Kernel, OneKernel, Activation, ActOf, DownBias
  <2>3. rounds' = [i \in 1 .. n + 1 |-> Round(i)']
    <3> DEFINE f == [i \in 1 .. n + 1 |-> Round(i)]
               g == [i \in 1 .. n |-> Round(i)]
    <3> HIDE DEF Round
    <3>1. Append(g, Round(n + 1)) = f
      BY <1>4
    <3> QED
      BY <1>2, <2>1, <2>2, <3>1
  <2>4. phase' \in {"execute", "done"} /\ (phase' = "done" <=> n + 1 = Len(pieces'["up.linear"]))
    BY <1>1, <2>1
  <2>5. Refused' <=> Refused
    BY <1>1 DEF Refused
  <2>6. Computed'
    <3>1. n + 1 \in 0 .. Len(pieces'["up.linear"])
          /\ IF phase' = "done" THEN n + 1 = Len(pieces'["up.linear"])
             ELSE n + 1 < Len(pieces'["up.linear"])
      BY <1>1, <1>2, <1>3, <1>4, <2>4
    <3> QED
      BY <1>6, <2>3, <2>4, <2>5, <3>1 DEF Computed
  <2>7. \A i \in Index : (Built(i)' <=> Built(i)) /\ (Laid(i)' <=> Laid(i))
    BY <1>1, <2>4 DEF Built, Laid
  <2>8. OpTypeOK'
    BY <1>1, <2>4 DEF OpTypeOK
  <2>9. ChoicesMade'
    <3>1. \A x : (Exists(x)' <=> Exists(x)) /\ TypeOf(x)' = TypeOf(x) /\ ActOf(x)' = ActOf(x)
                 /\ Asked(x)' = Asked(x)
      BY <1>1 DEF Exists, TypeOf, ActOf, Asked
    <3>2. \A i \in Index : Chosen(i)' <=> Chosen(i)
      BY <1>1, <3>1 DEF Chosen
    <3> QED
      BY <1>1, <2>4, <2>7, <3>1, <3>2 DEF ChoicesMade
  <2>10. Layouts'
    <3>1. \A i \in Index, w \in Weights : Changes(Modules[i], w)' <=> Changes(Modules[i], w)
      BY <1>1 DEF Changes, Mine
    <3>2. \A i \in Index, w \in Weights : After(cls[Modules[i]], w)' = After(cls[Modules[i]], w)
      BY <1>1 DEF After
    <3> QED
      BY <1>1, <2>4, <2>7, <3>1, <3>2 DEF Layouts
  <2>11. Cuts'
    <3>1. Laid(1)' <=> Laid(1)
      BY <2>7 DEF Index
    <3>2. Chunks(build.width, build.chunks)' = Chunks(build.width, build.chunks)
      BY <1>1
    <3> QED
      BY <1>1, <2>4, <3>1, <3>2 DEF Cuts
  <2>12. BackendFitsCache'
    BY <1>1, <2>4 DEF BackendFitsCache
  <2> QED
    BY <2>6, <2>8, <2>9, <2>10, <2>11, <2>12
<1> QED
  BY <1>1, <1>5, <1>6 DEF Execute

(* Backend by backend: the layout a weight was left in is its kernel's.    *)
LEMMA KernelReads ==
  ASSUME BuildsMakeSense, OpInv, phase \in {"execute", "done"}, ~Refused,
         NEW w \in UsedWeights
  PROVE  weight[w] \in Reads(Kernel(w))
<1> USE DEF OpInv
<1>1. AllBuilt /\ \A i \in Index : Laid(i)
  BY DEF AllBuilt, Laid
<1>2. w \in {"up.linear", "gate.linear", "down"} /\ w \in Weights /\ Exists(w)
  BY DEF UsedWeights, Weights, Exists
<1>3. \A m \in Names : Changes(m, w) => weight[w] = After(cls[m], w)
  <2>1. \A m \in Names : \E i \in Index : m = Modules[i]
    BY DEF Names, Index
  <2> QED
    BY <1>1, <1>2, <2>1 DEF Layouts
<1>4. (\A m \in Names : ~Changes(m, w)) => weight[w] = "rows"
  BY <1>1, <1>2, Apart DEF Layouts
<1>5. \A m \in Names : w \in Mine(m) <=>
        \/ m = "mlp" \/ m = w
        \/ (w = "up.linear" /\ m = "up")
        \/ (w = "gate.linear" /\ m = "gate")
  BY <1>2, Order DEF Mine, LinearOf, Names, Weights
<1>6. w \in Names /\ (w # "down" => Parent(w) \in {"up", "gate"} /\ w \in Mine(Parent(w)))
  BY <1>2, Order DEF Mine, LinearOf, Names, Weights, Parent
<1>7. cls["mlp"] \in {None, "tpp", "imbps"}
  BY <1>1, Classes
<1>8. /\ cls[w] \in {"native", "jit", "tpp", "aocldlp"}
      /\ cls["mlp"] # None => cls[w] = "native"
  BY <1>1, <1>2, Classes
<1>9. w # "down" => /\ cls[Parent(w)] \in {None, "tpp", "aocldlp"}
                    /\ cls["mlp"] # None => cls[Parent(w)] = None
                    /\ \A m \in Names : w \in Mine(m) => m \in {"mlp", w, Parent(w)}
  BY <1>1, <1>2, <1>5, <1>6, Classes DEF Parent
<1>10. w = "down" => \A m \in Names : w \in Mine(m) => m \in {"mlp", w}
  BY <1>5
<1>11. "mlp" \in Names /\ w \in Mine("mlp") /\ w \in Mine(w)
  BY <1>5, <1>6, Order DEF Names
<1>12. CASE cls["mlp"] = "imbps"
  <2>1. \A m \in Names : ~Changes(m, w)
    BY <1>8, <1>9, <1>10, <1>12 DEF Changes, None
  <2> QED
    BY <1>4, <1>12, <2>1 DEF Kernel, Reads
<1>13. CASE cls["mlp"] = "tpp"
  <2>1. weight[w] = After("tpp", w)
    BY <1>3, <1>11, <1>13 DEF Changes
  <2>2. weight[w] \in {"packed", "rows"}
    BY <2>1 DEF After
  <2>3. OneKernel => weight[w] = "packed"
    BY DEF OneKernel
  <2>4. Kernel(w) = IF OneKernel THEN "tpp_fused" ELSE "tpp"
    BY <1>13 DEF Kernel
  <2> QED
    BY <2>2, <2>3, <2>4 DEF Reads
<1>14. CASE cls["mlp"] = None
  <2> DEFINE fused == w # "down" /\ cls[Parent(w)] # None
  <2>1. Kernel(w) = IF fused THEN cls[Parent(w)] ELSE cls[w]
    BY <1>14 DEF Kernel, None
  <2>2. CASE fused
    <3>1. Parent(w) \in Names /\ Changes(Parent(w), w) /\ cls[Parent(w)] \in {"tpp", "aocldlp"}
      BY <1>6, <1>9, <2>2, Order DEF Changes, Names
    <3> QED
      BY <1>3, <2>1, <2>2, <3>1 DEF After, Reads
  <2>3. CASE ~fused /\ cls[w] \in {"tpp", "aocldlp"}
    <3>1. Changes(w, w)
      BY <1>11, <2>3 DEF Changes
    <3> QED
      BY <1>3, <1>6, <2>1, <2>3, <3>1 DEF After, Reads
  <2>4. CASE ~fused /\ cls[w] \in {"native", "jit"}
    <3>1. \A m \in Names : ~Changes(m, w)
      BY <1>9, <1>10, <1>14, <2>4 DEF Changes, None
    <3> QED
      BY <1>4, <2>1, <2>4, <3>1 DEF Reads
  <2> QED
    BY <1>8, <2>2, <2>3, <2>4
<1> QED
  BY <1>7, <1>12, <1>13, <1>14

LEMMA HeadReads ==
  ASSUME BuildsMakeSense, OpInv, phase = "done"
  PROVE  weight["head"] \in Reads(cls["head"])
<1> USE DEF OpInv
<1>1. AllBuilt /\ \A i \in Index : Laid(i)
  BY DEF AllBuilt, Laid
<1>2. cls["head"] \in {"native", "jit", "tpp", "aocldlp"}
  BY <1>1, Classes DEF Exists
<1>3. \A i \in Index : "head" \in Mine(Modules[i]) <=> i = 9
  BY Order DEF Mine, LinearOf
<1>4. CASE cls["head"] \in {"tpp", "aocldlp"}
  <2>1. Changes(Modules[9], "head") /\ 9 \in Index /\ Modules[9] = "head"
    BY <1>3, <1>4, Order DEF Changes
  <2>2. weight["head"] = After(cls["head"], "head")
    BY <1>1, <2>1 DEF Layouts, Weights
  <2> QED
    BY <1>4, <2>2 DEF After, Reads
<1>5. CASE cls["head"] \in {"native", "jit"}
  <2>1. \A i \in Index : ~Changes(Modules[i], "head")
    BY <1>3, <1>5, Order DEF Changes
  <2>2. weight["head"] = "rows"
    BY <2>1 DEF Layouts, Weights
  <2> QED
    BY <1>5, <2>2 DEF Reads
<1> QED
  BY <1>2, <1>4, <1>5

(* The piece that has the bias is one of the pieces. *)
LEMMA OneBias ==
  ASSUME NEW n \in Nat \ {0}, NEW s, Len(s) = n, NEW b \in BOOLEAN,
         NEW f, f = [i \in 1 .. n |->
                       b /\ i = (IF Cardinality(s[1]) # Cardinality(s[n]) THEN n - 1 ELSE n)]
  PROVE  Cardinality({i \in 1 .. n : f[i]}) = IF b THEN 1 ELSE 0
<1> DEFINE k == IF Cardinality(s[1]) # Cardinality(s[n]) THEN n - 1 ELSE n
<1>1. k \in 1 .. n
  <2>1. n = 1 => k = 1
    OBVIOUS
  <2> HIDE DEF k
  <2>2. CASE n = 1
    BY <2>1, <2>2
  <2>3. CASE n # 1
    BY <2>3 DEF k
  <2> QED
    BY <2>2, <2>3
<1> HIDE DEF k
<1>2. f = [i \in 1 .. n |-> b /\ i = k]
  BY DEF k
<1>3. CASE b
  <2>1. {i \in 1 .. n : f[i]} = {k}
    BY <1>1, <1>2, <1>3
  <2> QED
    BY <1>3, <2>1, FS_Singleton
<1>4. CASE ~b
  <2>1. {i \in 1 .. n : f[i]} = {}
    BY <1>2, <1>4
  <2> QED
    BY <1>4, <2>1, FS_EmptySet
<1> QED
  BY <1>3, <1>4

LEMMA Computes ==
  ASSUME BuildsMakeSense, OpInv PROVE KernelsCompute
<1> USE DEF OpInv
<1> DEFINE s == pieces["up.linear"]
<1>1. weight["embed"] = "rows"
  BY DEF Layouts
<1>2. CASE phase \notin {"execute", "done"}
  <2>1. rounds = <<>> /\ DOMAIN rounds = {}
    BY <1>2 DEF Computed
  <2> QED
    BY <1>1, <1>2, <2>1 DEF KernelsCompute
<1>3. CASE phase \in {"execute", "done"} /\ rounds = <<>>
  <2>1. DOMAIN rounds = {}
    BY <1>3
  <2>2. phase # "done"
    <3>1. SUFFICES ASSUME phase = "done" PROVE FALSE
      OBVIOUS
    <3>2. Len(s) \in Nat \ {0}
      BY <3>1, PiecesAre
    <3>3. rounds = [i \in 1 .. Len(s) |-> Round(i)]
      BY <3>1 DEF Computed
    <3>4. DOMAIN rounds = 1 .. Len(s)
      BY <3>3
    <3>5. 1 \in 1 .. Len(s)
      BY <3>2
    <3> QED
      BY <2>1, <3>4, <3>5
  <2> QED
    BY <1>1, <2>1, <2>2 DEF KernelsCompute
<1>4. CASE phase \in {"execute", "done"} /\ rounds # <<>>
  <2>1. ~Refused /\ AllBuilt /\ build \in Builds
    BY <1>4 DEF Computed, AllBuilt, OpTypeOK
  <2>2. PICK n \in 0 .. Len(s) :
          /\ rounds = [i \in 1 .. n |-> Round(i)]
          /\ IF phase = "done" THEN n = Len(s) ELSE n < Len(s)
    BY <1>4 DEF Computed
  <2>3. /\ build.width \in Nat \ {0} /\ build.chunks \in Nat \ {0}
        /\ \A w \in {"up.linear", "gate.linear", "down"} : pieces[w] = s
        /\ s \in {Chunks(build.width, build.chunks), <<1 .. build.width>>}
        /\ Len(s) \in Nat \ {0}
    BY <1>4, PiecesAre
  <2>4. DOMAIN rounds = 1 .. n /\ \A i \in 1 .. n : rounds[i] = Round(i)
    BY <2>2
  <2>5. UsedWeights \subseteq {"up.linear", "gate.linear", "down"} /\ "down" \in UsedWeights
    BY DEF UsedWeights, Weights
  <2>6. \A i \in 1 .. n :
          /\ \A w \in UsedWeights : rounds[i].kernel[w] = Kernel(w) /\ rounds[i].cols[w] = s[i]
          /\ rounds[i].cols["down"] = s[i]
          /\ rounds[i].act = Activation /\ rounds[i].bias = DownBias(i)
    BY <2>3, <2>4, <2>5 DEF Round
  <2>7. Activation = Family(build.act)
    <3>1. Family(build.act) \in Acts
      BY <2>1, Classes
    <3>2. build.gated \in BOOLEAN
      BY <2>1 DEF BuildsMakeSense
    <3> QED
      BY <3>1, <3>2 DEF Activation, ActOf, Acts
  <2>8. \A w \in UsedWeights : weight[w] \in Reads(Kernel(w))
    BY <1>4, <2>1, KernelReads
  <2>9. \A i \in DOMAIN rounds :
          /\ \A w \in UsedWeights : /\ weight[w] \in Reads(rounds[i].kernel[w])
                                    /\ rounds[i].cols[w] = rounds[i].cols["down"]
          /\ rounds[i].act = Family(build.act)
    BY <2>4, <2>6, <2>7, <2>8
  <2>10. ASSUME phase = "done"
         PROVE  /\ \A c \in 1 .. build.width :
                      \E i \in DOMAIN rounds :
                        /\ c \in rounds[i].cols["down"]
                        /\ \A j \in DOMAIN rounds : c \in rounds[j].cols["down"] => j = i
                /\ Cardinality({i \in DOMAIN rounds : rounds[i].bias}) = IF build.bias THEN 1 ELSE 0
                /\ weight["head"] \in Reads(cls["head"])
    <3>1. n = Len(s) /\ n \in Nat \ {0}
      BY <2>2, <2>3, <2>10
    <3> HIDE DEF s
    <3>2. /\ \A c \in 1 .. build.width : \E i \in 1 .. n : c \in s[i]
          /\ \A i, j \in 1 .. n : \A c : c \in s[i] /\ c \in s[j] => i = j
      <4> DEFINE v == build.width
                 k == build.chunks
      <4>1. v \in Nat \ {0} /\ k \in Nat \ {0} /\ s \in {Chunks(v, k), <<1 .. v>>}
        BY <2>3
      <4> HIDE DEF v, k
      <4>2. /\ \A c \in 1 .. v : \E i \in 1 .. Len(s) : c \in s[i]
            /\ \A i, j \in 1 .. Len(s) : \A c : c \in s[i] /\ c \in s[j] => i = j
        <5>1. \A c \in 1 .. v : \E i \in 1 .. Len(s) : c \in s[i]
          BY <4>1, Partition
        <5>2. \A i, j \in 1 .. Len(s) : \A c : c \in s[i] /\ c \in s[j] => i = j
          BY <4>1, Partition
        <5> QED
          BY <5>1, <5>2
      <4> QED
        BY <3>1, <4>2 DEF v
    <3>3. \A i \in 1 .. n : rounds[i].cols["down"] = s[i]
      BY <2>6
    <3>4. \A c \in 1 .. build.width :
            \E i \in DOMAIN rounds :
              /\ c \in rounds[i].cols["down"]
              /\ \A j \in DOMAIN rounds : c \in rounds[j].cols["down"] => j = i
      <4> SUFFICES ASSUME NEW c \in 1 .. build.width
                   PROVE  \E i \in 1 .. n :
                            /\ c \in rounds[i].cols["down"]
                            /\ \A j \in 1 .. n : c \in rounds[j].cols["down"] => j = i
        BY <2>4
      <4>1. PICK i \in 1 .. n : c \in s[i]
        BY <3>2
      <4>2. c \in rounds[i].cols["down"]
        BY <3>3, <4>1
      <4>3. ASSUME NEW j \in 1 .. n, c \in rounds[j].cols["down"] PROVE j = i
        <5>1. c \in s[j]
          BY <3>3, <4>3
        <5> QED
          BY <3>2, <4>1, <5>1
      <4> QED
        BY <4>2, <4>3
    <3>5. build.bias \in BOOLEAN
      BY <2>1 DEF BuildsMakeSense
    <3> DEFINE f == [i \in 1 .. n |-> build.bias /\
                       i = (IF Cardinality(s[1]) # Cardinality(s[n]) THEN n - 1 ELSE n)]
    <3>6. \A i \in 1 .. n : rounds[i].bias = f[i]
      BY <2>6, <3>1 DEF DownBias, s
    <3>7. {i \in DOMAIN rounds : rounds[i].bias} = {i \in 1 .. n : f[i]}
      BY <2>4, <3>6
    <3>8. Cardinality({i \in 1 .. n : f[i]}) = IF build.bias THEN 1 ELSE 0
      <4> DEFINE b == build.bias
      <4>1. b \in BOOLEAN
            /\ f = [i \in 1 .. n |->
                     b /\ i = (IF Cardinality(s[1]) # Cardinality(s[n]) THEN n - 1 ELSE n)]
        BY <3>5
      <4> HIDE DEF b, f
      <4>2. Cardinality({i \in 1 .. n : f[i]}) = IF b THEN 1 ELSE 0
        BY <3>1, <4>1, OneBias
      <4> QED
        BY <4>2 DEF b
    <3> QED
      BY <2>10, <3>4, <3>7, <3>8, HeadReads
  <2> QED
    BY <1>1, <2>9, <2>10 DEF KernelsCompute
<1> QED
  BY <1>2, <1>3, <1>4

(* For every set of configurations that make sense, any width and number   *)
(* of pieces: whatever backend is asked for and falls back, every kernel   *)
(* of an MLP and of the output projection reads its weights in the layout  *)
(* that preprocessing left them in, the pieces have every inner column     *)
(* once and the bias once, and target and draft model attend with a        *)
(* backend of the cache they share.                                        *)
THEOREM EveryKernelReadsItsLayout ==
  ASSUME BuildsMakeSense PROVE OpSpec => []OperatorsCompute
<1>1. OpInit => OpInv
  BY OpStarts
<1>2. OpInv /\ [OpNext]_opVars => OpInv'
  <2>1. SUFFICES ASSUME OpInv, [OpNext]_opVars PROVE OpInv'
    OBVIOUS
  <2>2. CASE OpNext
    BY <2>1, <2>2, AfterFinalize, AfterConstruct, AfterPreprocess, AfterExecute DEF OpNext
  <2>3. CASE UNCHANGED opVars
    <3>1. \A x : (Exists(x)' <=> Exists(x)) /\ TypeOf(x)' = TypeOf(x) /\ ActOf(x)' = ActOf(x)
                 /\ Asked(x)' = Asked(x)
      BY <2>3 DEF opVars, Exists, TypeOf, ActOf, Asked
    <3>2. \A i \in Index : (Chosen(i)' <=> Chosen(i)) /\ (Built(i)' <=> Built(i)) /\ (Laid(i)' <=> Laid(i))
      BY <2>3, <3>1 DEF opVars, Chosen, Built, Laid
    <3>3. OpTypeOK'
      BY <2>1, <2>3 DEF opVars, OpInv, OpTypeOK
    <3>4. ChoicesMade'
      BY <2>1, <2>3, <3>1, <3>2 DEF opVars, OpInv, ChoicesMade
    <3>5. Layouts'
      <4>1. \A i \in Index, w \in Weights :
              (Changes(Modules[i], w)' <=> Changes(Modules[i], w))
              /\ After(cls[Modules[i]], w)' = After(cls[Modules[i]], w)
        BY <2>3 DEF opVars, Changes, Mine, After
      <4> QED
        BY <2>1, <2>3, <3>2, <4>1 DEF opVars, OpInv, Layouts
    <3>6. Cuts'
      <4>1. (Laid(1)' <=> Laid(1)) /\ Chunks(build.width, build.chunks)' = Chunks(build.width, build.chunks)
        BY <2>3, <3>2 DEF opVars, Index
      <4> QED
        BY <2>1, <2>3, <4>1 DEF opVars, OpInv, Cuts
    <3>7. Computed'
      <4>1. \A i : Round(i)' = Round(i)
        BY <2>3 DEF opVars, Round, UsedWeights, Kernel, OneKernel, Activation, ActOf, DownBias
      <4>2. Refused' <=> Refused
        BY <2>3 DEF opVars, Refused
      <4> QED
        BY <2>1, <2>3, <4>1, <4>2 DEF opVars, OpInv, Computed
    <3>8. BackendFitsCache'
      BY <2>1, <2>3 DEF opVars, OpInv, BackendFitsCache
    <3> QED
      BY <3>3, <3>4, <3>5, <3>6, <3>7, <3>8 DEF OpInv
  <2> QED
    BY <2>1, <2>2, <2>3
<1>3. OpInv => OperatorsCompute
  BY Computes DEF OpInv, OperatorsCompute
<1> QED
  BY <1>1, <1>2, <1>3, PTL DEF OpSpec
=============================================================================
