--------------------------- MODULE StreamsProofs ---------------------------
(***************************************************************************)
(* Theorems about Streams, for any number of prompts and of chunks.        *)
(*                                                                         *)
(* Delivered is a statement about the queue of a sub-request, from which   *)
(* the client is three hands away: generator, task and response.  The      *)
(* inductive invariant has what each of them holds: what was taken from    *)
(* the queue (Got) is what was written and, between a task and its turn,   *)
(* the chunk it holds; and nothing is taken after a mark.                  *)
(***************************************************************************)
EXTENDS Streams, SequenceTheorems, WellFoundedInduction, TLAPS

(* The least of a set of numbers. *)
LEMMA Least ==
  ASSUME NEW T, T \subseteq Nat, T # {}
  PROVE  \E x \in T : \A y \in T : x <= y
<1>1. PICK x \in T : \A y \in T : ~ (<<y, x>> \in OpToRel(<, Nat))
  BY WFMin, NatLessThanWellFounded, Zenon
<1>2. \A y \in T : ~ (y < x)
  BY <1>1, Zenon DEF OpToRel
<1> QED
  BY <1>2

(* A beginning of a queue, when it is taken from and when it grows. *)
LEMMA BeginningGrows ==
  ASSUME NEW q \in Seq(Int), NEW n \in Nat, n < Len(q)
  PROVE  /\ SubSeq(q, 1, n + 1) = Append(SubSeq(q, 1, n), q[n + 1])
         /\ SubSeq(q, 1, n) \o <<q[n + 1]>> = SubSeq(q, 1, n + 1)
         /\ q[n + 1] \in Int
OBVIOUS

LEMMA BeginningStays ==
  ASSUME NEW q \in Seq(Int), NEW x \in Int, NEW n \in Nat, n <= Len(q)
  PROVE  SubSeq(Append(q, x), 1, n) = SubSeq(q, 1, n)
OBVIOUS

LEMMA BeginningIs ==
  ASSUME NEW q \in Seq(Int), NEW n \in Nat, n <= Len(q)
  PROVE  /\ SubSeq(q, 1, n) \in Seq(Int) /\ Len(SubSeq(q, 1, n)) = n
         /\ \A i \in 1 .. n : SubSeq(q, 1, n)[i] = q[i]
OBVIOUS

-----------------------------------------------------------------------------
(* The inductive invariant                                                 *)

Marked == {END, ERROR}
Got(r) == SubSeq(put[r], 1, taken[r])
AtMark(r) == taken[r] > 0 /\ put[r][taken[r]] \in Marked
Left == response \in {"cancelled", "dropped"}
Held(r) == IF task[r] = "done" THEN chunk[r] ELSE <<>>

Types ==
  /\ mode \in {"merge", "single", "gather"}
  /\ put \in [Prompts -> Seq(Int)] /\ taken \in [Prompts -> Nat]
  /\ generator \in [Prompts -> {"new", "yielded", "ending", "over"}]
  /\ task \in [Prompts -> {"none", "pending", "done"}]
  /\ chunk \in [Prompts -> Seq(Int)] /\ sent \in [Prompts -> Seq(Int)]
  /\ turn \subseteq Prompts
  /\ response \in {"new", "waiting", "looping", "sending", "closed", "cancelled", "dropped"}
  /\ last \in {"", "[DONE]", "200", "500"}

(* Nothing but a mark follows a mark. *)
Queue(r) == \A i \in 1 .. Len(put[r]) : put[r][i] \in Marked => Ended(r)

(* Nothing is taken after one. *)
Read(r) ==
  /\ taken[r] <= Len(put[r])
  /\ \A i \in 1 .. taken[r] : i < taken[r] => put[r][i] \notin Marked
  /\ generator[r] \in {"new", "yielded"} => ~AtMark(r)
  /\ generator[r] = "ending" => AtMark(r)
  /\ generator[r] = "over" => Left \/ AtMark(r)

(* What was taken of r is written or held by its task, and the round goes  *)
(* on as long as there is a task that has not said that it is over.        *)
Merged(r) ==
  /\ sent[r] \o Held(r) = Got(r)
  /\ task[r] = "done" /\ chunk[r] = <<>> => generator[r] = "over"
  /\ response = "new" => task[r] = "none"
  /\ response \in {"waiting", "looping"} /\ task[r] = "none" => generator[r] = "over"
  /\ response \in {"looping", "sending"} /\ r \in turn => task[r] = "done"

Gathered(r) ==
  /\ chunk[r] = Got(r)
  /\ sent[r] = <<>> \/ last = "200"
  /\ task[r] = "done" => AtMark(r)

Modes ==
  /\ mode = "merge" => \A r \in Prompts : Merged(r)
  /\ mode = "single" => \A r \in Prompts : sent[r] = Got(r)
  /\ mode = "gather" => /\ response \in {"waiting", "closed"}
                        /\ \A r \in Prompts : Gathered(r)
  /\ response = "looping" => mode = "merge"

(* What the end of a response says. *)
Said ==
  /\ last # "" => response = "closed"
  /\ last = "[DONE]" => /\ mode # "gather" /\ Group \subseteq Prompts
                        /\ \A r \in Group : sent[r] = Got(r) /\ generator[r] = "over"
  /\ last = "200" => /\ mode = "gather"
                     /\ \A r \in Prompts : /\ task[r] = "done" /\ sent[r] = chunk[r]
                                           /\ Last(chunk[r]) = END
  /\ last = "500" => mode = "gather" /\ \E r \in Prompts : Failed(r)

Reads == \A r \in Prompts : Queue(r) /\ Read(r)
IInv == Types /\ Reads /\ Modes /\ Said

-----------------------------------------------------------------------------
(* What the invariant says of what was delivered                           *)

LEMMA QueueFacts ==
  ASSUME IInv, NEW r \in Prompts
  PROVE  /\ put[r] \in Seq(Int) /\ taken[r] \in Nat /\ sent[r] \in Seq(Int)
         /\ chunk[r] \in Seq(Int) /\ Queue(r) /\ Read(r) /\ taken[r] <= Len(put[r])
         /\ Got(r) \in Seq(Int) /\ Len(Got(r)) = taken[r]
         /\ \A i \in 1 .. taken[r] : Got(r)[i] = put[r][i]
<1>1. /\ put[r] \in Seq(Int) /\ taken[r] \in Nat /\ sent[r] \in Seq(Int)
      /\ chunk[r] \in Seq(Int)
  BY DEF IInv, Types
<1>2. Queue(r) /\ Read(r)
  BY DEF IInv, Reads
<1>3. taken[r] <= Len(put[r])
  BY <1>2 DEF Read
<1>4. /\ Got(r) \in Seq(Int) /\ Len(Got(r)) = taken[r]
      /\ \A i \in 1 .. taken[r] : Got(r)[i] = put[r][i]
  BY <1>1, <1>3, BeginningIs DEF Got
<1> QED
  BY <1>1, <1>2, <1>3, <1>4

(* What was taken is due, and all that is due once a mark was taken. *)
LEMMA GotIsDue ==
  ASSUME IInv, NEW r \in Prompts
  PROVE  /\ taken[r] <= Len(Due(r)) /\ Due(r) \in Seq(Int)
         /\ \A i \in 1 .. taken[r] : Due(r)[i] = put[r][i]
         /\ AtMark(r) => Ended(r) /\ Due(r) = Got(r)
<1> DEFINE q == put[r]
           n == taken[r]
           m == Marks(r)
<1>1. /\ q \in Seq(Int) /\ n \in Nat /\ n <= Len(q) /\ Len(q) \in Nat
      /\ \A i \in 1 .. n : i < n => q[i] \notin Marked
      /\ \A i \in 1 .. Len(q) : q[i] \in Marked => Ended(r)
  BY QueueFacts DEF Read, Queue
<1>2. m = {i \in 1 .. Len(q) : q[i] \in Marked}
  BY <1>1 DEF Marks, Marked
<1>3. Due(r) = IF m = {} THEN q ELSE SubSeq(q, 1, Min(m))
  BY DEF Due
<1>4. AtMark(r) <=> n > 0 /\ q[n] \in Marked
  BY DEF AtMark
<1>5. Got(r) = SubSeq(q, 1, n)
  BY DEF Got
<1> HIDE DEF q, n, m
<1>6. CASE m = {}
  <2>1. ~AtMark(r)
    BY <1>1, <1>2, <1>4, <1>6
  <2> QED
    BY <1>1, <1>3, <1>6, <2>1 DEF q, n
<1>7. CASE m # {}
  <2> DEFINE k == Min(m)
  <2>1. k \in m /\ \A i \in m : k <= i
    <3>1. m \subseteq Nat
      BY <1>2
    <3>2. \E x \in m : \A y \in m : x <= y
      BY <1>7, <3>1, Least
    <3> QED
      BY <3>2 DEF Min
  <2> HIDE DEF k
  <2>2. k \in 1 .. Len(q) /\ q[k] \in Marked /\ n <= k
    BY <1>1, <1>2, <2>1
  <2>3. Due(r) = SubSeq(q, 1, k)
    BY <1>3, <1>7 DEF k
  <2>4. /\ Due(r) \in Seq(Int) /\ Len(Due(r)) = k
        /\ \A i \in 1 .. k : Due(r)[i] = q[i]
    BY <1>1, <2>2, <2>3, BeginningIs
  <2>5. AtMark(r) => k = n
    BY <1>1, <1>2, <1>4, <2>1, <2>2
  <2>6. Ended(r)
    BY <1>1, <2>2
  <2> QED
    BY <1>1, <1>5, <2>2, <2>3, <2>4, <2>5, <2>6 DEF q, n
<1> QED
  BY <1>6, <1>7

LEMMA PrefixIs ==
  ASSUME NEW s \in Seq(Int), NEW t \in Seq(Int), Len(s) <= Len(t),
         \A i \in 1 .. Len(s) : s[i] = t[i]
  PROVE  IsPrefix(s, t)
BY DEF IsPrefix

LEMMA PartIsPrefix ==
  ASSUME NEW s \in Seq(Int), NEW h \in Seq(Int), NEW g \in Seq(Int), s \o h = g
  PROVE  Len(s) <= Len(g) /\ \A i \in 1 .. Len(s) : s[i] = g[i]
OBVIOUS

LEMMA DeliveredFollows == IInv => Delivered
<1> SUFFICES ASSUME IInv
             PROVE  Delivered
  OBVIOUS
<1>0. /\ mode \in {"merge", "single", "gather"} /\ last \in {"", "[DONE]", "200", "500"}
      /\ Said /\ Modes
  BY DEF IInv, Types
<1>1. ASSUME NEW r \in Prompts PROVE IsPrefix(sent[r], Due(r))
  <2>1. /\ sent[r] \in Seq(Int) /\ Got(r) \in Seq(Int) /\ Len(Got(r)) = taken[r]
        /\ chunk[r] \in Seq(Int) /\ taken[r] \in Nat
        /\ \A i \in 1 .. taken[r] : Got(r)[i] = put[r][i]
    BY QueueFacts
  <2>2. /\ taken[r] <= Len(Due(r)) /\ Due(r) \in Seq(Int)
        /\ \A i \in 1 .. taken[r] : Due(r)[i] = put[r][i]
    BY GotIsDue
  <2>3. Len(sent[r]) <= taken[r] /\ \A i \in 1 .. Len(sent[r]) : sent[r][i] = Got(r)[i]
    <3>1. CASE mode = "merge"
      <4>1. sent[r] \o Held(r) = Got(r)
        BY <1>0, <3>1 DEF Modes, Merged
      <4>2. Held(r) \in Seq(Int)
        BY <2>1 DEF Held
      <4> HIDE DEF Held, Got
      <4> QED
        BY <2>1, <4>1, <4>2, PartIsPrefix
    <3>2. CASE mode = "single"
      <4>1. sent[r] = Got(r)
        BY <1>0, <3>2 DEF Modes
      <4> HIDE DEF Got
      <4> QED
        BY <2>1, <4>1
    <3>3. CASE mode = "gather"
      <4>1. sent[r] = <<>> \/ sent[r] = Got(r)
        BY <1>0, <3>3 DEF Modes, Gathered, Said
      <4> QED
        BY <2>1, <4>1
    <3> QED
      BY <1>0, <3>1, <3>2, <3>3
  <2>4. Len(sent[r]) <= Len(Due(r)) /\ \A i \in 1 .. Len(sent[r]) : sent[r][i] = Due(r)[i]
    <3>1. Len(sent[r]) \in Nat /\ Len(sent[r]) <= Len(Due(r))
      BY <2>1, <2>2, <2>3
    <3>2. ASSUME NEW i \in 1 .. Len(sent[r]) PROVE sent[r][i] = Due(r)[i]
      <4>1. i \in 1 .. taken[r]
        BY <2>1, <2>3, <3>1
      <4> QED
        BY <2>1, <2>2, <2>3, <4>1
    <3> QED
      BY <3>1, <3>2
  <2> QED
    BY <2>1, <2>2, <2>4, PrefixIs
<1>2. ASSUME last = "[DONE]", NEW r \in Group PROVE Ended(r) /\ sent[r] = Due(r)
  <2>1. r \in Prompts /\ sent[r] = Got(r) /\ generator[r] = "over" /\ response = "closed"
    BY <1>0, <1>2 DEF Said
  <2>2. AtMark(r)
    BY <2>1, QueueFacts DEF Read, Left
  <2> QED
    BY <2>1, <2>2, GotIsDue
<1>3. ASSUME last = "200", NEW r \in Prompts
      PROVE  /\ Ended(r) /\ sent[r] = Due(r) /\ ERROR \notin ToSet(sent[r])
  <2>1. /\ sent[r] = chunk[r] /\ chunk[r] = Got(r) /\ AtMark(r) /\ Last(chunk[r]) = END
    BY <1>0, <1>3 DEF Said, Modes, Gathered
  <2>2. Ended(r) /\ sent[r] = Due(r)
    BY <2>1, GotIsDue
  <2>3. /\ Len(sent[r]) = taken[r] /\ sent[r] \in Seq(Int) /\ taken[r] \in Nat
        /\ \A i \in 1 .. taken[r] : sent[r][i] = put[r][i]
        /\ \A i \in 1 .. taken[r] : i < taken[r] => put[r][i] \notin Marked
        /\ sent[r][taken[r]] = END
    BY <2>1, QueueFacts DEF Read, Last
  <2>4. \A i \in 1 .. taken[r] : sent[r][i] # ERROR
    <3> SUFFICES ASSUME NEW i \in 1 .. taken[r] PROVE sent[r][i] # ERROR
      OBVIOUS
    <3>1. CASE i < taken[r]
      BY <2>3, <3>1 DEF Marked
    <3>2. CASE i = taken[r]
      BY <2>3, <3>2 DEF END, ERROR
    <3> QED
      BY <2>3, <3>1, <3>2
  <2>5. DOMAIN sent[r] = 1 .. taken[r]
    BY <2>3
  <2> QED
    BY <2>2, <2>4, <2>5 DEF ToSet
<1>4. last = "200" => Group = Prompts
  BY <1>0 DEF Said, Group
<1>5. ASSUME last = "500" PROVE \E r \in Prompts : ERROR \in ToSet(Due(r))
  <2>1. PICK r \in Prompts : Failed(r)
    BY <1>0, <1>5 DEF Said
  <2>2. AtMark(r) /\ chunk[r] = Got(r) /\ Last(chunk[r]) = ERROR
    BY <1>0, <1>5, <2>1 DEF Failed, Said, Modes, Gathered
  <2>3. Due(r) = Got(r) /\ taken[r] > 0
    BY <2>2, GotIsDue DEF AtMark
  <2>4. /\ Got(r) \in Seq(Int) /\ Len(Got(r)) = taken[r] /\ taken[r] \in Nat
    BY QueueFacts
  <2>5. Due(r)[taken[r]] = ERROR /\ taken[r] \in DOMAIN Due(r)
    BY <2>2, <2>3, <2>4 DEF Last
  <2> QED
    BY <2>5 DEF ToSet
<1> QED
  BY <1>1, <1>2, <1>3, <1>4, <1>5 DEF Delivered

-----------------------------------------------------------------------------
(* What a step does to what was read                                       *)

LEMMA ReadsStay ==
  ASSUME IInv, UNCHANGED <<put, taken, generator>>, Left => Left'
  PROVE  /\ Reads' /\ \A r \in Prompts : Got(r)' = Got(r)
         /\ \A r \in Prompts : AtMark(r)' <=> AtMark(r)
<1>1. ASSUME NEW r \in Prompts PROVE Queue(r)' /\ Read(r)'
  <2>1. Queue(r) /\ Read(r)
    BY QueueFacts
  <2>2. Queue(r)'
    BY <2>1 DEF Queue, Ended
  <2>3. Read(r)'
    BY <2>1 DEF Read, AtMark
  <2> QED
    BY <2>2, <2>3
<1> QED
  BY <1>1 DEF Reads, Got, AtMark

(* A generator that ends. *)
LEMMA ReadsFinished ==
  ASSUME IInv, NEW rs, Finished(rs), UNCHANGED <<put, taken>>, Left => Left',
         \A r \in rs \cap Prompts : Left' \/ AtMark(r)
  PROVE  /\ Reads' /\ \A r \in Prompts : Got(r)' = Got(r)
         /\ \A r \in Prompts : AtMark(r)' <=> AtMark(r)
         /\ generator' \in [Prompts -> {"new", "yielded", "ending", "over"}]
         /\ \A r \in Prompts : generator'[r] = IF r \in rs THEN "over" ELSE generator[r]
<1>0. generator \in [Prompts -> {"new", "yielded", "ending", "over"}]
  BY DEF IInv, Types
<1>1. \A r \in Prompts : generator'[r] = IF r \in rs THEN "over" ELSE generator[r]
  BY DEF Finished
<1>2. generator' \in [Prompts -> {"new", "yielded", "ending", "over"}]
  BY <1>0 DEF Finished
<1>3. ASSUME NEW r \in Prompts PROVE Queue(r)' /\ Read(r)'
  <2>1. Queue(r) /\ Read(r)
    BY QueueFacts
  <2>2. Queue(r)'
    BY <2>1 DEF Queue, Ended
  <2>3. AtMark(r)' <=> AtMark(r)
    BY DEF AtMark
  <2>4. Read(r)'
    BY <1>1, <2>1, <2>3 DEF Read
  <2> QED
    BY <2>2, <2>4
<1> QED
  BY <1>1, <1>2, <1>3 DEF Reads, Got, AtMark

(* The next item is taken. *)
LEMMA ReadsTaken ==
  ASSUME IInv, NEW r \in Prompts, Resumable(r), Taken(r), UNCHANGED put, Left => Left'
  PROVE  /\ Reads' /\ Got(r)' = Append(Got(r), Item(r)) /\ Item(r) \in Int
         /\ Got(r) \in Seq(Int)
         /\ \A s \in Prompts : s # r => Got(s)' = Got(s) /\ generator'[s] = generator[s]
         /\ generator' \in [Prompts -> {"new", "yielded", "ending", "over"}]
         /\ taken' \in [Prompts -> Nat]
         /\ generator'[r] = IF Item(r) \in Terminal THEN "ending" ELSE "yielded"
         /\ AtMark(r)' <=> Item(r) \in Terminal
         /\ \A s \in Prompts : s # r => (AtMark(s)' <=> AtMark(s))
<1>0. /\ generator \in [Prompts -> {"new", "yielded", "ending", "over"}]
      /\ taken \in [Prompts -> Nat]
  BY DEF IInv, Types
<1>1. /\ put[r] \in Seq(Int) /\ taken[r] \in Nat /\ Queue(r) /\ Read(r)
      /\ taken[r] <= Len(put[r])
  BY QueueFacts
<1>2. taken[r] < Len(put[r]) /\ generator[r] \in {"new", "yielded"}
  BY <1>1 DEF Resumable, Queued
<1>3. /\ taken' \in [Prompts -> Nat]
      /\ generator' \in [Prompts -> {"new", "yielded", "ending", "over"}]
      /\ taken'[r] = taken[r] + 1
      /\ generator'[r] = IF Item(r) \in Terminal THEN "ending" ELSE "yielded"
      /\ \A s \in Prompts : s # r => taken'[s] = taken[s] /\ generator'[s] = generator[s]
  BY <1>0 DEF Taken
<1>4. /\ Item(r) \in Int /\ Got(r) \in Seq(Int)
      /\ Got(r)' = Append(Got(r), Item(r))
  <2>1. Got(r)' = SubSeq(put[r], 1, taken[r] + 1)
    BY <1>3 DEF Got
  <2>2. /\ SubSeq(put[r], 1, taken[r] + 1) = Append(SubSeq(put[r], 1, taken[r]), put[r][taken[r] + 1])
        /\ put[r][taken[r] + 1] \in Int
    BY <1>1, <1>2, BeginningGrows
  <2> QED
    BY <2>1, <2>2, QueueFacts DEF Got, Item
<1>5. AtMark(r)' <=> Item(r) \in Terminal
  BY <1>1, <1>3 DEF AtMark, Item, Marked, Terminal
<1>6. \A s \in Prompts : s # r => (AtMark(s)' <=> AtMark(s)) /\ Got(s)' = Got(s)
  BY <1>3 DEF AtMark, Got
<1>7. ASSUME NEW s \in Prompts PROVE Queue(s)' /\ Read(s)'
  <2>1. Queue(s) /\ Read(s)
    BY QueueFacts
  <2>2. Queue(s)'
    BY <2>1 DEF Queue, Ended
  <2>3. CASE s # r
    <3>1. /\ taken'[s] = taken[s] /\ generator'[s] = generator[s] /\ put'[s] = put[s]
          /\ (AtMark(s)' <=> AtMark(s))
      BY <1>3, <1>6, <2>3
    <3> HIDE DEF AtMark
    <3> QED
      BY <2>1, <2>2, <3>1 DEF Read
  <2>4. CASE s = r
    <3>1. ~AtMark(r)
      BY <1>1, <1>2 DEF Read
    <3>2. \A i \in 1 .. taken[r] : put[r][i] \notin Marked
      BY <1>1, <3>1 DEF Read, AtMark
    <3>3. \A i \in 1 .. taken'[r] : i < taken'[r] => put'[r][i] \notin Marked
      BY <1>1, <1>3, <3>2
    <3>4. taken'[r] <= Len(put'[r])
      BY <1>1, <1>2, <1>3
    <3>5. /\ generator'[r] \in {"new", "yielded"} => ~AtMark(r)'
          /\ generator'[r] = "ending" => AtMark(r)'
          /\ generator'[r] # "over"
      BY <1>3, <1>5
    <3> QED
      BY <2>2, <2>4, <3>3, <3>4, <3>5 DEF Read
  <2> QED
    BY <2>2, <2>3, <2>4
<1> QED
  BY <1>3, <1>4, <1>5, <1>6, <1>7 DEF Reads

(* An item is put: nothing after the end, but the end after an error. *)
LEMMA ReadsPut ==
  ASSUME IInv, NEW r \in Prompts, NEW item \in Int, PutInto(r, item),
         item \in Marked \/ ~Ended(r)
  PROVE  /\ Reads' /\ put' \in [Prompts -> Seq(Int)]
         /\ \A s \in Prompts : Got(s)' = Got(s) /\ (AtMark(s)' <=> AtMark(s))
<1>0. put \in [Prompts -> Seq(Int)]
  BY DEF IInv, Types
<1>1. /\ put[r] \in Seq(Int) /\ taken[r] \in Nat /\ Queue(r) /\ Read(r)
      /\ taken[r] <= Len(put[r])
  BY QueueFacts
<1>2. /\ put'[r] = Append(put[r], item) /\ UNCHANGED <<taken, generator, response>>
      /\ \A s \in Prompts : s # r => put'[s] = put[s]
      /\ put' \in [Prompts -> Seq(Int)]
  BY <1>0, <1>1 DEF PutInto
<1>3. Got(r)' = Got(r)
  BY <1>1, <1>2, BeginningStays DEF Got
<1>4. /\ Len(put'[r]) = Len(put[r]) + 1 /\ put'[r][Len(put[r]) + 1] = item
      /\ \A i \in 1 .. Len(put[r]) : put'[r][i] = put[r][i]
  BY <1>1, <1>2
<1>5. AtMark(r)' <=> AtMark(r)
  BY <1>1, <1>2, <1>4 DEF AtMark
<1>6. \A s \in Prompts : s # r => Got(s)' = Got(s) /\ (AtMark(s)' <=> AtMark(s))
  BY <1>2 DEF AtMark, Got
<1>7. ASSUME NEW s \in Prompts PROVE Queue(s)' /\ Read(s)'
  <2>1. Queue(s) /\ Read(s)
    BY QueueFacts
  <2>2. CASE s # r
    BY <1>2, <1>6, <2>1, <2>2 DEF Read, Queue, Ended, Left
  <2>3. CASE s = r
    <3>1. item \in Marked => Ended(r)'
      BY <1>1, <1>2, <1>4, SMTT(30) DEF Ended, Marked, Last
    <3>2. item \notin Marked => \A i \in 1 .. Len(put[r]) : put[r][i] \notin Marked
      BY <1>1 DEF Queue
    <3>3. Queue(r)'
      <4>1. CASE item \in Marked
        BY <3>1, <4>1 DEF Queue
      <4>2. CASE item \notin Marked
        <5>1. \A i \in 1 .. Len(put[r]) + 1 : put'[r][i] \notin Marked
          <6> SUFFICES ASSUME NEW i \in 1 .. Len(put[r]) + 1
                       PROVE  put'[r][i] \notin Marked
            OBVIOUS
          <6>1. i \in 1 .. Len(put[r]) \/ i = Len(put[r]) + 1
            BY <1>1
          <6> QED
            BY <1>4, <3>2, <4>2, <6>1
        <5> QED
          BY <1>4, <5>1 DEF Queue
      <4> QED
        BY <4>1, <4>2
    <3>4. Read(r)'
      BY <1>1, <1>2, <1>4, <1>5 DEF Read, Left
    <3> QED
      BY <2>3, <3>3, <3>4
  <2> QED
    BY <2>2, <2>3
<1> QED
  BY <1>2, <1>3, <1>5, <1>6, <1>7 DEF Reads

-----------------------------------------------------------------------------
(* The steps                                                               *)

LEMMA Parts ==
  ASSUME IInv
  PROVE  /\ Types /\ Modes /\ Said /\ (response # "closed" => last = "")
         /\ \A r \in Prompts : Got(r) \in Seq(Int)
<1>1. \A r \in Prompts : Got(r) \in Seq(Int)
  BY QueueFacts
<1> QED
  BY <1>1 DEF IInv, Said

LEMMA Together ==
  ASSUME Types', Reads', Modes', last' = "" \/ Said'
  PROVE  IInv'
BY DEF IInv, Said

LEMMA PutSteps ==
  ASSUME IInv, NEW r \in Prompts, NEW item \in Int, PutInto(r, item),
         item \in Marked \/ ~Ended(r)
  PROVE  IInv'
<1>1. /\ Reads' /\ put' \in [Prompts -> Seq(Int)]
      /\ \A s \in Prompts : Got(s)' = Got(s) /\ (AtMark(s)' <=> AtMark(s))
  BY ReadsPut
<1>2. UNCHANGED <<mode, taken, generator, task, chunk, turn, response, sent, last>>
  BY DEF PutInto
<1>3. Types'
  BY <1>1, <1>2, Parts DEF Types
<1>4. Modes'
  BY <1>1, <1>2, Parts DEF Modes, Merged, Gathered, Held
<1>5. Said'
  BY <1>1, <1>2, Parts DEF Said, Group, Failed
<1> QED
  BY <1>1, <1>3, <1>4, <1>5, Together

LEMMA PutTokensStep ==
  ASSUME IInv, NEW r \in Prompts, PutTokens(r)
  PROVE  IInv'
<1>1. Len(put[r]) + 1 \in Int
  BY QueueFacts
<1> QED
  BY <1>1, PutSteps DEF PutTokens

LEMMA PutEndStep ==
  ASSUME IInv, NEW r \in Prompts, PutEnd(r)
  PROVE  IInv'
<1>1. PICK item \in Marked : PutInto(r, item)
  BY DEF PutEnd, Marked
<1>2. item \in Int
  BY DEF Marked, END, ERROR
<1> QED
  BY <1>1, <1>2, PutSteps

LEMMA StartStep ==
  ASSUME IInv, Start
  PROVE  IInv'
<1>1. /\ Reads' /\ \A r \in Prompts : Got(r)' = Got(r)
      /\ \A r \in Prompts : AtMark(r)' <=> AtMark(r)
  BY ReadsStay DEF Start, Left, queues
<1>2. /\ response = "new" /\ response' = "waiting" /\ last = "" /\ last' = ""
      /\ \A r \in Prompts : task'[r] = IF mode = "merge" THEN "pending" ELSE task[r]
  BY Parts DEF Start
<1>3. Types'
  BY Parts DEF Types, Start, queues
<1>4. \A r \in Prompts : mode = "merge" => task[r] = "none"
  BY <1>2, Parts DEF Modes, Merged
<1>5. Modes'
  BY <1>1, <1>2, <1>4, Parts DEF Modes, Merged, Held, Start
<1> QED
  BY <1>1, <1>2, <1>3, <1>5, Together

LEMMA RoundStep ==
  ASSUME IInv, Round
  PROVE  IInv'
<1>1. /\ Reads' /\ \A r \in Prompts : Got(r)' = Got(r)
      /\ \A r \in Prompts : AtMark(r)' <=> AtMark(r)
  BY ReadsStay DEF Round, Left, queues
<1>2. response = "waiting" /\ response' = "looping" /\ last = "" /\ last' = ""
  BY Parts DEF Round
<1>3. Types'
  BY Parts DEF Types, Round, queues
<1>5. Modes'
  BY <1>1, <1>2, Parts DEF Modes, Merged, Held, Round
<1> QED
  BY <1>1, <1>2, <1>3, <1>5, Together

LEMMA LookStep ==
  ASSUME IInv, NEW r \in Prompts, Look(r)
  PROVE  IInv'
<1>1. /\ Reads' /\ \A s \in Prompts : Got(s)' = Got(s)
      /\ \A s \in Prompts : AtMark(s)' <=> AtMark(s)
  <2>1. UNCHANGED <<put, taken, generator>> /\ (Left => Left')
    BY DEF Look, Left, queues
  <2> QED
    BY <2>1, ReadsStay
<1>2. /\ response = "looping" /\ response' \in {"looping", "sending"}
      /\ last = "" /\ last' = "" /\ r \in turn /\ turn' = turn \ {r}
      /\ mode = "merge" /\ mode' = mode
      /\ UNCHANGED <<generator, chunk>>
      /\ response' = IF chunk[r] = <<>> THEN "looping" ELSE "sending"
  BY Parts DEF Look, Modes
<1>3. \A s \in Prompts : Merged(s) /\ sent[s] \in Seq(Int) /\ chunk[s] \in Seq(Int)
  BY <1>2, Parts DEF Modes, Types
<1>4. /\ sent' \in [Prompts -> Seq(Int)]
      /\ task' \in [Prompts -> {"none", "pending", "done"}]
      /\ sent'[r] = sent[r] \o chunk[r] /\ task'[r] = "none"
      /\ \A s \in Prompts : s # r => sent'[s] = sent[s] /\ task'[s] = task[s]
  <2>1. sent[r] \o chunk[r] \in Seq(Int)
    BY <1>3
  <2> QED
    BY <2>1, Parts DEF Look, Types
<1>5. Types'
  BY <1>2, <1>4, Parts DEF Types, Look, queues
<1>6. ASSUME NEW s \in Prompts PROVE Merged(s)'
  <2>1. CASE s = r
    <3>1. task[r] = "done" /\ sent[r] \o chunk[r] = Got(r)
      BY <1>2, <1>3 DEF Merged, Held
    <3>2. Held(r)' = <<>> /\ sent'[r] = Got(r) /\ sent'[r] \in Seq(Int)
      BY <1>4, <3>1 DEF Held
    <3>3. sent'[r] \o Held(r)' = Got(r)'
      BY <1>1, <3>2
    <3>4. response' = "looping" => generator[r] = "over"
      BY <1>2, <1>3, <3>1 DEF Merged
    <3> QED
      BY <1>2, <1>4, <2>1, <3>3, <3>4 DEF Merged
  <2>2. CASE s # r
    <3>1. Held(s)' = Held(s) /\ Got(s)' = Got(s) /\ sent'[s] = sent[s] /\ task'[s] = task[s]
      BY <1>1, <1>2, <1>4, <2>2 DEF Held
    <3> QED
      BY <1>2, <1>3, <2>2, <3>1 DEF Merged
  <2> QED
    BY <2>1, <2>2
<1>7. Modes'
  BY <1>2, <1>6 DEF Modes
<1> QED
  BY <1>1, <1>2, <1>5, <1>7, Together

LEMMA ResumeStep ==
  ASSUME IInv, Resume
  PROVE  IInv'
<1>1. /\ Reads' /\ \A r \in Prompts : Got(r)' = Got(r)
      /\ \A r \in Prompts : AtMark(r)' <=> AtMark(r)
  BY ReadsStay DEF Resume, Left, queues
<1>2. /\ response = "sending" /\ response' = "looping" /\ last = "" /\ last' = ""
      /\ mode = "merge" /\ mode' = mode /\ UNCHANGED <<generator, chunk, turn, sent>>
      /\ \A r \in Prompts : task'[r] = IF task[r] = "none" /\ generator[r] # "over"
                                       THEN "pending" ELSE task[r]
  BY Parts DEF Resume
<1>3. Types'
  BY Parts DEF Types, Resume, queues
<1>4. ASSUME NEW r \in Prompts PROVE Merged(r)'
  <2>1. Merged(r)
    BY <1>2, Parts DEF Modes
  <2>2. Held(r)' = Held(r) /\ Got(r)' = Got(r)
    BY <1>1, <1>2 DEF Held
  <2>3. task'[r] = IF task[r] = "none" /\ generator[r] # "over" THEN "pending" ELSE task[r]
    BY <1>2
  <2>4. /\ task'[r] = "none" => generator[r] = "over"
        /\ task[r] = "done" <=> task'[r] = "done"
    BY <2>3
  <2>5. sent'[r] \o Held(r)' = Got(r)'
    BY <1>2, <2>1, <2>2 DEF Merged
  <2> QED
    BY <1>2, <2>1, <2>4, <2>5 DEF Merged
<1>5. Modes'
  BY <1>2, <1>4 DEF Modes
<1> QED
  BY <1>1, <1>2, <1>3, <1>5, Together

LEMMA LoopEndStep ==
  ASSUME IInv, LoopEnd
  PROVE  IInv'
<1>1. /\ Reads' /\ \A r \in Prompts : Got(r)' = Got(r)
      /\ \A r \in Prompts : AtMark(r)' <=> AtMark(r)
  <2>1. UNCHANGED <<put, taken, generator>> /\ (Left => Left')
    BY DEF LoopEnd, Left, queues
  <2> QED
    BY <2>1, ReadsStay
<1>2. /\ response = "looping" /\ response' \in {"closed", "waiting"} /\ last = ""
      /\ mode = "merge" /\ mode' = mode
      /\ UNCHANGED <<generator, task, chunk, turn, sent>>
  BY Parts DEF LoopEnd, Modes
<1>3. Types'
  BY <1>2, Parts DEF Types, LoopEnd, queues
<1>4. ASSUME NEW r \in Prompts PROVE Merged(r) /\ Merged(r)'
  <2>1. Merged(r)
    BY <1>2, Parts DEF Modes
  <2>2. Held(r)' = Held(r) /\ Got(r)' = Got(r)
    BY <1>1, <1>2 DEF Held
  <2> QED
    BY <1>2, <2>1, <2>2 DEF Merged
<1>5. Modes'
  BY <1>2, <1>4 DEF Modes
<1>6. last' = "" \/ Said'
  <2>1. CASE ~Exhausted
    BY <1>2, <2>1 DEF LoopEnd
  <2>2. CASE Exhausted
    <3>1. last' = "[DONE]" /\ response' = "closed"
      BY <2>2 DEF LoopEnd
    <3>2. Group = Prompts /\ Group' = Prompts
      BY <1>2 DEF Group
    <3>3. ASSUME NEW r \in Prompts PROVE sent'[r] = Got(r)' /\ generator'[r] = "over"
      <4>1. task[r] = "none" /\ Held(r) = <<>> /\ sent[r] \in Seq(Int)
        BY <2>2, Parts DEF Exhausted, Held, Types
      <4>2. sent[r] \o Held(r) = Got(r) /\ generator[r] = "over"
        BY <1>2, <1>4, <4>1 DEF Merged
      <4>3. sent[r] = Got(r)
        BY <4>1, <4>2
      <4> QED
        BY <1>1, <1>2, <4>2, <4>3
    <3> QED
      BY <1>2, <3>1, <3>2, <3>3 DEF Said
  <2> QED
    BY <2>1, <2>2
<1> QED
  BY <1>1, <1>3, <1>5, <1>6, Together

LEMMA FetchStep ==
  ASSUME IInv, NEW r \in Prompts, Fetch(r)
  PROVE  IInv'
<1>1. /\ mode = "merge" /\ mode' = mode /\ task[r] = "pending"
      /\ UNCHANGED <<put, turn, response, sent, last>> /\ (Left => Left')
  BY DEF Fetch, Left
<1>2. \A s \in Prompts : Merged(s) /\ sent[s] \in Seq(Int)
  BY <1>1, Parts DEF Modes, Types
<1>3. generator[r] # "over"
  BY DEF Fetch, Resumable
<1>4. last = ""
  BY <1>1, <1>3, Parts DEF Said, Group, Types
<1>5. /\ task' \in [Prompts -> {"none", "pending", "done"}] /\ task'[r] = "done"
      /\ \A s \in Prompts : s # r => task'[s] = task[s]
  BY Parts DEF Fetch, Types
<1>6. Held(r) = <<>> /\ sent[r] = Got(r) /\ Got(r) \in Seq(Int)
  <2>1. Held(r) = <<>>
    BY <1>1 DEF Held
  <2>2. sent[r] \o Held(r) = Got(r)
    BY <1>2 DEF Merged
  <2>3. sent[r] \in Seq(Int)
    BY <1>2
  <2>4. sent[r] = Got(r)
    <3> HIDE DEF Got, Held
    <3> QED
      BY <2>1, <2>2, <2>3
  <2> QED
    BY <2>1, <2>4, Parts
<1>7. /\ Reads' /\ taken' \in [Prompts -> Nat]
      /\ generator' \in [Prompts -> {"new", "yielded", "ending", "over"}]
      /\ chunk' \in [Prompts -> Seq(Int)] /\ sent[r] \o chunk'[r] = Got(r)'
      /\ chunk'[r] = <<>> => generator'[r] = "over"
      /\ \A s \in Prompts : s # r => /\ Got(s)' = Got(s) /\ chunk'[s] = chunk[s]
                                     /\ generator'[s] = generator[s]
  <2>1. CASE Resumable(r) /\ Taken(r) /\ chunk' = [chunk EXCEPT ![r] = <<Item(r)>>]
    <3>1. /\ Reads' /\ Got(r)' = Append(Got(r), Item(r)) /\ Item(r) \in Int
          /\ generator' \in [Prompts -> {"new", "yielded", "ending", "over"}]
          /\ taken' \in [Prompts -> Nat]
          /\ \A s \in Prompts : s # r => Got(s)' = Got(s) /\ generator'[s] = generator[s]
      BY <1>1, <2>1, ReadsTaken
    <3>2. <<Item(r)>> \in Seq(Int) /\ <<Item(r)>> # <<>>
      BY <3>1
    <3>3. /\ chunk' \in [Prompts -> Seq(Int)] /\ chunk'[r] = <<Item(r)>>
          /\ \A s \in Prompts : s # r => chunk'[s] = chunk[s]
      BY <2>1, <3>2, Parts DEF Types
    <3>4. sent[r] \o chunk'[r] = Got(r)'
      BY <1>6, <3>1, <3>3
    <3> QED
      BY <3>1, <3>2, <3>3, <3>4
  <2>2. CASE /\ generator[r] = "ending" /\ Finished({r}) /\ UNCHANGED taken
             /\ chunk' = [chunk EXCEPT ![r] = <<>>]
    <3>1. AtMark(r)
      BY <2>2, QueueFacts DEF Read
    <3>2. /\ Reads' /\ \A s \in Prompts : Got(s)' = Got(s)
          /\ generator' \in [Prompts -> {"new", "yielded", "ending", "over"}]
          /\ \A s \in Prompts : generator'[s] = IF s \in {r} THEN "over" ELSE generator[s]
      BY <1>1, <2>2, <3>1, ReadsFinished
    <3>3. /\ chunk' \in [Prompts -> Seq(Int)] /\ chunk'[r] = <<>>
          /\ \A s \in Prompts : s # r => chunk'[s] = chunk[s]
      <4> DEFINE none == <<>>
      <4>1. none \in Seq(Int)
        OBVIOUS
      <4>0. chunk \in [Prompts -> Seq(Int)]
        BY Parts DEF Types
      <4>2. chunk' = [chunk EXCEPT ![r] = none]
        BY <2>2
      <4> HIDE DEF none
      <4>3. /\ chunk' \in [Prompts -> Seq(Int)] /\ chunk'[r] = none
            /\ \A s \in Prompts : s # r => chunk'[s] = chunk[s]
        BY <4>0, <4>1, <4>2
      <4> QED
        BY <4>3 DEF none
    <3>4. sent[r] \o chunk'[r] = Got(r)'
      BY <1>6, <3>2, <3>3
    <3>5. taken' \in [Prompts -> Nat]
      BY <2>2, Parts DEF Types
    <3> QED
      BY <3>2, <3>3, <3>4, <3>5
  <2> QED
    BY <2>1, <2>2 DEF Fetch
<1>8. Types'
  BY <1>1, <1>5, <1>7, Parts DEF Types
<1>9. ASSUME NEW s \in Prompts PROVE Merged(s)'
  <2>1. CASE s = r
    <3>1. sent'[r] \o Held(r)' = Got(r)'
      BY <1>1, <1>5, <1>7 DEF Held
    <3> QED
      BY <1>1, <1>2, <1>5, <1>7, <2>1, <3>1 DEF Merged
  <2>2. CASE s # r
    <3>1. /\ Held(s)' = Held(s) /\ Got(s)' = Got(s) /\ sent'[s] = sent[s]
          /\ task'[s] = task[s] /\ chunk'[s] = chunk[s] /\ generator'[s] = generator[s]
      BY <1>1, <1>5, <1>7, <2>2 DEF Held
    <3> QED
      BY <1>1, <1>2, <2>2, <3>1 DEF Merged
  <2> QED
    BY <2>1, <2>2
<1>10. Modes'
  BY <1>1, <1>9, Parts DEF Modes
<1> QED
  BY <1>1, <1>4, <1>7, <1>8, <1>10, Together

LEMMA SingleChunkStep ==
  ASSUME IInv, NEW r \in Prompts, SingleChunk(r)
  PROVE  IInv'
<1>1. /\ mode = "single" /\ mode' = mode /\ r \in Group
      /\ response = "waiting" /\ response' = "sending" /\ last = "" /\ last' = ""
      /\ UNCHANGED <<put, task, chunk, turn>> /\ (Left => Left')
      /\ Resumable(r) /\ Taken(r)
  BY Parts DEF SingleChunk, Left
<1>2. /\ Reads' /\ Got(r)' = Append(Got(r), Item(r)) /\ Item(r) \in Int
      /\ generator' \in [Prompts -> {"new", "yielded", "ending", "over"}]
      /\ taken' \in [Prompts -> Nat]
      /\ \A s \in Prompts : s # r => Got(s)' = Got(s)
  BY <1>1, ReadsTaken
<1>3. \A s \in Prompts : sent[s] = Got(s) /\ sent[s] \in Seq(Int)
  BY <1>1, Parts DEF Modes
<1>4. /\ sent' \in [Prompts -> Seq(Int)] /\ sent'[r] = Append(sent[r], Item(r))
      /\ \A s \in Prompts : s # r => sent'[s] = sent[s]
  <2>1. Append(sent[r], Item(r)) \in Seq(Int)
    BY <1>2, <1>3
  <2> QED
    BY <2>1, Parts DEF SingleChunk, Types
<1>5. Types'
  BY <1>1, <1>2, <1>4, Parts DEF Types
<1>6. \A s \in Prompts : sent'[s] = Got(s)'
  BY <1>2, <1>3, <1>4
<1>7. Modes'
  BY <1>1, <1>6 DEF Modes
<1> QED
  BY <1>1, <1>2, <1>5, <1>7, Together

LEMMA SingleResumeStep ==
  ASSUME IInv, NEW r \in Prompts, SingleResume(r)
  PROVE  IInv'
<1>1. /\ mode = "single" /\ mode' = mode /\ r \in Group
      /\ response = "sending" /\ response' \in {"closed", "waiting"} /\ last = ""
      /\ UNCHANGED <<put, taken, task, chunk, turn, sent>> /\ (Left => Left')
  BY Parts DEF SingleResume, Left, queues
<1>2. \A s \in Prompts : sent[s] = Got(s)
  BY <1>1, Parts DEF Modes
<1>3. CASE generator[r] = "ending"
  <2>1. Finished({r}) /\ response' = "closed" /\ last' = "[DONE]"
    BY <1>3 DEF SingleResume
  <2>2. AtMark(r)
    BY <1>3, QueueFacts DEF Read
  <2>3. /\ Reads' /\ \A s \in Prompts : Got(s)' = Got(s)
        /\ generator' \in [Prompts -> {"new", "yielded", "ending", "over"}]
        /\ \A s \in Prompts : generator'[s] = IF s \in {r} THEN "over" ELSE generator[s]
    BY <1>1, <2>1, <2>2, ReadsFinished
  <2>4. Group' = {r}
    BY <1>1 DEF Group
  <2>5. Types'
    BY <1>1, <2>1, <2>3, Parts DEF Types
  <2>6. Modes'
    BY <1>1, <1>2, <2>1, <2>3 DEF Modes
  <2>7. Said'
    BY <1>1, <1>2, <2>1, <2>3, <2>4 DEF Said
  <2> QED
    BY <2>3, <2>5, <2>6, <2>7, Together
<1>4. CASE generator[r] # "ending"
  <2>1. UNCHANGED generator /\ response' = "waiting" /\ last' = last
    BY <1>4 DEF SingleResume
  <2>2. Reads' /\ \A s \in Prompts : Got(s)' = Got(s)
    BY <1>1, <2>1, ReadsStay
  <2>3. Types'
    BY <1>1, <2>1, Parts DEF Types
  <2>4. Modes'
    BY <1>1, <1>2, <2>1, <2>2 DEF Modes
  <2> QED
    BY <1>1, <2>1, <2>2, <2>3, <2>4, Together
<1> QED
  BY <1>3, <1>4

LEMMA CancelStep ==
  ASSUME IInv, Cancel
  PROVE  IInv'
<1>1. /\ mode # "gather" /\ mode' = mode /\ response' = "cancelled"
      /\ UNCHANGED <<put, taken, chunk, turn, sent>> /\ last = "" /\ last' = "" /\ Left'
  BY Parts DEF Cancel, Left, queues
<1>2. PICK reached : /\ \A s \in reached : mode = "single" \/ task[s] = "pending"
                     /\ Finished(reached)
                     /\ task' = [s \in Prompts |-> IF s \in reached THEN "none" ELSE task[s]]
  BY DEF Cancel
<1>3. /\ Reads' /\ \A s \in Prompts : Got(s)' = Got(s)
      /\ generator' \in [Prompts -> {"new", "yielded", "ending", "over"}]
      /\ \A s \in Prompts : generator'[s] = IF s \in reached THEN "over" ELSE generator[s]
  BY <1>1, <1>2, ReadsFinished
<1>4. Types'
  BY <1>1, <1>2, <1>3, Parts DEF Types
<1>5. ASSUME mode = "merge", NEW s \in Prompts PROVE Merged(s)'
  <2>1. Merged(s)
    BY <1>5, Parts DEF Modes
  <2>2. /\ task'[s] = "done" => task[s] = "done" /\ generator'[s] = generator[s]
        /\ task[s] = "done" => task'[s] = "done"
    BY <1>2, <1>3, <1>5
  <2>3. Held(s)' = Held(s)
    BY <1>1, <2>2 DEF Held
  <2>4. sent'[s] \o Held(s)' = Got(s)'
    BY <1>1, <1>3, <2>1, <2>3 DEF Merged
  <2> QED
    BY <1>1, <2>1, <2>2, <2>4 DEF Merged
<1>6. Modes'
  BY <1>1, <1>3, <1>5, Parts DEF Modes
<1> QED
  BY <1>1, <1>3, <1>4, <1>6, Together

LEMMA DropStep ==
  ASSUME IInv, Drop
  PROVE  IInv'
<1>1. /\ mode' = mode /\ response \in {"new", "sending"} /\ response' = "dropped"
      /\ UNCHANGED <<put, taken, generator, task, chunk, turn, sent>>
      /\ last = "" /\ last' = "" /\ Left'
  BY Parts DEF Drop, Left, queues
<1>2. Reads' /\ \A s \in Prompts : Got(s)' = Got(s)
  BY <1>1, ReadsStay
<1>3. Types'
  BY <1>1, Parts DEF Types
<1>4. ASSUME mode = "merge", NEW s \in Prompts PROVE Merged(s)'
  <2>1. Merged(s) /\ Held(s)' = Held(s)
    BY <1>1, <1>4, Parts DEF Modes, Held
  <2> QED
    BY <1>1, <1>2, <2>1 DEF Merged
<1>5. Modes'
  BY <1>1, <1>2, <1>4, Parts DEF Modes
<1> QED
  BY <1>1, <1>2, <1>3, <1>5, Together

LEMMA CollectStep ==
  ASSUME IInv, NEW r \in Prompts, Collect(r)
  PROVE  IInv'
<1>1. /\ mode' = mode /\ response \in {"cancelled", "dropped"} /\ response' = response
      /\ UNCHANGED <<put, taken, task, chunk, turn, sent>> /\ Finished({r})
      /\ last = "" /\ last' = "" /\ Left'
  BY Parts DEF Collect, Left, queues
<1>2. /\ Reads' /\ \A s \in Prompts : Got(s)' = Got(s)
      /\ generator' \in [Prompts -> {"new", "yielded", "ending", "over"}]
      /\ \A s \in Prompts : generator'[s] = IF s \in {r} THEN "over" ELSE generator[s]
  BY <1>1, ReadsFinished
<1>3. Types'
  BY <1>1, <1>2, Parts DEF Types
<1>4. ASSUME mode = "merge", NEW s \in Prompts PROVE Merged(s)'
  <2>1. Merged(s) /\ Held(s)' = Held(s)
    BY <1>1, <1>4, Parts DEF Modes, Held
  <2>2. generator[s] = "over" => generator'[s] = "over"
    BY <1>2
  <2> QED
    BY <1>1, <1>2, <2>1, <2>2 DEF Merged
<1>5. Modes'
  BY <1>1, <1>2, <1>4, Parts DEF Modes
<1> QED
  BY <1>1, <1>2, <1>3, <1>5, Together

LEMMA DrainStep ==
  ASSUME IInv, NEW r \in Prompts, Drain(r)
  PROVE  IInv'
<1>1. /\ mode = "gather" /\ mode' = mode /\ task[r] = "pending"
      /\ UNCHANGED <<put, turn, response, sent, last>> /\ (Left => Left')
      /\ Resumable(r) /\ Taken(r)
      /\ response \in {"waiting", "closed"}
  BY Parts DEF Drain, Left, Modes
<1>2. \A s \in Prompts : Gathered(s) /\ chunk[s] \in Seq(Int)
  BY <1>1, Parts DEF Modes, Types
<1>3. /\ Reads' /\ Got(r)' = Append(Got(r), Item(r)) /\ Item(r) \in Int
      /\ generator' \in [Prompts -> {"new", "yielded", "ending", "over"}]
      /\ taken' \in [Prompts -> Nat]
      /\ \A s \in Prompts : s # r => Got(s)' = Got(s) /\ (AtMark(s)' <=> AtMark(s))
      /\ AtMark(r)' <=> Item(r) \in Terminal
  BY <1>1, ReadsTaken
<1>4. /\ chunk' \in [Prompts -> Seq(Int)] /\ chunk'[r] = Append(chunk[r], Item(r))
      /\ \A s \in Prompts : s # r => chunk'[s] = chunk[s]
  <2>1. Append(chunk[r], Item(r)) \in Seq(Int)
    BY <1>2, <1>3
  <2> QED
    BY <2>1, Parts DEF Drain, Types
<1>5. /\ task' \in [Prompts -> {"none", "pending", "done"}]
      /\ task'[r] = IF Item(r) \in Terminal THEN "done" ELSE "pending"
      /\ \A s \in Prompts : s # r => task'[s] = task[s]
  BY Parts DEF Drain, Types
<1>6. Types'
  BY <1>1, <1>3, <1>4, <1>5, Parts DEF Types
<1>7. ASSUME NEW s \in Prompts PROVE Gathered(s)'
  <2>1. Gathered(s) /\ Gathered(r)
    BY <1>2
  <2>2. chunk'[s] = Got(s)'
    BY <1>3, <1>4, <2>1 DEF Gathered
  <2>3. task'[s] = "done" => AtMark(s)'
    BY <1>3, <1>5, <2>1 DEF Gathered
  <2> QED
    BY <1>1, <2>1, <2>2, <2>3 DEF Gathered
<1>8. Modes'
  BY <1>1, <1>7 DEF Modes
<1>9. Said'
  <2>1. last \in {"", "500"}
    BY <1>1, Parts DEF Said, Types
  <2>2. last = "500" => \E s \in Prompts : Failed(s)'
    <3> SUFFICES ASSUME last = "500" PROVE \E s \in Prompts : Failed(s)'
      OBVIOUS
    <3>1. PICK s \in Prompts : Failed(s)
      BY Parts DEF Said
    <3>2. s # r
      BY <1>1, <3>1 DEF Failed
    <3> QED
      BY <1>4, <1>5, <3>1, <3>2 DEF Failed
  <2> QED
    BY <1>1, <2>1, <2>2, Parts DEF Said
<1> QED
  BY <1>3, <1>6, <1>8, <1>9, Together

LEMMA AnswerStep ==
  ASSUME IInv, Answer
  PROVE  IInv'
<1>1. /\ mode = "gather" /\ mode' = mode /\ response' = "closed"
      /\ UNCHANGED <<put, taken, generator, task, chunk, turn>> /\ (Left => Left')
  BY Parts DEF Answer, Left, queues
<1>2. Reads' /\ \A s \in Prompts : Got(s)' = Got(s) /\ (AtMark(s)' <=> AtMark(s))
  BY <1>1, ReadsStay
<1>3. \A s \in Prompts : Gathered(s) /\ chunk[s] \in Seq(Int)
  BY <1>1, Parts DEF Modes, Types
<1>4. CASE (\E r \in Prompts : Failed(r)) /\ last' = "500" /\ UNCHANGED sent
  <2>1. Types'
    BY <1>1, <1>4, Parts DEF Types
  <2>2. \A s \in Prompts : sent[s] = <<>>
    BY <1>3, Parts DEF Gathered, Answer
  <2>3. Modes'
    BY <1>1, <1>2, <1>3, <1>4, <2>2 DEF Modes, Gathered
  <2>4. Said'
    BY <1>1, <1>4 DEF Said, Failed
  <2> QED
    BY <1>2, <2>1, <2>3, <2>4, Together
<1>5. CASE /\ \A r \in Prompts : task[r] = "done" /\ ~Failed(r)
           /\ last' = "200" /\ sent' = chunk
  <2>1. Types'
    BY <1>1, <1>5, Parts DEF Types
  <2>2. Modes'
    BY <1>1, <1>2, <1>3, <1>5 DEF Modes, Gathered
  <2>3. ASSUME NEW s \in Prompts PROVE Last(chunk[s]) = END
    <3>1. chunk[s] = Got(s) /\ AtMark(s) /\ Last(chunk[s]) # ERROR
      BY <1>3, <1>5 DEF Gathered, Failed
    <3>2. /\ Len(Got(s)) = taken[s] /\ taken[s] \in Nat /\ taken[s] > 0
          /\ Got(s)[taken[s]] = put[s][taken[s]] /\ put[s][taken[s]] \in Marked
      BY <3>1, QueueFacts DEF AtMark
    <3> HIDE DEF Got
    <3> QED
      BY <3>1, <3>2 DEF Last, Marked
  <2>4. Said'
    BY <1>1, <1>5, <2>3 DEF Said
  <2> QED
    BY <1>2, <2>1, <2>2, <2>4, Together
<1> QED
  BY <1>4, <1>5 DEF Answer

LEMMA StreamStutter ==
  ASSUME IInv, UNCHANGED vars
  PROVE  IInv'
<1>1. /\ mode' = mode /\ last' = last /\ response' = response /\ (Left => Left')
      /\ UNCHANGED <<put, taken, generator, task, chunk, turn, sent>>
  BY DEF vars, queues, Left
<1>2. Reads' /\ \A s \in Prompts : Got(s)' = Got(s) /\ (AtMark(s)' <=> AtMark(s))
  BY <1>1, ReadsStay
<1>3. Types'
  BY <1>1, Parts DEF Types
<1>4. Modes'
  BY <1>1, <1>2, Parts DEF Modes, Merged, Gathered, Held
<1>5. Said'
  BY <1>1, <1>2, Parts DEF Said, Group, Failed
<1> QED
  BY <1>2, <1>3, <1>4, <1>5, Together

LEMMA StreamInit ==
  ASSUME Init
  PROVE  IInv
<1>1. /\ \A r \in Prompts : put[r] = <<>> /\ taken[r] = 0 /\ generator[r] = "new"
      /\ \A r \in Prompts : chunk[r] = <<>> /\ sent[r] = <<>>
      /\ \A r \in Prompts : task[r] = IF mode = "gather" THEN "pending" ELSE "none"
      /\ turn = {} /\ last = "" /\ mode \in {"merge", "single", "gather"}
      /\ response = IF mode = "gather" THEN "waiting" ELSE "new"
  BY DEF Init
<1>2. Types
  <2>1. <<>> \in Seq(Int)
    OBVIOUS
  <2>2. /\ put \in [Prompts -> Seq(Int)] /\ taken \in [Prompts -> Nat]
        /\ chunk \in [Prompts -> Seq(Int)] /\ sent \in [Prompts -> Seq(Int)]
    <3> DEFINE none == <<>>
    <3>1. /\ none \in Seq(Int) /\ put = [r \in Prompts |-> none]
          /\ chunk = [r \in Prompts |-> none] /\ sent = [r \in Prompts |-> none]
          /\ taken = [r \in Prompts |-> 0]
      BY <2>1 DEF Init
    <3> HIDE DEF none
    <3> QED
      BY <3>1
  <2>3. /\ generator \in [Prompts -> {"new", "yielded", "ending", "over"}]
        /\ task \in [Prompts -> {"none", "pending", "done"}]
    BY DEF Init
  <2> QED
    BY <1>1, <2>2, <2>3 DEF Types
<1>3. \A r \in Prompts : Got(r) = <<>> /\ ~AtMark(r)
  <2> SUFFICES ASSUME NEW r \in Prompts PROVE Got(r) = <<>> /\ ~AtMark(r)
    OBVIOUS
  <2>1. taken[r] = 0 /\ put[r] = <<>>
    BY <1>1
  <2>2. SubSeq(<<>>, 1, 0) = <<>>
    OBVIOUS
  <2> QED
    BY <2>1, <2>2 DEF Got, AtMark
<1>4. Reads
  <2> SUFFICES ASSUME NEW r \in Prompts PROVE Queue(r) /\ Read(r)
    BY DEF Reads
  <2>1. taken[r] = 0 /\ Len(put[r]) = 0 /\ generator[r] = "new" /\ ~AtMark(r)
    <3>1. taken[r] = 0 /\ put[r] = <<>> /\ generator[r] = "new" /\ ~AtMark(r)
      BY <1>1, <1>3
    <3>2. Len(<<>>) = 0
      OBVIOUS
    <3> QED
      BY <3>1, <3>2, Zenon
  <2> QED
    BY <2>1 DEF Queue, Read
<1>5. Modes
  <2>1. ASSUME NEW r \in Prompts, mode = "merge" PROVE Merged(r)
    <3>1. Held(r) = <<>>
      BY <1>1 DEF Held
    <3>2. sent[r] \o Held(r) = Got(r)
      <4>1. <<>> \o <<>> = <<>>
        OBVIOUS
      <4> HIDE DEF Held, Got
      <4>2. sent[r] = <<>> /\ Held(r) = <<>> /\ Got(r) = <<>>
        BY <1>1, <1>3, <3>1
      <4> QED
        BY <4>1, <4>2, Zenon
    <3> QED
      BY <1>1, <2>1, <3>2 DEF Merged
  <2>2. ASSUME NEW r \in Prompts, mode = "gather" PROVE Gathered(r)
    BY <1>1, <1>3, <2>2 DEF Gathered
  <2> QED
    BY <1>1, <1>3, <2>1, <2>2 DEF Modes
<1>6. Said
  BY <1>1 DEF Said
<1> QED
  BY <1>2, <1>4, <1>5, <1>6 DEF IInv

LEMMA StreamStep ==
  ASSUME IInv, Next \/ UNCHANGED vars
  PROVE  IInv'
<1>1. CASE Merge
  BY <1>1, StartStep, RoundStep, ResumeStep, LoopEndStep, LookStep DEF Merge
<1>2. CASE Cancel \/ Drop \/ Answer
  BY <1>2, CancelStep, DropStep, AnswerStep
<1>3. ASSUME NEW r \in Prompts,
             PutTokens(r) \/ PutEnd(r) \/ Fetch(r) \/ Single(r) \/ Collect(r) \/ Drain(r)
      PROVE  IInv'
  BY <1>3, PutTokensStep, PutEndStep, FetchStep, SingleChunkStep, SingleResumeStep,
     CollectStep, DrainStep DEF Single
<1>4. CASE UNCHANGED vars
  BY <1>4, StreamStutter
<1> QED
  BY <1>1, <1>2, <1>3, <1>4 DEF Next

(* Every chunk of every prompt is delivered once, in order, and a response *)
(* that is complete has them all, for any number of prompts.               *)
THEOREM StreamDelivered == Spec => []Delivered
<1>1. Init => IInv
  BY StreamInit
<1>2. IInv /\ [Next]_vars => IInv'
  BY StreamStep
<1>3. IInv => Delivered
  BY DeliveredFollows
<1> QED
  BY <1>1, <1>2, <1>3, PTL DEF Spec
=============================================================================
