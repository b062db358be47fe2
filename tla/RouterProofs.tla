---------------------------- MODULE RouterProofs ----------------------------
(***************************************************************************)
(* Theorems about the parts of the router process that MCRouter composes:  *)
(* the streams of a request, for any number of prompts and of chunks, and  *)
(* the launcher, for any number of engines.                                *)
(***************************************************************************)
EXTENDS MCRouter, TLAPS

-----------------------------------------------------------------------------
(* The streams                                                             *)

(* Streams once more, with what is proved about it. *)
P == INSTANCE StreamsProofs WITH cancelled_requests <- cancelled

(* The two instances of Streams are the same. *)
LEMMA SameStream ==
  /\ Stream!Init <=> P!Init
  /\ UNCHANGED stream => UNCHANGED P!vars
  /\ P!Delivered <=> Stream!Delivered
<1>1. Stream!Init <=> P!Init
  BY DEF Stream!Init, P!Init, Stream!Group, P!Group
<1>2. UNCHANGED stream => UNCHANGED P!vars
  BY DEF stream, P!vars, P!queues
<1>3. P!Delivered <=> Stream!Delivered
  BY Zenon DEF Stream!Delivered, P!Delivered, Stream!Due, P!Due, Stream!Marks, P!Marks,
     Stream!END, P!END, Stream!ERROR, P!ERROR, Stream!Group, P!Group, Stream!Ended, P!Ended,
     Stream!Last, P!Last, Stream!Min, P!Min, Stream!IsPrefix, P!IsPrefix, Stream!ToSet, P!ToSet
<1> QED
  BY <1>1, <1>2, <1>3

LEMMA SameSteps ==
  /\ Stream!Merge <=> P!Merge
  /\ Stream!Cancel <=> P!Cancel
  /\ Stream!Drop <=> P!Drop
  /\ Stream!Answer <=> P!Answer
  /\ \A r : Stream!PutTokens(r) <=> P!PutTokens(r)
  /\ \A r : Stream!PutEnd(r) <=> P!PutEnd(r)
  /\ \A r : Stream!Fetch(r) <=> P!Fetch(r)
  /\ \A r : Stream!Single(r) <=> P!Single(r)
  /\ \A r : Stream!Collect(r) <=> P!Collect(r)
  /\ \A r : Stream!Drain(r) <=> P!Drain(r)
<1>1. Stream!Merge <=> P!Merge
  BY Zenon DEF Stream!Merge, P!Merge, Stream!Start, P!Start, Stream!Round, P!Round,
     Stream!Resume, P!Resume, Stream!LoopEnd, P!LoopEnd, Stream!Look, P!Look,
     Stream!queues, P!queues, Stream!Exhausted, P!Exhausted
<1>2. Stream!Cancel <=> P!Cancel
  BY Zenon DEF Stream!Cancel, P!Cancel, Stream!Finished, P!Finished, Stream!Group, P!Group,
     Stream!queues, P!queues
<1>3. Stream!Drop <=> P!Drop
  BY Zenon DEF Stream!Drop, P!Drop, Stream!queues, P!queues
<1>4. Stream!Answer <=> P!Answer
  BY Zenon DEF Stream!Answer, P!Answer, Stream!Failed, P!Failed, Stream!queues, P!queues,
     Stream!ERROR, P!ERROR, Stream!Last, P!Last
<1>5. \A r : Stream!PutTokens(r) <=> P!PutTokens(r)
  BY Zenon DEF Stream!PutTokens, P!PutTokens, Stream!PutInto, P!PutInto, Stream!Ended,
     P!Ended, Stream!Last, P!Last, Stream!END, P!END, Stream!ERROR, P!ERROR
<1>6. \A r : Stream!PutEnd(r) <=> P!PutEnd(r)
  BY Zenon DEF Stream!PutEnd, P!PutEnd, Stream!PutInto, P!PutInto, Stream!Ended,
     P!Ended, Stream!Last, P!Last, Stream!END, P!END, Stream!ERROR, P!ERROR
<1>7. \A r : Stream!Fetch(r) <=> P!Fetch(r)
  BY Zenon DEF Stream!Fetch, P!Fetch, Stream!Resumable, P!Resumable, Stream!Queued,
     P!Queued, Stream!Taken, P!Taken, Stream!Item, P!Item, Stream!Terminal, P!Terminal,
     Stream!Finished, P!Finished, Stream!END, P!END, Stream!ERROR, P!ERROR
<1>8. \A r : Stream!Single(r) <=> P!Single(r)
  BY Zenon DEF Stream!Single, P!Single, Stream!SingleChunk, P!SingleChunk,
     Stream!SingleResume, P!SingleResume, Stream!Resumable, P!Resumable, Stream!Queued,
     P!Queued, Stream!Taken, P!Taken, Stream!Item, P!Item, Stream!Terminal, P!Terminal,
     Stream!Finished, P!Finished, Stream!END, P!END, Stream!ERROR, P!ERROR,
     Stream!Group, P!Group, Stream!queues, P!queues
<1>9. \A r : Stream!Collect(r) <=> P!Collect(r)
  BY Zenon DEF Stream!Collect, P!Collect, Stream!Finished, P!Finished, Stream!queues, P!queues
<1>10. \A r : Stream!Drain(r) <=> P!Drain(r)
  BY Zenon DEF Stream!Drain, P!Drain, Stream!Resumable, P!Resumable, Stream!Queued,
     P!Queued, Stream!Taken, P!Taken, Stream!Item, P!Item, Stream!Terminal, P!Terminal,
     Stream!END, P!END, Stream!ERROR, P!ERROR
<1> QED
  BY <1>1, <1>2, <1>3, <1>4, <1>5, <1>6, <1>7, <1>8, <1>9, <1>10

LEMMA SameNext == Stream!Next => P!Next
  BY SameSteps, Zenon DEF Stream!Next, P!Next

(* The streams at rest: an answer that was complete. *)
LEMMA RestingStream ==
  ASSUME NoStream
  PROVE  P!IInv
<1>0. /\ P!END = 0 /\ P!ERROR = -1 /\ P!Marked = {0, -1}
  BY DEF P!END, P!ERROR, P!Marked
<1>1. ASSUME NEW r \in Prompts
      PROVE  /\ put[r] = <<0>> /\ taken[r] = 1 /\ generator[r] = "over"
             /\ task[r] = "done" /\ chunk[r] = <<0>> /\ sent[r] = <<0>>
  BY DEF NoStream
<1>2. <<0>> \in Seq(Int) /\ Len(<<0>>) = 1 /\ <<0>>[1] = 0 /\ SubSeq(<<0>>, 1, 1) = <<0>>
  <2> DEFINE zero == <<0>>
  <2>1. zero \in Seq(Int) /\ Len(zero) = 1
    OBVIOUS
  <2>2. zero[1] = 0
    OBVIOUS
  <2> HIDE DEF zero
  <2>3. SubSeq(zero, 1, 1) = zero
    BY <2>1
  <2> QED
    BY <2>1, <2>2, <2>3, Zenon DEF zero
<1>3. P!Types
  <2> DEFINE zero == <<0>>
  <2>1. zero \in Seq(Int)
    BY <1>2
  <2>2. /\ put = [r \in Prompts |-> zero] /\ chunk = [r \in Prompts |-> zero]
        /\ sent = [r \in Prompts |-> zero]
    BY DEF NoStream
  <2> HIDE DEF zero
  <2>3. /\ put \in [Prompts -> Seq(Int)] /\ chunk \in [Prompts -> Seq(Int)]
        /\ sent \in [Prompts -> Seq(Int)]
    BY <2>1, <2>2
  <2> QED
    BY <2>3 DEF NoStream, P!Types
<1>4. ASSUME NEW r \in Prompts PROVE P!Got(r) = <<0>> /\ P!AtMark(r) /\ P!Ended(r)
  <2>1. P!Got(r) = <<0>>
    BY <1>1, <1>2, Zenon DEF P!Got
  <2>2. P!AtMark(r)
    BY <1>0, <1>1, <1>2 DEF P!AtMark
  <2>3. P!Ended(r)
    BY <1>0, <1>1, <1>2 DEF P!Ended, P!Last
  <2> QED
    BY <2>1, <2>2, <2>3
<1>5. P!Reads
  <2> SUFFICES ASSUME NEW r \in Prompts PROVE P!Queue(r) /\ P!Read(r)
    BY DEF P!Reads
  <2>1. Len(put[r]) = 1
    BY <1>1, <1>2
  <2> QED
    BY <1>1, <1>4, <2>1 DEF P!Queue, P!Read
<1>6. P!Modes
  BY <1>1, <1>4 DEF P!Modes, P!Gathered, NoStream
<1>7. P!Said
  BY <1>0, <1>1, <1>2 DEF P!Said, P!Last, NoStream
<1> QED
  BY <1>3, <1>5, <1>6, <1>7 DEF P!IInv

(* Every chunk of every prompt is delivered once, in order, and a response *)
(* that is complete has all of them: for any number of prompts and chunks, *)
(* whoever leaves and however the tasks and the generators end             *)
(* (router/streaming.py, router/request_handler.py).                       *)
THEOREM EveryChunkIsDelivered == Spec => []Delivered
<1>1. Init => P!IInv
  BY RestingStream, SameStream, P!StreamInit DEF Init
<1>2. P!IInv /\ [Next]_<<part, scheduler, stream, server, statistics>> => P!IInv'
  <2> SUFFICES ASSUME P!IInv, [Next]_<<part, scheduler, stream, server, statistics>>
               PROVE  P!IInv'
    OBVIOUS
  <2>1. Stream!Next \/ UNCHANGED stream
    BY DEF Next
  <2>2. P!Next \/ UNCHANGED P!vars
    BY <2>1, SameStream, SameNext
  <2> QED
    BY <2>2, P!StreamStep
<1>3. P!IInv => Delivered
  BY SameStream, P!DeliveredFollows DEF Delivered
<1> QED
  BY <1>1, <1>2, <1>3, PTL DEF Spec

-----------------------------------------------------------------------------
(* The launcher                                                            *)

Positions == {"none", "asked", "tokenizer", "model", "cache", "decoder", "200", "500"}

LoadTypes ==
  /\ config \in Nat
  /\ load \in [Server!Engines -> [Server!By -> Positions]]
  /\ loaded \in [Server!Engines -> SUBSET Server!Parts]

(* What a load that has come this far has left in its engine. *)
HasSoFar(i, by) ==
  /\ load[i][by] = "model" => "tokenizer" \in loaded[i]
  /\ load[i][by] \in {"cache", "decoder"} => {"tokenizer", "model"} \subseteq loaded[i]
  /\ load[i][by] = "decoder" => "cache" \in loaded[i]
  /\ load[i][by] = "200" => "model" \in loaded[i]

(* With the model there, all is there or a load is on its way to it, if    *)
(* none raised on that way.                                                *)
OnItsWay(i) == \E by \in Server!By : load[i][by] \in {"cache", "decoder"}
WillBeWhole(i) ==
  "model" \in loaded[i] /\ i \notin partial => loaded[i] = Server!Parts \/ OnItsWay(i)

(* The router asks each engine once: a load that is on its way is not      *)
(* begun anew.                                                             *)
AskedOnce(i) == i > config => load[i]["startup"] = "none"

LoadInv ==
  /\ LoadTypes
  /\ \A i \in Server!Engines :
       /\ \A by \in Server!By : HasSoFar(i, by)
       /\ WillBeWhole(i) /\ AskedOnce(i)

loads == <<config, load, loaded, partial>>

LEMMA LoadsStay ==
  ASSUME LoadInv, UNCHANGED loads
  PROVE  LoadInv'
BY DEF LoadInv, LoadTypes, loads, HasSoFar, WillBeWhole, OnItsWay, AskedOnce

(* A load moves on, from one position to the next: nothing is lost. *)
LEMMA LoadMoves ==
  ASSUME LoadInv, NEW i \in Server!Engines, NEW by \in Server!By, NEW to \in Positions,
         load' = [load EXCEPT ![i][by] = to],
         loaded' \in [Server!Engines -> SUBSET Server!Parts],
         \A j \in Server!Engines : j # i => loaded'[j] = loaded[j],
         loaded[i] \subseteq loaded'[i], partial \subseteq partial',
         config' \in Nat, config <= config', to # "none" /\ by = "startup" => i <= config',
         HasSoFar(i, by)', WillBeWhole(i)'
  PROVE  LoadInv'
<1>0. /\ config \in Nat /\ load \in [Server!Engines -> [Server!By -> Positions]]
      /\ loaded \in [Server!Engines -> SUBSET Server!Parts]
      /\ "startup" \in Server!By
  BY DEF LoadInv, LoadTypes, Server!By
<1>1. /\ load' \in [Server!Engines -> [Server!By -> Positions]]
      /\ load'[i][by] = to
      /\ \A b \in Server!By : b # by => load'[i][b] = load[i][b]
      /\ \A j \in Server!Engines : j # i => load'[j] = load[j]
  BY <1>0
<1>2. LoadTypes'
  BY <1>1 DEF LoadTypes
<1>3. ASSUME NEW j \in Server!Engines
      PROVE  /\ \A b \in Server!By : HasSoFar(j, b)'
             /\ WillBeWhole(j)' /\ AskedOnce(j)'
  <2>1. (\A b \in Server!By : HasSoFar(j, b)) /\ WillBeWhole(j) /\ AskedOnce(j)
    BY DEF LoadInv
  <2>2. j \in Int
    BY DEF Server!Engines
  <2>3. CASE j # i
    <3>1. load'[j] = load[j] /\ loaded'[j] = loaded[j]
      BY <1>1, <2>3
    <3> QED
      BY <1>0, <2>1, <2>2, <3>1 DEF HasSoFar, WillBeWhole, OnItsWay, AskedOnce
  <2>4. CASE j = i
    <3>1. ASSUME NEW b \in Server!By, b # by PROVE HasSoFar(i, b)'
      BY <1>1, <2>1, <2>4, <3>1 DEF HasSoFar
    <3>2. AskedOnce(i)'
      BY <1>0, <1>1, <2>1, <2>2, <2>4 DEF AskedOnce
    <3> QED
      BY <2>4, <3>1, <3>2
  <2> QED
    BY <2>3, <2>4
<1> QED
  BY <1>2, <1>3 DEF LoadInv

(* Asking, by the router or by the operator, for a load that nobody asked  *)
(* for before.                                                             *)
LEMMA AskStep ==
  ASSUME LoadInv, NEW i \in Server!Engines, NEW by \in Server!By,
         load[i][by] = "none", load' = Server!Asked(i, by), UNCHANGED <<loaded, partial>>,
         config' \in Nat, config <= config', by = "startup" => i <= config'
  PROVE  LoadInv'
<1>0. /\ load \in [Server!Engines -> [Server!By -> Positions]]
      /\ loaded \in [Server!Engines -> SUBSET Server!Parts]
      /\ WillBeWhole(i)
  BY DEF LoadInv, LoadTypes
<1>1. load' = [load EXCEPT ![i][by] = "asked"]
  BY DEF Server!Asked
<1>2. /\ load'[i][by] = "asked"
      /\ \A b \in Server!By : b # by => load'[i][b] = load[i][b]
  BY <1>0, <1>1
<1>3. HasSoFar(i, by)'
  BY <1>2 DEF HasSoFar
<1>4. WillBeWhole(i)'
  BY <1>0, <1>2 DEF WillBeWhole, OnItsWay
<1>5. "asked" \in Positions
  BY DEF Positions
<1> QED
  BY <1>0, <1>1, <1>3, <1>4, <1>5, LoadMoves

LEMMA LoadStep ==
  ASSUME LoadInv, NEW i \in Server!Engines, NEW by \in Server!By, Server!Load(i, by)
  PROVE  LoadInv'
<1>0. /\ load \in [Server!Engines -> [Server!By -> Positions]] /\ config \in Nat
      /\ loaded \in [Server!Engines -> SUBSET Server!Parts]
      /\ WillBeWhole(i) /\ HasSoFar(i, by)
      /\ by = "startup" /\ load[i][by] # "none" => i <= config
  BY DEF LoadInv, LoadTypes, AskedOnce, Server!Engines
<1>1. PICK to \in Positions, parts \in SUBSET Server!Parts :
        /\ Server!Step(i, by, to, parts)
        /\ \/ load[i][by] = "asked" /\ to = "200" /\ parts = {} /\ "model" \in loaded[i]
           \/ load[i][by] = "asked" /\ to = "tokenizer" /\ parts = {}
           \/ load[i][by] = "tokenizer" /\ to = "model" /\ parts = {"tokenizer"}
           \/ load[i][by] = "model" /\ to = "cache" /\ parts = {"model"}
           \/ load[i][by] = "cache" /\ to = "decoder" /\ parts = {"cache"}
           \/ load[i][by] = "decoder" /\ to = "200" /\ parts = {"decoder"}
  <2>1. /\ {"200", "tokenizer", "model", "cache", "decoder"} \subseteq Positions
        /\ {"tokenizer", "model", "cache", "decoder"} = Server!Parts
    BY DEF Positions, Server!Parts
  <2>2. CASE Server!Begin(i, by)
    BY <2>1, <2>2 DEF Server!Begin, Server!Loaded
  <2>3. CASE Server!LoadPart(i, by)
    BY <2>1, <2>3 DEF Server!LoadPart
  <2> QED
    BY <2>2, <2>3 DEF Server!Load
<1>2. /\ load' = [load EXCEPT ![i][by] = to]
      /\ loaded' = [loaded EXCEPT ![i] = @ \union parts]
      /\ UNCHANGED <<config, partial>>
  BY <1>1 DEF Server!Step
<1>3. /\ loaded'[i] = loaded[i] \union parts
      /\ loaded' \in [Server!Engines -> SUBSET Server!Parts]
      /\ \A j \in Server!Engines : j # i => loaded'[j] = loaded[j]
  BY <1>0, <1>2
<1>4. /\ load'[i][by] = to
      /\ \A b \in Server!By : b # by => load'[i][b] = load[i][b]
  BY <1>0, <1>2
<1>5. HasSoFar(i, by)'
  BY <1>0, <1>1, <1>3, <1>4 DEF HasSoFar
<1>6. WillBeWhole(i)'
  <2>1. CASE to \in {"cache", "decoder"}
    BY <1>4, <2>1 DEF WillBeWhole, OnItsWay
  <2>2. CASE load[i][by] = "decoder"
    BY <1>0, <1>1, <1>3, <2>2 DEF WillBeWhole, HasSoFar, Server!Parts
  <2>3. CASE load[i][by] \in {"asked", "tokenizer"}
    <3>1. "model" \notin parts /\ to \notin {"cache", "decoder"}
      BY <1>1, <2>3
    <3>2. OnItsWay(i) => OnItsWay(i)'
      BY <1>4, <2>3 DEF OnItsWay
    <3>3. loaded[i] = Server!Parts => loaded'[i] = Server!Parts
      BY <1>3
    <3> QED
      BY <1>0, <1>2, <1>3, <3>1, <3>2, <3>3 DEF WillBeWhole
  <2> QED
    BY <1>1, <2>1, <2>2, <2>3
<1>7. /\ config' \in Nat /\ config <= config' /\ partial \subseteq partial'
      /\ to # "none" /\ by = "startup" => i <= config'
      /\ loaded[i] \subseteq loaded'[i]
  <2>1. load[i][by] # "none" /\ config' = config /\ partial' = partial
    BY <1>1, <1>2
  <2>2. config <= config
    BY <1>0
  <2> QED
    BY <1>0, <1>3, <2>1, <2>2
<1> QED
  BY <1>2, <1>3, <1>5, <1>6, <1>7, LoadMoves

LEMMA RaiseStep ==
  ASSUME LoadInv, NEW i \in Server!Engines, NEW by \in Server!By, Server!Raise(i, by)
  PROVE  LoadInv'
<1>0. /\ load \in [Server!Engines -> [Server!By -> Positions]] /\ config \in Nat
      /\ loaded \in [Server!Engines -> SUBSET Server!Parts]
      /\ WillBeWhole(i)
      /\ by = "startup" /\ load[i][by] # "none" => i <= config
  BY DEF LoadInv, LoadTypes, AskedOnce, Server!Engines
<1>1. /\ load' = [load EXCEPT ![i][by] = "500"] /\ load[i][by] \in Server!Parts
      /\ UNCHANGED <<config, loaded>>
      /\ partial' = IF load[i][by] \in {"cache", "decoder"} THEN partial \union {i} ELSE partial
  BY DEF Server!Raise
<1>2. /\ load'[i][by] = "500"
      /\ \A b \in Server!By : b # by => load'[i][b] = load[i][b]
  BY <1>0, <1>1
<1>3. HasSoFar(i, by)'
  BY <1>2 DEF HasSoFar
<1>4. WillBeWhole(i)'
  BY <1>0, <1>1, <1>2 DEF WillBeWhole, OnItsWay
<1>5. "500" \in Positions /\ load[i][by] # "none"
  BY <1>1 DEF Positions, Server!Parts
<1>6. /\ config' \in Nat /\ config <= config' /\ partial \subseteq partial'
      /\ by = "startup" => i <= config'
      /\ loaded' \in [Server!Engines -> SUBSET Server!Parts]
      /\ loaded[i] \subseteq loaded'[i] /\ \A j \in Server!Engines : loaded'[j] = loaded[j]
  BY <1>0, <1>1, <1>5
<1> QED
  BY <1>1, <1>3, <1>4, <1>5, <1>6, LoadMoves

(* What an engine has ends with it. *)
LEMMA DiesStep ==
  ASSUME LoadInv, NEW p \in Server!Process, Server!Dies(p)
  PROVE  LoadInv'
<1>1. /\ load' = [i \in Server!Engines |-> IF i = p THEN Server!NoLoads ELSE load[i]]
      /\ loaded' = [i \in Server!Engines |-> IF i = p THEN {} ELSE loaded[i]]
      /\ partial' = partial \ {p} /\ config' = config
  BY DEF Server!Dies
<1>2. Server!NoLoads \in [Server!By -> Positions] /\ \A b \in Server!By : Server!NoLoads[b] = "none"
  BY DEF Server!NoLoads, Positions
<1>3. LoadTypes'
  BY <1>1, <1>2 DEF LoadInv, LoadTypes
<1>4. ASSUME NEW i \in Server!Engines
      PROVE  /\ \A b \in Server!By : HasSoFar(i, b)'
             /\ WillBeWhole(i)' /\ AskedOnce(i)'
  <2>1. (\A b \in Server!By : HasSoFar(i, b)) /\ WillBeWhole(i) /\ AskedOnce(i)
    BY DEF LoadInv
  <2>2. CASE i # p
    <3>1. load'[i] = load[i] /\ loaded'[i] = loaded[i] /\ (i \in partial' <=> i \in partial)
      BY <1>1, <2>2
    <3> QED
      BY <1>1, <2>1, <3>1 DEF HasSoFar, WillBeWhole, OnItsWay, AskedOnce
  <2>3. CASE i = p
    <3>1. loaded'[i] = {} /\ \A b \in Server!By : load'[i][b] = "none"
      BY <1>1, <1>2, <2>3
    <3>2. "startup" \in Server!By
      BY DEF Server!By
    <3> QED
      BY <3>1, <3>2 DEF HasSoFar, WillBeWhole, AskedOnce
  <2> QED
    BY <2>2, <2>3
<1> QED
  BY <1>3, <1>4 DEF LoadInv

(* The router asks the next engine. *)
LEMMA ConfigureStep ==
  ASSUME LoadInv, Server!Configure
  PROVE  LoadInv'
<1>0. LoadTypes /\ config \in Nat
  BY DEF LoadInv, LoadTypes
<1>1. CASE /\ config < Instances /\ config' = config + 1
           /\ UNCHANGED <<loaded, partial>>
           /\ load' = IF process[config + 1] = "ready" THEN Server!Asked(config + 1, "startup")
                      ELSE load
  <2> DEFINE i == config + 1
  <2>1. i \in Server!Engines /\ config' = i /\ config' \in Nat /\ config <= config' /\ i > config
    BY <1>0, <1>1, InstancesAssumption DEF Server!Engines
  <2>2. CASE process[i] = "ready"
    <3>1. load' = Server!Asked(i, "startup") /\ UNCHANGED <<loaded, partial>>
      BY <1>1, <2>2
    <3>2. load[i]["startup"] = "none" /\ "startup" \in Server!By
      BY <2>1 DEF LoadInv, AskedOnce, Server!By
    <3>3. i <= config'
      BY <2>1, <1>0
    <3> HIDE DEF i
    <3> QED
      BY <2>1, <3>1, <3>2, <3>3, AskStep
  <2>3. CASE process[i] # "ready"
    <3>1. load' = load /\ UNCHANGED <<loaded, partial>>
      BY <1>1, <2>3
    <3>2. LoadTypes'
      BY <1>0, <2>1, <3>1 DEF LoadTypes
    <3>3. ASSUME NEW j \in Server!Engines PROVE AskedOnce(j) => AskedOnce(j)'
      BY <1>0, <1>1, <3>1 DEF AskedOnce, Server!Engines
    <3> QED
      BY <3>1, <3>2, <3>3 DEF LoadInv, HasSoFar, WillBeWhole, OnItsWay
  <2> QED
    BY <2>2, <2>3
<1>2. CASE UNCHANGED loads
  BY <1>2, LoadsStay
<1> QED
  BY <1>1, <1>2 DEF Server!Configure, loads

LEMMA OtherSteps ==
  ASSUME Server!Main \/ Server!Interrupt \/ \E p \in Server!Process : Server!Boot(p)
  PROVE  UNCHANGED loads
BY DEF Server!Main, Server!LaunchEngine, Server!EnginesReady, Server!LaunchRouter,
       Server!RouterReady, Server!StartPrometheus, Server!AllGone, Server!Interrupt,
       Server!Boot, Server!Exit, Server!Go, Server!others, loads

LEMMA ServerStep ==
  ASSUME LoadInv, Server!Next
  PROVE  LoadInv'
<1>1. CASE Server!Main \/ Server!Interrupt \/ \E p \in Server!Process : Server!Boot(p)
  BY <1>1, OtherSteps, LoadsStay
<1>2. CASE Server!Configure
  BY <1>2, ConfigureStep
<1>3. ASSUME NEW p \in Server!Process, Server!Die(p) \/ Server!Stop(p)
      PROVE  LoadInv'
  BY <1>3, DiesStep DEF Server!Die, Server!Stop
<1>4. ASSUME NEW i \in Server!Engines, Server!Operator(i)
      PROVE  LoadInv'
  <2>1. /\ load[i]["operator"] = "none" /\ load' = Server!Asked(i, "operator")
        /\ UNCHANGED <<config, loaded, partial>> /\ "operator" \in Server!By
        /\ "operator" # "startup"
    BY <1>4 DEF Server!Operator, Server!By
  <2>2. config' \in Nat /\ config <= config'
    BY <2>1 DEF LoadInv, LoadTypes
  <2> QED
    BY <2>1, <2>2, AskStep
<1>5. ASSUME NEW i \in Server!Engines, NEW by \in Server!By,
             Server!Load(i, by) \/ Server!Raise(i, by)
      PROVE  LoadInv'
  BY <1>5, LoadStep, RaiseStep
<1> QED
  BY <1>1, <1>2, <1>3, <1>4, <1>5 DEF Server!Next

LEMMA ServerInit ==
  ASSUME Server!Init \/ NoServer
  PROVE  LoadInv
<1>1. /\ load = [i \in Server!Engines |-> Server!NoLoads] /\ config = 0
      /\ loaded = [i \in Server!Engines |-> {}]
  BY DEF Server!Init, NoServer
<1>2. /\ Server!NoLoads \in [Server!By -> Positions]
      /\ \A b \in Server!By : Server!NoLoads[b] = "none"
      /\ "startup" \in Server!By
  BY DEF Server!NoLoads, Positions, Server!By
<1>3. LoadTypes
  BY <1>1, <1>2 DEF LoadTypes
<1>4. ASSUME NEW i \in Server!Engines
      PROVE  loaded[i] = {} /\ \A b \in Server!By : load[i][b] = "none"
  BY <1>1, <1>2
<1> QED
  BY <1>2, <1>3, <1>4 DEF LoadInv, HasSoFar, WillBeWhole, AskedOnce

(* An engine that answered that it is configured has all its parts once    *)
(* its loads have ended, in whatever order two loads took their steps and  *)
(* engines died, unless one raised after the model was there; for any      *)
(* number of engines (load_model of engine/server.py, router/frontend.py). *)
THEOREM ConfiguredEnginesAreUsable == Spec => []ConfiguredIsUsable
<1>1. Init => LoadInv
  BY ServerInit DEF Init
<1>2. LoadInv /\ [Next]_<<part, scheduler, stream, server, statistics>> => LoadInv'
  <2> SUFFICES ASSUME LoadInv, [Next]_<<part, scheduler, stream, server, statistics>>
               PROVE  LoadInv'
    OBVIOUS
  <2>1. Server!Next \/ UNCHANGED loads
    BY DEF Next, server, loads
  <2> QED
    BY <2>1, ServerStep, LoadsStay
<1>3. LoadInv => ConfiguredIsUsable
  <2> SUFFICES ASSUME LoadInv, NEW i \in Server!Engines \ partial,
                      NEW b \in Server!By, load[i][b] = "200",
                      \A by \in Server!By : load[i][by] \in {"none", "200", "500"}
               PROVE  loaded[i] = Server!Parts
    BY DEF ConfiguredIsUsable, Server!ConfiguredIsUsable
  <2>1. "model" \in loaded[i] /\ ~OnItsWay(i) /\ WillBeWhole(i)
    BY DEF LoadInv, HasSoFar, OnItsWay
  <2> QED
    BY <2>1 DEF WillBeWhole
<1> QED
  BY <1>1, <1>2, <1>3, PTL DEF Spec
=============================================================================
