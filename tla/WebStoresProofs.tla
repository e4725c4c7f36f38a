--------------------------- MODULE WebStoresProofs --------------------------
(***************************************************************************)
(* Theorems about the smaller stores, for every value of the constants: about *)
(* each module, and at the end about all of them side by side.               *)
(***************************************************************************)
EXTENDS WebStores, Sequences, SequenceTheorems, TLAPS

-----------------------------------------------------------------------------
(* MihomoProbe: every node is judged.  EveryNodeJudged needs that a node without a *)
(* verdict is still before the check (NobodyForgotten), that what was validated is *)
(* not rejected (JustVerdicts), and what is over between two batches (BatchOver). *)

\* The nodes of a stack of parts, and those of the batch without an answer.
InParts(stack) == UNION {Probe!ToSet(stack[i]) : i \in 1..Len(stack)}
Unasked == {valid[i] : i \in (asked + 1)..Len(valid)}

ProbeTypes ==
    /\ Probe!TypeOK
    /\ rest \in Seq(Probe!Nodes) /\ chunks \in Seq(Seq(Probe!Nodes)) /\ valid \in Seq(Probe!Nodes)
    /\ asked \in 0..Len(valid)
    /\ stage = "start" /\ engine = "test" => attempt < Attempts
\* Nobody is forgotten: a node has a verdict or is still before the check.
NobodyForgotten ==
    Probe!Nodes \subseteq DOMAIN results \cup InParts(chunks) \cup Unasked \cup Probe!ToSet(rest)
\* Blame is just: of the judged and of those that passed.
JustVerdicts ==
    /\ \A n \in DOMAIN results : (results[n] = "unsupported") = (n \in rejected)
    /\ \A i \in 1..Len(valid) : valid[i] \notin rejected
\* What is over when a batch is over.
BatchOver ==
    /\ stage \notin {"isolate", "fail", "failed", "killed"} => chunks = <<>>
    /\ stage = "isolate" => asked = 0 /\ (engine = "test" => chunks # <<>>)
    /\ stage \in {"next", "close", "done"} => asked = Len(valid)
    /\ stage = "done" => rest = <<>>

ProbeInv == ProbeTypes /\ NobodyForgotten /\ JustVerdicts /\ BatchOver /\ Probe!OneEngine

-----------------------------------------------------------------------------
(* Sequences of nodes *)

LEMMA SetOf ==
    ASSUME NEW S, NEW s \in Seq(S)
    PROVE  /\ Probe!ToSet(s) = {s[i] : i \in 1..Len(s)} /\ Probe!ToSet(s) \subseteq S
           /\ Len(s) \in Nat /\ (s = <<>> <=> Len(s) = 0) /\ (s = <<>> => Probe!ToSet(s) = {})
BY DEF Probe!ToSet

\* Both parts of a sequence that is cut, and nothing else.
LEMMA CutInTwo ==
    ASSUME NEW S, NEW s \in Seq(S), NEW k \in 0..Len(s)
    PROVE  /\ SubSeq(s, 1, k) \in Seq(S) /\ SubSeq(s, k + 1, Len(s)) \in Seq(S)
           /\ Probe!ToSet(s) =
                Probe!ToSet(SubSeq(s, 1, k)) \cup Probe!ToSet(SubSeq(s, k + 1, Len(s)))
<1> DEFINE a == SubSeq(s, 1, k)
           b == SubSeq(s, k + 1, Len(s))
<1>1. Len(s) \in Nat /\ k \in Nat /\ k <= Len(s) OBVIOUS
<1>2. /\ a \in Seq(S) /\ Len(a) = k /\ \A i \in 1..k : a[i] = s[i]
  BY <1>1
<1>3. /\ b \in Seq(S) /\ Len(b) = Len(s) - k /\ \A i \in 1..(Len(s) - k) : b[i] = s[k + i]
  BY <1>1
<1> HIDE DEF a, b
<1>4. Probe!ToSet(a) = {a[i] : i \in 1..k} BY <1>2, SetOf
<1>5. Probe!ToSet(b) = {b[i] : i \in 1..(Len(s) - k)} BY <1>3, SetOf
<1>6. Probe!ToSet(s) = {s[i] : i \in 1..Len(s)} BY SetOf
<1>7. ASSUME NEW i \in 1..Len(s) PROVE s[i] \in Probe!ToSet(a) \cup Probe!ToSet(b)
  <2>1. CASE i <= k BY <1>1, <1>2, <1>4, <2>1
  <2>2. CASE i > k
    <3>1. i - k \in 1..(Len(s) - k) /\ k + (i - k) = i BY <1>1, <2>2
    <3>2. b[i - k] = s[i] BY <1>3, <3>1
    <3> QED BY <1>5, <3>1, <3>2
  <2> QED BY <1>1, <2>1, <2>2
<1>8. ASSUME NEW i \in 1..k PROVE a[i] \in Probe!ToSet(s) BY <1>1, <1>2, <1>6
<1>9. ASSUME NEW i \in 1..(Len(s) - k) PROVE b[i] \in Probe!ToSet(s) BY <1>1, <1>3, <1>6
<1>10. Probe!ToSet(s) = Probe!ToSet(a) \cup Probe!ToSet(b) BY <1>4, <1>5, <1>6, <1>7, <1>8, <1>9
<1> QED BY <1>2, <1>3, <1>10 DEF a, b

\* A part is taken off the stack, put on it, or its two halves take its place.
LEMMA TakenOff ==
    ASSUME NEW S, NEW stack \in Seq(Seq(S)), stack # <<>>
    PROVE  /\ Head(stack) \in Seq(S) /\ Tail(stack) \in Seq(Seq(S))
           /\ InParts(stack) \subseteq Probe!ToSet(Head(stack)) \cup InParts(Tail(stack))
<1>1. Len(stack) \in Nat /\ Len(stack) # 0 /\ Head(stack) = stack[1] OBVIOUS
<1>2. /\ Tail(stack) \in Seq(Seq(S)) /\ Len(Tail(stack)) = Len(stack) - 1
      /\ \A j \in 1..Len(Tail(stack)) : Tail(stack)[j] = stack[j + 1]
  OBVIOUS
<1>3. ASSUME NEW i \in 1..Len(stack), i # 1
      PROVE  Probe!ToSet(stack[i]) \subseteq InParts(Tail(stack))
  <2>1. i - 1 \in 1..Len(Tail(stack)) /\ (i - 1) + 1 = i BY <1>1, <1>2, <1>3
  <2>2. Tail(stack)[i - 1] = stack[i] BY <1>2, <2>1
  <2> QED BY <2>1, <2>2 DEF InParts
<1>4. InParts(stack) \subseteq Probe!ToSet(Head(stack)) \cup InParts(Tail(stack))
  <2> SUFFICES ASSUME NEW i \in 1..Len(stack)
               PROVE  Probe!ToSet(stack[i]) \subseteq
                          Probe!ToSet(Head(stack)) \cup InParts(Tail(stack))
    BY DEF InParts
  <2> QED BY <1>1, <1>3
<1> QED BY <1>1, <1>2, <1>4

LEMMA PutOn ==
    ASSUME NEW S, NEW stack \in Seq(Seq(S)), NEW a \in Seq(S), NEW b \in Seq(S)
    PROVE  /\ <<a, b>> \o stack \in Seq(Seq(S)) /\ <<a>> \in Seq(Seq(S))
           /\ Probe!ToSet(a) \cup Probe!ToSet(b) \cup InParts(stack) \subseteq
                InParts(<<a, b>> \o stack)
           /\ Probe!ToSet(a) \subseteq InParts(<<a>>)
<1> DEFINE all == <<a, b>> \o stack
<1>1. <<a, b>> \in Seq(Seq(S)) /\ Len(<<a, b>>) = 2 OBVIOUS
<1>2. /\ all \in Seq(Seq(S)) /\ Len(all) = Len(stack) + 2 /\ all[1] = a /\ all[2] = b
      /\ \A i \in 1..Len(stack) : all[i + 2] = stack[i]
  BY <1>1
<1> HIDE DEF all
<1>3. Len(stack) \in Nat OBVIOUS
<1>4. Probe!ToSet(a) \subseteq InParts(all) /\ Probe!ToSet(b) \subseteq InParts(all)
  <2>1. 1 \in 1..Len(all) /\ 2 \in 1..Len(all) BY <1>2, <1>3
  <2> QED BY <1>2, <2>1 DEF InParts
<1>5. InParts(stack) \subseteq InParts(all)
  <2> SUFFICES ASSUME NEW i \in 1..Len(stack) PROVE Probe!ToSet(stack[i]) \subseteq InParts(all)
    BY DEF InParts
  <2>1. i + 2 \in 1..Len(all) BY <1>2, <1>3
  <2>2. all[i + 2] = stack[i] BY <1>2
  <2> QED BY <2>1, <2>2 DEF InParts
<1>6. Probe!ToSet(a) \subseteq InParts(<<a>>)
  <2>1. <<a>>[1] = a /\ 1 \in 1..Len(<<a>>) OBVIOUS
  <2> QED BY <2>1 DEF InParts
<1>7. <<a>> \in Seq(Seq(S)) OBVIOUS
<1> QED BY <1>2, <1>4, <1>5, <1>6, <1>7 DEF all

LEMMA NoParts == InParts(<<>>) = {}
BY DEF InParts

\* The halves of a part are all of it.
LEMMA HalvesOfPart ==
    ASSUME NEW S, NEW chunk \in Seq(S)
    PROVE  /\ Probe!Halves(chunk)[1] \in Seq(S) /\ Probe!Halves(chunk)[2] \in Seq(S)
           /\ Probe!Halves(chunk) = <<Probe!Halves(chunk)[1], Probe!Halves(chunk)[2]>>
           /\ Probe!ToSet(chunk) =
                Probe!ToSet(Probe!Halves(chunk)[1]) \cup Probe!ToSet(Probe!Halves(chunk)[2])
<1> DEFINE middle == Len(chunk) \div 2
<1>1. middle \in 0..Len(chunk)
  <2>1. Len(chunk) \in Nat OBVIOUS
  <2> QED BY <2>1
<1>2. Probe!Halves(chunk) = <<SubSeq(chunk, 1, middle), SubSeq(chunk, middle + 1, Len(chunk))>>
  BY DEF Probe!Halves
<1> DEFINE a == SubSeq(chunk, 1, middle)
           b == SubSeq(chunk, middle + 1, Len(chunk))
<1> HIDE DEF middle
<1>3. a \in Seq(S) /\ b \in Seq(S) /\ Probe!ToSet(chunk) = Probe!ToSet(a) \cup Probe!ToSet(b)
  BY <1>1, CutInTwo
<1>4. Probe!Halves(chunk) = <<a, b>> BY <1>2
<1> HIDE DEF a, b
<1> QED BY <1>3, <1>4

-----------------------------------------------------------------------------
(* Verdicts *)

LEMMA VerdictsOf ==
    ASSUME NEW nodes, NEW verdict, DOMAIN results \subseteq Probe!Nodes,
           \A n \in DOMAIN results : results[n] \in Probe!Verdicts,
           nodes \subseteq Probe!Nodes, verdict \in Probe!Verdicts
    PROVE  /\ DOMAIN Probe!With(nodes, verdict) = DOMAIN results \cup nodes
           /\ \A n \in DOMAIN Probe!With(nodes, verdict) :
                 n \in Probe!Nodes /\ Probe!With(nodes, verdict)[n] \in Probe!Verdicts
           /\ \A n \in DOMAIN Probe!With(nodes, verdict) :
                 Probe!With(nodes, verdict)[n] = IF n \in nodes THEN verdict ELSE results[n]
BY DEF Probe!With

-----------------------------------------------------------------------------

LEMMA InitProbe == ASSUME Probe!ProbeAssumption, Probe!Init PROVE ProbeInv
<1> DEFINE whole == [n \in Probe!Nodes |-> n]
<1>1. Count \in Nat BY DEF Probe!ProbeAssumption
<1>2. whole \in Seq(Probe!Nodes) /\ Len(whole) = Count /\ \A n \in Probe!Nodes : whole[n] = n
  BY <1>1 DEF Probe!Nodes
<1>3. rest \in Seq(Probe!Nodes) /\ Probe!Nodes \subseteq Probe!ToSet(rest)
  <2>1. rest = whole BY DEF Probe!Init
  <2> HIDE DEF whole
  <2>2. Probe!ToSet(rest) = {rest[i] : i \in 1..Count} BY <1>2, <2>1, SetOf
  <2> QED BY <1>2, <2>1, <2>2 DEF Probe!Nodes
<1>4. Probe!TypeOK
  <2>1. DOMAIN results = {} BY DEF Probe!Init
  <2>2. 0 \in 0..Attempts BY DEF Probe!ProbeAssumption
  <2> QED BY <2>1, <2>2 DEF Probe!Init, Probe!TypeOK, Probe!Stages
<1>5. ProbeTypes BY <1>3, <1>4 DEF Probe!Init, ProbeTypes
<1> QED BY <1>3, <1>5 DEF Probe!Init, ProbeInv, NobodyForgotten, JustVerdicts, BatchOver,
           Probe!OneEngine

LEMMA NextBatchKeeps == ASSUME Probe!ProbeAssumption, ProbeInv, Probe!NextBatch PROVE ProbeInv'
<1> DEFINE size == Probe!Shorter(BatchSize, Len(rest))
           first == SubSeq(rest, 1, size)
<1>1. ProbeTypes /\ NobodyForgotten /\ JustVerdicts /\ BatchOver /\ Probe!OneEngine
  BY DEF ProbeInv
<1>2. rest \in Seq(Probe!Nodes) /\ size \in 0..Len(rest)
  BY <1>1 DEF ProbeTypes, Probe!ProbeAssumption, Probe!Shorter
<1>3. chunks' = <<first>> /\ rest' = SubSeq(rest, size + 1, Len(rest)) BY DEF Probe!NextBatch
<1> HIDE DEF size
<1>4. /\ first \in Seq(Probe!Nodes) /\ rest' \in Seq(Probe!Nodes)
      /\ Probe!ToSet(rest) = Probe!ToSet(first) \cup Probe!ToSet(rest')
  BY <1>2, <1>3, CutInTwo
<1> HIDE DEF first
<1>5. chunks' \in Seq(Seq(Probe!Nodes)) /\ Probe!ToSet(first) \subseteq InParts(chunks')
  <2>1. <<>> \in Seq(Seq(Probe!Nodes)) OBVIOUS
  <2> QED BY <1>3, <1>4, <2>1, PutOn
<1>6. ProbeTypes'
  <2>1. Probe!TypeOK' BY <1>1 DEF ProbeTypes, Probe!TypeOK, Probe!NextBatch, Probe!Stages,
                         Probe!ProbeAssumption, Probe!Nodes, Probe!Verdicts
  <2>2. valid' = <<>> /\ asked' = 0 /\ valid' \in Seq(Probe!Nodes') /\ asked' \in 0..Len(valid')
    BY DEF Probe!NextBatch
  <2>3. stage' = "isolate" BY DEF Probe!NextBatch
  <2> QED BY <1>4, <1>5, <2>1, <2>2, <2>3 DEF ProbeTypes, Probe!Nodes
<1>7. NobodyForgotten'
  <2>1. InParts(chunks) = {} BY <1>1, NoParts DEF BatchOver, Probe!NextBatch
  <2>2. Unasked = {} BY <1>1 DEF BatchOver, Probe!NextBatch, Unasked, ProbeTypes
  <2>3. results' = results BY DEF Probe!NextBatch
  <2> QED BY <1>1, <1>4, <1>5, <2>1, <2>2, <2>3 DEF NobodyForgotten, Probe!Nodes
<1>8. JustVerdicts' BY <1>1 DEF JustVerdicts, Probe!NextBatch
<1>9. BatchOver' BY <1>1 DEF BatchOver, Probe!NextBatch, Probe!OneEngine
<1>10. Probe!OneEngine' BY <1>1 DEF Probe!OneEngine, Probe!NextBatch
<1> QED BY <1>6, <1>7, <1>8, <1>9, <1>10 DEF ProbeInv

\* The steps that move no node.
LEMMA StillKeeps ==
    ASSUME ProbeInv, UNCHANGED <<rejected, rest, chunks, valid, asked, results>>,
           Probe!TypeOK', stage' = "start" /\ engine' = "test" => attempt' < Attempts,
           BatchOver', Probe!OneEngine'
    PROVE  ProbeInv'
<1>1. ProbeTypes /\ NobodyForgotten /\ JustVerdicts BY DEF ProbeInv
<1>2. ProbeTypes' BY <1>1 DEF ProbeTypes, Probe!Nodes
<1>3. NobodyForgotten' BY <1>1 DEF NobodyForgotten, InParts, Unasked, Probe!Nodes, Probe!ToSet
<1>4. JustVerdicts' BY <1>1 DEF JustVerdicts
<1> QED BY <1>2, <1>3, <1>4 DEF ProbeInv

LEMMA QuietSteps ==
    ASSUME Probe!ProbeAssumption, ProbeInv,
           Probe!Return \/ Probe!Validate \/ Probe!Isolated \/ Probe!Start \/ Probe!Answered
               \/ Probe!Raise \/ Probe!Close \/ Probe!Kill
    PROVE  ProbeInv'
<1>1. ProbeTypes /\ Probe!TypeOK /\ BatchOver /\ Probe!OneEngine BY DEF ProbeInv, ProbeTypes
<1> USE DEF Probe!batch
<1>2. ASSUME UNCHANGED <<rejected, rest, chunks, valid, asked, results, attempt>>,
             stage' \in Probe!Stages, engine' \in {"none", "test", "running"}, work' \in BOOLEAN
      PROVE  Probe!TypeOK'
  BY <1>1, <1>2 DEF Probe!TypeOK, Probe!Nodes, Probe!Verdicts, Probe!Stages
<1>3. CASE Probe!Return
  <2>1. Probe!TypeOK' BY <1>1, <1>2, <1>3 DEF Probe!Return, Probe!TypeOK, Probe!Stages
  <2> QED BY <1>1, <1>3, <2>1, StillKeeps DEF Probe!Return, BatchOver, Probe!OneEngine
<1>4. CASE Probe!Validate
  <2>1. Probe!TypeOK' BY <1>1, <1>2, <1>4 DEF Probe!Validate, Probe!TypeOK, Probe!Stages
  <2> QED BY <1>1, <1>4, <2>1, StillKeeps DEF Probe!Validate, BatchOver, Probe!OneEngine
<1>5. CASE Probe!Isolated
  <2>1. Probe!TypeOK' BY <1>1, <1>2, <1>5 DEF Probe!Isolated, Probe!TypeOK, Probe!Stages
  <2>2. BatchOver'
    <3>1. valid = <<>> => Len(valid) = 0 OBVIOUS
    <3> QED BY <1>1, <1>5, <3>1 DEF Probe!Isolated, BatchOver
  <2> QED BY <1>1, <1>5, <2>1, <2>2, StillKeeps DEF Probe!Isolated, Probe!OneEngine
<1>6. CASE Probe!Start
  <2>1. attempt \in 0..Attempts /\ attempt < Attempts /\ Attempts \in Nat
    BY <1>1, <1>6 DEF Probe!Start, ProbeTypes, Probe!TypeOK, Probe!ProbeAssumption
  <2>2. attempt' \in 0..Attempts BY <1>6, <2>1 DEF Probe!Start
  <2>4. /\ engine' \in {"none", "running"} /\ stage = "start"
        /\ stage' \in {"start", "ask", "fail"}
        /\ engine' = "running" => stage' \in {"ask", "fail"}
        /\ stage' = "ask" => engine' = "running"
    BY <1>6 DEF Probe!Start
  <2>5. Probe!TypeOK'
    BY <1>1, <1>6, <2>2, <2>4 DEF Probe!Start, Probe!TypeOK, Probe!Stages, Probe!Nodes,
       Probe!Verdicts
  <2>6. BatchOver' BY <1>1, <1>6, <2>4 DEF Probe!Start, BatchOver
  <2> QED BY <1>1, <1>6, <2>4, <2>5, <2>6, StillKeeps DEF Probe!Start, Probe!OneEngine
<1>7. CASE Probe!Answered
  <2>1. Probe!TypeOK' BY <1>1, <1>2, <1>7 DEF Probe!Answered, Probe!TypeOK, Probe!Stages
  <2> QED BY <1>1, <1>7, <2>1, StillKeeps DEF Probe!Answered, BatchOver, Probe!OneEngine
<1>8. CASE Probe!Raise
  <2>1. Probe!TypeOK' BY <1>1, <1>2, <1>8 DEF Probe!Raise, Probe!TypeOK, Probe!Stages
  <2> QED BY <1>1, <1>8, <2>1, StillKeeps DEF Probe!Raise, BatchOver, Probe!OneEngine
<1>9. CASE Probe!Close
  <2>1. PICK stopped \in BOOLEAN, removed \in BOOLEAN :
          /\ engine = "none" => stopped
          /\ engine' = IF stopped THEN "none" ELSE engine
          /\ work' = ~removed
          /\ stage' = IF stage = "close" /\ stopped /\ removed THEN "next" ELSE "failed"
    BY <1>9 DEF Probe!Close
  <2>2. /\ stage' \in {"next", "failed"} /\ stage \in {"close", "fail"}
        /\ stage' = "next" => engine' = "none" /\ ~work' /\ stage = "close"
        /\ engine' \in {engine, "none"} /\ work' \in BOOLEAN
    BY <1>9, <2>1 DEF Probe!Close
  <2>3. Probe!TypeOK'
    BY <1>1, <1>2, <1>9, <2>2 DEF Probe!Close, Probe!TypeOK, Probe!Stages
  <2> QED BY <1>1, <1>9, <2>2, <2>3, StillKeeps DEF Probe!Close, BatchOver, Probe!OneEngine
<1>10. CASE Probe!Kill
  <2>1. Probe!TypeOK' BY <1>1, <1>2, <1>10 DEF Probe!Kill, Probe!TypeOK, Probe!Stages
  <2> QED BY <1>1, <1>10, <2>1, StillKeeps DEF Probe!Kill, BatchOver, Probe!OneEngine
<1> QED BY <1>3, <1>4, <1>5, <1>6, <1>7, <1>8, <1>9, <1>10

\* Verdicts are added, and what they were about is no longer before the check.
LEMMA JudgingKeeps ==
    ASSUME ProbeInv, NEW nodes \in SUBSET Probe!Nodes, NEW verdict \in Probe!Verdicts,
           results' = Probe!With(nodes, verdict), rejected' = rejected, rest' = rest, work' = work,
           \A n \in nodes : (verdict = "unsupported") = (n \in rejected)
    PROVE  /\ \A n \in DOMAIN results' : n \in Probe!Nodes /\ results'[n] \in Probe!Verdicts
           /\ \A n \in DOMAIN results' : (results'[n] = "unsupported") = (n \in rejected)
           /\ DOMAIN results' = DOMAIN results \cup nodes
<1>1. /\ DOMAIN results \subseteq Probe!Nodes
      /\ \A n \in DOMAIN results : results[n] \in Probe!Verdicts
      /\ \A n \in DOMAIN results : (results[n] = "unsupported") = (n \in rejected)
  BY DEF ProbeInv, ProbeTypes, Probe!TypeOK, JustVerdicts
<1>2. /\ DOMAIN results' = DOMAIN results \cup nodes
      /\ \A n \in DOMAIN results' : n \in Probe!Nodes /\ results'[n] \in Probe!Verdicts
      /\ \A n \in DOMAIN results' : results'[n] = IF n \in nodes THEN verdict ELSE results[n]
  <2> DEFINE all == Probe!With(nodes, verdict)
  <2>1. /\ DOMAIN all = DOMAIN results \cup nodes
        /\ \A n \in DOMAIN all : n \in Probe!Nodes /\ all[n] \in Probe!Verdicts
        /\ \A n \in DOMAIN all : all[n] = IF n \in nodes THEN verdict ELSE results[n]
    BY <1>1, VerdictsOf
  <2>2. results' = all OBVIOUS
  <2> HIDE DEF all
  <2> QED BY <2>1, <2>2
<1> QED BY <1>1, <1>2

LEMMA IsolateKeeps == ASSUME ProbeInv, Probe!Isolate PROVE ProbeInv'
<1> DEFINE chunk == Head(chunks)
<1>1. ProbeTypes /\ Probe!TypeOK /\ NobodyForgotten /\ JustVerdicts /\ BatchOver /\ Probe!OneEngine
  BY DEF ProbeInv, ProbeTypes
<1>2. /\ stage = "isolate" /\ stage' = stage /\ engine' = "none" /\ asked = 0 /\ asked' = 0
      /\ UNCHANGED <<rejected, rest, attempt, work>>
  BY <1>1 DEF Probe!Isolate, BatchOver
<1>3. chunks \in Seq(Seq(Probe!Nodes)) /\ valid \in Seq(Probe!Nodes) BY <1>1 DEF ProbeTypes
<1>4. chunks # <<>> BY <1>1 DEF Probe!Isolate, BatchOver
<1>5. /\ chunk \in Seq(Probe!Nodes) /\ Tail(chunks) \in Seq(Seq(Probe!Nodes))
      /\ InParts(chunks) \subseteq Probe!ToSet(chunk) \cup InParts(Tail(chunks))
  BY <1>3, <1>4, TakenOff
<1>6. BatchOver' /\ Probe!OneEngine' BY <1>1, <1>2 DEF BatchOver, Probe!OneEngine
<1>7. /\ Probe!ToSet(chunk) \subseteq Probe!Nodes
      /\ Probe!ToSet(chunk) = {chunk[i] : i \in 1..Len(chunk)}
      /\ Len(chunk) \in Nat
  BY <1>5, SetOf
<1>8. /\ rejected \subseteq Probe!Nodes /\ attempt \in 0..Attempts /\ work \in BOOLEAN
      /\ stage \in Probe!Stages
      /\ DOMAIN results \subseteq Probe!Nodes
      /\ \A n \in DOMAIN results : results[n] \in Probe!Verdicts
  BY <1>1 DEF Probe!TypeOK
<1>9. \A i \in 1..Len(valid) : valid[i] \notin rejected BY <1>1 DEF JustVerdicts
<1>10. Probe!Nodes \subseteq DOMAIN results \cup InParts(chunks) \cup Unasked \cup Probe!ToSet(rest)
  BY <1>1 DEF NobodyForgotten
<1>11. CASE /\ Probe!Loads(chunk) /\ valid' = valid \o chunk /\ chunks' = Tail(chunks)
            /\ results' = results
  <2>1. valid' \in Seq(Probe!Nodes) /\ Len(valid') = Len(valid) + Len(chunk)
        /\ (\A i \in 1..Len(valid) : valid'[i] = valid[i])
        /\ (\A i \in 1..Len(chunk) : valid'[Len(valid) + i] = chunk[i])
    BY <1>3, <1>5, <1>11
  <2>2. Len(valid) \in Nat BY <1>3
  <2>3. ASSUME NEW i \in 1..Len(valid') PROVE valid'[i] \notin rejected
    <3>1. CASE i <= Len(valid) BY <1>9, <2>1, <2>2, <3>1
    <3>2. CASE i > Len(valid)
      <4>1. i - Len(valid) \in 1..Len(chunk) /\ Len(valid) + (i - Len(valid)) = i
        BY <1>7, <2>1, <2>2, <3>2
      <4>2. valid'[i] = chunk[i - Len(valid)] BY <2>1, <4>1
      <4> QED BY <1>7, <1>11, <4>1, <4>2 DEF Probe!Loads
    <3> QED BY <2>2, <3>1, <3>2
  <2>4. Unasked' = {valid'[i] : i \in 1..Len(valid')} BY <1>2 DEF Unasked
  <2>5. Unasked \subseteq Unasked'
    <3>1. Unasked = {valid[i] : i \in 1..Len(valid)} BY <1>2 DEF Unasked
    <3>2. ASSUME NEW i \in 1..Len(valid) PROVE valid[i] \in Unasked'
      <4>1. i \in 1..Len(valid') BY <1>7, <2>1, <2>2
      <4> QED BY <2>1, <2>4, <4>1
    <3> QED BY <3>1, <3>2
  <2>6. Probe!ToSet(chunk) \subseteq Unasked'
    <3>1. ASSUME NEW i \in 1..Len(chunk) PROVE chunk[i] \in Unasked'
      <4>1. Len(valid) + i \in 1..Len(valid') BY <1>7, <2>1, <2>2
      <4> QED BY <2>1, <2>4, <4>1
    <3> QED BY <1>7, <3>1
  <2>7. ProbeTypes'
    <3>1. Probe!TypeOK' BY <1>2, <1>8, <1>11 DEF Probe!TypeOK, Probe!Nodes
    <3>2. 0 \in 0..Len(valid') BY <1>7, <2>1, <2>2
    <3> QED BY <1>1, <1>2, <1>5, <1>11, <2>1, <3>1, <3>2 DEF ProbeTypes, Probe!Nodes
  <2>8. NobodyForgotten'
    <3>1. InParts(chunks)' = InParts(chunks') /\ Probe!ToSet(rest)' = Probe!ToSet(rest)
      BY <1>2 DEF InParts
    <3> QED BY <1>5, <1>10, <1>11, <2>5, <2>6, <3>1 DEF NobodyForgotten, Probe!Nodes
  <2>9. JustVerdicts' BY <1>1, <1>2, <1>11, <2>3 DEF JustVerdicts
  <2> QED BY <1>6, <2>7, <2>8, <2>9 DEF ProbeInv
<1>12. CASE /\ ~Probe!Loads(chunk) /\ Len(chunk) = 1 /\ chunks' = Tail(chunks) /\ valid' = valid
            /\ results' = Probe!With(Probe!ToSet(chunk), "unsupported")
  <2>1. \A n \in Probe!ToSet(chunk) : n \in rejected BY <1>7, <1>12 DEF Probe!Loads
  <2>2. /\ \A n \in DOMAIN results' : n \in Probe!Nodes /\ results'[n] \in Probe!Verdicts
        /\ \A n \in DOMAIN results' : (results'[n] = "unsupported") = (n \in rejected)
        /\ DOMAIN results' = DOMAIN results \cup Probe!ToSet(chunk)
    BY <1>2, <1>7, <1>12, <2>1, JudgingKeeps DEF Probe!Verdicts
  <2>3. ProbeTypes'
    <3>1. Probe!TypeOK' BY <1>2, <1>8, <2>2 DEF Probe!TypeOK, Probe!Nodes, Probe!Verdicts
    <3> QED BY <1>1, <1>2, <1>5, <1>12, <3>1 DEF ProbeTypes, Probe!Nodes
  <2>4. NobodyForgotten'
    <3>1. Unasked' = Unasked BY <1>2, <1>12 DEF Unasked
    <3>2. InParts(chunks)' = InParts(chunks') /\ Probe!ToSet(rest)' = Probe!ToSet(rest)
      BY <1>2 DEF InParts
    <3> QED BY <1>5, <1>10, <1>12, <2>2, <3>1, <3>2 DEF NobodyForgotten, Probe!Nodes
  <2>5. JustVerdicts' BY <1>2, <1>9, <1>12, <2>2 DEF JustVerdicts
  <2> QED BY <1>6, <2>3, <2>4, <2>5 DEF ProbeInv
<1>13. CASE chunks' = Probe!Halves(chunk) \o Tail(chunks) /\ valid' = valid /\ results' = results
  <2>1. PICK a \in Seq(Probe!Nodes), b \in Seq(Probe!Nodes) :
          Probe!Halves(chunk) = <<a, b>> /\ Probe!ToSet(chunk) = Probe!ToSet(a) \cup Probe!ToSet(b)
    <3> DEFINE a == Probe!Halves(chunk)[1]
               b == Probe!Halves(chunk)[2]
    <3>1. /\ a \in Seq(Probe!Nodes) /\ b \in Seq(Probe!Nodes) /\ Probe!Halves(chunk) = <<a, b>>
          /\ Probe!ToSet(chunk) = Probe!ToSet(a) \cup Probe!ToSet(b)
      BY <1>5, HalvesOfPart
    <3> HIDE DEF a, b
    <3> QED BY <3>1
  <2>2. /\ chunks' \in Seq(Seq(Probe!Nodes))
        /\ Probe!ToSet(chunk) \cup InParts(Tail(chunks)) \subseteq InParts(chunks')
    BY <1>5, <1>13, <2>1, PutOn
  <2>3. ProbeTypes'
    <3>1. Probe!TypeOK' BY <1>2, <1>8, <1>13 DEF Probe!TypeOK, Probe!Nodes
    <3> QED BY <1>1, <1>2, <1>13, <2>2, <3>1 DEF ProbeTypes, Probe!Nodes
  <2>4. NobodyForgotten'
    <3>1. Unasked' = Unasked BY <1>2, <1>13 DEF Unasked
    <3>2. InParts(chunks)' = InParts(chunks') /\ Probe!ToSet(rest)' = Probe!ToSet(rest)
      BY <1>2 DEF InParts
    <3> QED BY <1>5, <1>10, <1>13, <2>2, <3>1, <3>2 DEF NobodyForgotten, Probe!Nodes
  <2>5. JustVerdicts' BY <1>1, <1>2, <1>13 DEF JustVerdicts
  <2> QED BY <1>6, <2>3, <2>4, <2>5 DEF ProbeInv
<1> QED BY <1>11, <1>12, <1>13 DEF Probe!Isolate

LEMMA AskKeeps == ASSUME ProbeInv, Probe!Ask PROVE ProbeInv'
<1>1. ProbeTypes /\ Probe!TypeOK /\ NobodyForgotten /\ JustVerdicts /\ BatchOver /\ Probe!OneEngine
  BY DEF ProbeInv, ProbeTypes
<1>2. /\ asked' = asked + 1 /\ asked \in Nat /\ Len(valid) \in Nat /\ asked' \in 1..Len(valid)
      /\ UNCHANGED <<rejected, stage, rest, chunks, valid, attempt, engine, work>> /\ stage = "ask"
  BY <1>1 DEF Probe!Ask, ProbeTypes
<1>3. valid[asked'] \in Probe!Nodes /\ valid[asked'] \notin rejected
  BY <1>1, <1>2 DEF ProbeTypes, JustVerdicts
<1>4. PICK verdict \in {"success", "failure"} : results' = Probe!With({valid[asked']},
  verdict) BY DEF Probe!Ask
<1>5. /\ \A n \in DOMAIN results' : n \in Probe!Nodes /\ results'[n] \in Probe!Verdicts
      /\ \A n \in DOMAIN results' : (results'[n] = "unsupported") = (n \in rejected)
      /\ DOMAIN results' = DOMAIN results \cup {valid[asked']}
  <2> DEFINE node == valid[asked']
  <2>1. /\ {node} \in SUBSET Probe!Nodes /\ node \notin rejected
        /\ results' = Probe!With({node}, verdict)
    BY <1>3, <1>4
  <2> HIDE DEF node
  <2>2. /\ verdict \in Probe!Verdicts
        /\ \A n \in {node} : (verdict = "unsupported") = (n \in rejected)
    BY <2>1 DEF Probe!Verdicts
  <2>3. /\ \A n \in DOMAIN results' : n \in Probe!Nodes /\ results'[n] \in Probe!Verdicts
        /\ \A n \in DOMAIN results' : (results'[n] = "unsupported") = (n \in rejected)
        /\ DOMAIN results' = DOMAIN results \cup {node}
    BY <1>2, <2>1, <2>2, JudgingKeeps
  <2> QED BY <2>3 DEF node
<1>6. ProbeTypes'
  <2>1. Probe!TypeOK' BY <1>1, <1>2, <1>5 DEF Probe!TypeOK, Probe!Nodes, Probe!Verdicts
  <2> QED BY <1>1, <1>2, <2>1 DEF ProbeTypes, Probe!Nodes
<1>7. NobodyForgotten'
  <2>1. Unasked \subseteq Unasked' \cup {valid[asked']}
    <3>1. (asked + 1)..Len(valid) = (asked' + 1)..Len(valid) \cup {asked'} BY <1>2
    <3> QED BY <1>2, <3>1 DEF Unasked
  <2>2. InParts(chunks)' = InParts(chunks) /\ Probe!ToSet(rest)' = Probe!ToSet(rest)
    BY <1>2 DEF InParts
  <2> QED BY <1>1, <1>5, <2>1, <2>2 DEF NobodyForgotten, Probe!Nodes
<1>8. JustVerdicts' BY <1>1, <1>2, <1>5 DEF JustVerdicts
<1>9. BatchOver' /\ Probe!OneEngine' BY <1>1, <1>2 DEF BatchOver, Probe!OneEngine
<1> QED BY <1>6, <1>7, <1>8, <1>9 DEF ProbeInv

LEMMA StepKeepsProbe ==
    ASSUME Probe!ProbeAssumption, ProbeInv, [Probe!Next]_(Probe!vars) PROVE ProbeInv'
<1>1. CASE Probe!NextBatch BY <1>1, NextBatchKeeps
<1>2. CASE Probe!Isolate BY <1>2, IsolateKeeps
<1>3. CASE Probe!Ask BY <1>3, AskKeeps
<1>4. CASE Probe!Return \/ Probe!Validate \/ Probe!Isolated \/ Probe!Start \/ Probe!Answered
           \/ Probe!Raise \/ Probe!Close \/ Probe!Kill
  BY <1>4, QuietSteps
<1>5. CASE UNCHANGED Probe!vars
  <2>1. Probe!TypeOK' BY <1>5 DEF ProbeInv, ProbeTypes, Probe!TypeOK, Probe!vars, Probe!Nodes,
                         Probe!Stages, Probe!Verdicts
  <2>2. BatchOver' /\ Probe!OneEngine' BY <1>5 DEF ProbeInv, BatchOver, Probe!OneEngine,
                                          Probe!vars
  <2> QED BY <1>5, <2>1, <2>2, StillKeeps DEF Probe!vars, ProbeInv, ProbeTypes
<1> QED BY <1>1, <1>2, <1>3, <1>4, <1>5 DEF Probe!Next

LEMMA JudgedAtLast == ASSUME ProbeInv PROVE Probe!EveryNodeJudged
<1> SUFFICES ASSUME stage = "done"
             PROVE  /\ DOMAIN results = Probe!Nodes
                    /\ \A n \in Probe!Nodes : (results[n] = "unsupported") = (n \in rejected)
    BY DEF Probe!EveryNodeJudged
<1>1. chunks = <<>> /\ asked = Len(valid) /\ rest = <<>> BY DEF ProbeInv, BatchOver
<1>2. InParts(chunks) = {} /\ Probe!ToSet(rest) = {} BY <1>1, NoParts, SetOf DEF ProbeInv,
                                                        ProbeTypes
<1>3. Unasked = {} BY <1>1 DEF ProbeInv, ProbeTypes, Unasked
<1>4. DOMAIN results = Probe!Nodes BY <1>2, <1>3 DEF ProbeInv, NobodyForgotten, ProbeTypes,
                                      Probe!TypeOK
<1> QED BY <1>4 DEF ProbeInv, JustVerdicts

\* A check that returns has judged every node, and called exactly those unsupported
\* that the engine rejects by themselves, for any number of nodes, any size of the
\* batches and whatever is rejected; and one engine runs at a time
\* (run, run_batch and isolate of core/mihomo_probe.py).
THEOREM EveryCheckJudges ==
    ASSUME Probe!ProbeAssumption
    PROVE  Probe!Spec => [](Probe!TypeOK /\ Probe!EveryNodeJudged /\ Probe!OneEngine)
<1>1. Probe!Init => ProbeInv BY InitProbe
<1>2. ProbeInv /\ [Probe!Next]_(Probe!vars) => ProbeInv' BY StepKeepsProbe
<1>3. ProbeInv => Probe!TypeOK /\ Probe!EveryNodeJudged /\ Probe!OneEngine
  BY JudgedAtLast DEF ProbeInv, ProbeTypes
<1> QED BY <1>1, <1>2, <1>3, PTL DEF Probe!Spec

-----------------------------------------------------------------------------
(* GeoStore: a lookup answers from a pair.  AnswersFromAPair is not inductive: a  *)
(* reader with the lock keeps the writers out between its reads; one without it   *)
(* began before the first upload, so whatever the settings name when it reads     *)
(* them, an upload or a restore put beside its database while it was reading.     *)
\* Nothing was ever uploaded before there is a lock file.
NothingBeforeLock == ~locked => database = None /\ settings = None /\ writer = Geo!AtRest

\* A reader with the lock has no writer beside it, and what it read is still there.
ReaderExcludes ==
    Geo!Reading /\ reader.lock =>
        /\ writer = Geo!AtRest /\ locked
        /\ database = settings => database \in pairs
        /\ reader.mode = "settings" => reader.raw = database

\* Before the settings are replaced the database is the new one.
NewIsThere == writer.mode = "settings" => database = writer.new

\* Beside a reader without the lock, settings only ever come from a pair, those
\* a failed upload would bring back included.
NamedFromAPair ==
    Geo!Reading /\ ~reader.lock =>
        settings \in pairs /\ (Geo!Held => writer.before[2] \in pairs)

PairInv ==
    /\ NothingBeforeLock /\ ReaderExcludes /\ NewIsThere /\ NamedFromAPair
    /\ Geo!AnswersFromAPair

LEMMA InitPairs == Geo!Init => PairInv
BY DEF Geo!Init, PairInv, NothingBeforeLock, ReaderExcludes, NewIsThere, NamedFromAPair,
       Geo!AnswersFromAPair, Geo!Reading, Geo!AtRest

\* A writer that works knows the new database and both files as they were.
WriterStates ==
    [mode: {"database", "settings", "undo database", "undo settings"}, new: Geo!Contents,
     before: Geo!Contents \X Geo!Contents]
GeoTypes == Geo!TypeOK /\ writer \in {Geo!AtRest} \cup WriterStates

\* The steps of a writer: what pairs held stays, a reader with the lock would
\* have kept the writer out, and settings come from a pair or were there before.
LEMMA WriterKeepsPairs ==
    ASSUME PairInv, locked' = locked, reader' = reader, Geo!Held, pairs \subseteq pairs',
           settings' \in {settings, writer.before[2]} \cup pairs',
           writer' = Geo!AtRest \/ writer'.before = writer.before,
           NewIsThere'
    PROVE  PairInv'
<1>1. locked BY DEF PairInv, NothingBeforeLock, Geo!Held
<1>2. ~(Geo!Reading /\ reader.lock) BY DEF PairInv, ReaderExcludes, Geo!Held
<1>3. NothingBeforeLock' BY <1>1 DEF NothingBeforeLock
<1>4. ReaderExcludes' BY <1>2 DEF ReaderExcludes, Geo!Reading
<1>5. NamedFromAPair' BY DEF PairInv, NamedFromAPair, Geo!Reading, Geo!Held
<1>6. Geo!AnswersFromAPair' BY DEF PairInv, Geo!AnswersFromAPair
<1> QED BY <1>3, <1>4, <1>5, <1>6 DEF PairInv

\* A writer goes on with what it knows.
LEMMA StepKeepsWriter ==
    ASSUME GeoTypes, Geo!Held, NEW mode, Geo!Step(mode)
    PROVE  writer'.before = writer.before /\ writer'.new = writer.new /\ writer'.mode = mode
BY DEF GeoTypes, Geo!Held, Geo!Step, WriterStates

LEMMA StepKeepsPairs == GeoTypes /\ PairInv /\ [Geo!Next]_(Geo!vars) => PairInv'
<1> SUFFICES ASSUME GeoTypes, PairInv, [Geo!Next]_(Geo!vars) PROVE PairInv'
    OBVIOUS
<1>1. ASSUME NEW d \in Geo!Contents, Geo!Write(d) PROVE PairInv'
  <2>1. ~(Geo!Reading /\ reader.lock) BY <1>1 DEF Geo!Write
  <2>2. NothingBeforeLock' BY <1>1 DEF Geo!Write, NothingBeforeLock
  <2>3. ReaderExcludes' BY <1>1, <2>1 DEF Geo!Write, ReaderExcludes, Geo!Reading
  <2>4. NewIsThere' BY <1>1 DEF Geo!Write, NewIsThere
  <2>5. NamedFromAPair'
    <3>1. writer'.before[2] = settings BY <1>1 DEF Geo!Write, Geo!files
    <3> QED BY <1>1, <3>1 DEF Geo!Write, Geo!files, PairInv, NamedFromAPair, Geo!Reading
  <2>6. Geo!AnswersFromAPair' BY <1>1 DEF Geo!Write, PairInv, Geo!AnswersFromAPair
  <2> QED BY <2>2, <2>3, <2>4, <2>5, <2>6 DEF PairInv
<1>2. CASE Geo!ReplaceDatabase
  <2>1. Geo!Held BY <1>2 DEF Geo!ReplaceDatabase, Geo!Held, Geo!AtRest
  <2>2. writer'.before = writer.before /\ writer'.new = writer.new
    BY <1>2, <2>1, StepKeepsWriter DEF Geo!ReplaceDatabase
  <2>3. NewIsThere' BY <1>2, <2>2 DEF Geo!ReplaceDatabase, NewIsThere
  <2> QED BY <1>2, <2>1, <2>2, <2>3, WriterKeepsPairs DEF Geo!ReplaceDatabase
<1>3. CASE Geo!ReplaceSettings
  <2>1. Geo!Held BY <1>3 DEF Geo!ReplaceSettings, Geo!Held, Geo!AtRest
  <2>2. settings' \in pairs'
    BY <1>3 DEF Geo!ReplaceSettings, PairInv, NewIsThere, Geo!Paired
  <2>3. NewIsThere' BY <1>3 DEF Geo!ReplaceSettings, NewIsThere, Geo!AtRest
  <2> QED BY <1>3, <2>1, <2>2, <2>3, WriterKeepsPairs DEF Geo!ReplaceSettings
<1>4. CASE Geo!Fails
  <2>1. Geo!Held BY <1>4 DEF Geo!Fails
  <2>2. writer' = Geo!AtRest
        \/ (writer'.before = writer.before /\ writer'.mode \in {"undo database", "undo settings"})
    <3>1. \A mode : Geo!Step(mode) => writer'.before = writer.before /\ writer'.mode = mode
      BY <2>1, StepKeepsWriter
    <3> QED BY <1>4, <3>1 DEF Geo!Fails
  <2>3. NewIsThere' BY <2>2 DEF NewIsThere, Geo!AtRest
  <2>4. settings' = settings \/ settings' \in pairs'
    <3>1. CASE writer.mode = "settings"
      <4>1. database' = database /\ database = writer.new /\ settings' \in {settings, writer.new}
            /\ pairs' = pairs \cup Geo!Paired(database', settings')
        BY <1>4, <3>1 DEF Geo!Fails, PairInv, NewIsThere
      <4> QED BY <4>1 DEF Geo!Paired
    <3>2. CASE writer.mode # "settings" BY <1>4, <3>2 DEF Geo!Fails, Geo!files
    <3> QED BY <3>1, <3>2
  <2> QED BY <1>4, <2>1, <2>2, <2>3, <2>4, WriterKeepsPairs DEF Geo!Fails
<1>5. CASE Geo!Restore
  <2>1. writer.mode # "idle"
    <3>1. CASE writer.mode = "undo database" BY <3>1
    <3>2. CASE writer.mode = "undo settings" BY <3>2
    <3> QED BY <1>5, <3>1, <3>2 DEF Geo!Restore
  <2>2. Geo!Held BY <2>1 DEF Geo!Held, Geo!AtRest
  <2>3. writer' = Geo!AtRest
        \/ (writer'.before = writer.before /\ writer'.mode = "undo settings")
    <3>1. Geo!Step("undo settings") =>
             writer'.before = writer.before /\ writer'.mode = "undo settings"
      BY <2>2, StepKeepsWriter
    <3> QED BY <1>5, <3>1 DEF Geo!Restore
  <2>4. NewIsThere' BY <2>3 DEF NewIsThere, Geo!AtRest
  <2> QED BY <1>5, <2>2, <2>3, <2>4, WriterKeepsPairs DEF Geo!Restore
<1>6. CASE Geo!Kill
  <2>1. NewIsThere' BY <1>6 DEF Geo!Kill, NewIsThere, Geo!AtRest
  <2> QED BY <1>6, <2>1, WriterKeepsPairs DEF Geo!Kill, Geo!files
<1>7. ASSUME NEW readonly \in BOOLEAN, Geo!Lookup(readonly) PROVE PairInv'
  <2> DEFINE lock == locked \/ ~readonly
  <2>1. UNCHANGED <<database, settings, writer>> /\ pairs' = Geo!Paired(database, settings)
    BY <1>7 DEF Geo!Lookup, Geo!files
  <2>2. NewIsThere' BY <2>1 DEF PairInv, NewIsThere
  <2>3. CASE lock /\ Geo!Held
    <3>1. reader' = [mode |-> "unavailable"] /\ locked' = locked
      BY <1>7, <2>3 DEF Geo!Lookup
    <3>2. NothingBeforeLock' BY <2>1, <3>1 DEF PairInv, NothingBeforeLock
    <3> QED BY <2>2, <3>1, <3>2 DEF PairInv, ReaderExcludes, NamedFromAPair,
               Geo!AnswersFromAPair, Geo!Reading
  <2>4. CASE ~(lock /\ Geo!Held)
    <3>1. reader' = [mode |-> "database", lock |-> lock] /\ locked' = lock
      BY <1>7, <2>4 DEF Geo!Lookup
    <3>2. NothingBeforeLock' BY <2>1, <3>1 DEF PairInv, NothingBeforeLock
    <3>3. ReaderExcludes'
      BY <2>1, <2>4, <3>1 DEF ReaderExcludes, Geo!Held, Geo!Reading, Geo!Paired
    <3>4. ~lock => settings = database /\ writer = Geo!AtRest BY DEF PairInv, NothingBeforeLock
    <3>5. NamedFromAPair'
      BY <2>1, <3>1, <3>4 DEF NamedFromAPair, Geo!Held, Geo!Reading, Geo!Paired
    <3>6. Geo!AnswersFromAPair' BY <3>1 DEF Geo!AnswersFromAPair
    <3> QED BY <2>2, <3>2, <3>3, <3>5, <3>6 DEF PairInv
  <2> QED BY <2>3, <2>4
<1>8. CASE Geo!ReadDatabase
  <2>1. UNCHANGED <<database, settings, locked, writer, pairs>> /\ Geo!Reading
    BY <1>8 DEF Geo!ReadDatabase, Geo!files, Geo!Reading
  <2>2. reader' = [mode |-> "settings", lock |-> reader.lock, raw |-> database]
    BY <1>8 DEF Geo!ReadDatabase
  <2> QED BY <2>1, <2>2 DEF PairInv, NothingBeforeLock, ReaderExcludes, NewIsThere,
             NamedFromAPair, Geo!AnswersFromAPair, Geo!Reading, Geo!Held
<1>9. CASE Geo!Answer
  <2>1. UNCHANGED <<database, settings, locked, writer, pairs>> /\ Geo!Reading
        /\ reader.mode = "settings"
    BY <1>9 DEF Geo!Answer, Geo!files, Geo!Reading
  <2>2. reader'.mode \in {"done", "unavailable"} BY <1>9 DEF Geo!Answer
  <2>3. Geo!AnswersFromAPair'
    <3>1. CASE Geo!Matching(reader.raw, settings)
      <4>1. reader' = [mode |-> "done", raw |-> reader.raw] BY <1>9, <3>1 DEF Geo!Answer
      <4>2. reader.raw = settings BY <3>1 DEF Geo!Matching
      <4>3. reader.raw \in pairs
        BY <2>1, <4>2 DEF PairInv, ReaderExcludes, NamedFromAPair
      <4> QED BY <2>1, <4>1, <4>3 DEF Geo!AnswersFromAPair
    <3>2. CASE ~Geo!Matching(reader.raw, settings)
      BY <1>9, <3>2 DEF Geo!Answer, Geo!AnswersFromAPair
    <3> QED BY <3>1, <3>2
  <2> QED BY <2>1, <2>2, <2>3 DEF PairInv, NothingBeforeLock, ReaderExcludes, NewIsThere,
             NamedFromAPair, Geo!Reading
<1>10. CASE UNCHANGED Geo!vars
  BY <1>10 DEF Geo!vars, PairInv, NothingBeforeLock, ReaderExcludes, NewIsThere, NamedFromAPair,
     Geo!AnswersFromAPair, Geo!Reading, Geo!Held
<1> QED BY <1>1, <1>2, <1>3, <1>4, <1>5, <1>6, <1>7, <1>8, <1>9, <1>10 DEF Geo!Next

LEMMA StepKeepsGeoTypes ==
    ASSUME Geo!BoundsAssumption
    PROVE  GeoTypes /\ [Geo!Next]_(Geo!vars) => GeoTypes'
<1> SUFFICES ASSUME GeoTypes, [Geo!Next]_(Geo!vars) PROVE GeoTypes'
    OBVIOUS
<1>1. /\ database' \in Geo!Contents /\ settings' \in Geo!Contents
      /\ writer' \in {Geo!AtRest} \cup WriterStates
  <2>1. /\ database \in Geo!Contents /\ settings \in Geo!Contents
        /\ writer \in {Geo!AtRest} \cup WriterStates
    BY DEF GeoTypes, Geo!TypeOK
  <2>2. CASE UNCHANGED <<database, settings, writer>> BY <2>1, <2>2
  <2>3. ASSUME NEW d \in Geo!Contents, Geo!Write(d)
        PROVE  database' \in Geo!Contents /\ settings' \in Geo!Contents /\ writer' \in WriterStates
    BY <2>1, <2>3 DEF Geo!Write, Geo!files, WriterStates
  <2>4. ASSUME Geo!Held PROVE writer \in WriterStates BY <2>1, <2>4 DEF Geo!Held
  <2>5. ASSUME Geo!Held, NEW mode \in {"database", "settings", "undo database", "undo settings"},
               Geo!Step(mode)
        PROVE  writer' \in WriterStates
    BY <2>4, <2>5 DEF Geo!Step, WriterStates
  <2>6. CASE Geo!ReplaceDatabase
    <3>1. Geo!Held BY <2>6 DEF Geo!ReplaceDatabase, Geo!Held, Geo!AtRest
    <3> QED BY <2>1, <2>4, <2>5, <2>6, <3>1 DEF Geo!ReplaceDatabase, WriterStates
  <2>7. CASE Geo!ReplaceSettings
    <3>1. Geo!Held BY <2>7 DEF Geo!ReplaceSettings, Geo!Held, Geo!AtRest
    <3> QED BY <2>1, <2>4, <2>7, <3>1 DEF Geo!ReplaceSettings, WriterStates
  <2>8. CASE Geo!Fails
    <3>1. Geo!Held BY <2>8 DEF Geo!Fails
    <3>2. writer.new \in Geo!Contents BY <2>4, <3>1 DEF WriterStates
    <3>3. database' \in Geo!Contents /\ settings' \in Geo!Contents
      BY <2>1, <2>8, <3>2 DEF Geo!Fails, Geo!files
    <3>4. writer' \in {Geo!AtRest} \cup WriterStates BY <2>5, <2>8, <3>1 DEF Geo!Fails
    <3> QED BY <3>3, <3>4
  <2>9. CASE Geo!Restore
    <3>1. writer.mode # "idle"
      <4>1. CASE writer.mode = "undo database" BY <4>1
      <4>2. CASE writer.mode = "undo settings" BY <4>2
      <4> QED BY <2>9, <4>1, <4>2 DEF Geo!Restore
    <3>2. Geo!Held BY <3>1 DEF Geo!Held, Geo!AtRest
    <3>3. writer.before[1] \in Geo!Contents /\ writer.before[2] \in Geo!Contents
      BY <2>4, <3>2 DEF WriterStates
    <3> QED BY <2>1, <2>5, <2>9, <3>2, <3>3 DEF Geo!Restore
  <2>10. CASE Geo!Kill BY <2>1, <2>10 DEF Geo!Kill, Geo!files
  <2>11. UNCHANGED <<database, settings, writer>> \/ (\E d \in Geo!Contents : Geo!Write(d))
         \/ Geo!ReplaceDatabase \/ Geo!ReplaceSettings \/ Geo!Fails \/ Geo!Restore \/ Geo!Kill
    BY DEF Geo!Next, Geo!vars, Geo!Lookup, Geo!ReadDatabase, Geo!Answer, Geo!files
  <2> QED BY <2>2, <2>3, <2>6, <2>7, <2>8, <2>9, <2>10, <2>11
<1>2. locked' \in BOOLEAN
  <2>1. CASE locked' = locked BY <2>1 DEF GeoTypes, Geo!TypeOK
  <2>2. ASSUME NEW readonly \in BOOLEAN, Geo!Lookup(readonly) PROVE locked' \in BOOLEAN
    <3>1. locked' = locked \/ locked' = (locked \/ ~readonly) BY <2>2 DEF Geo!Lookup
    <3>2. locked \in BOOLEAN BY DEF GeoTypes, Geo!TypeOK
    <3> QED BY <3>1, <3>2
  <2>3. locked' = locked \/ locked' = TRUE \/ \E readonly \in BOOLEAN : Geo!Lookup(readonly)
    BY DEF Geo!Next, Geo!vars, Geo!Write, Geo!ReplaceDatabase, Geo!ReplaceSettings, Geo!Fails,
       Geo!Restore, Geo!Kill, Geo!ReadDatabase, Geo!Answer
  <2> QED BY <2>1, <2>2, <2>3
<1>3. reader'.mode \in {"idle", "database", "settings", "done", "unavailable"}
  <2>1. reader' = reader \/ (\E readonly \in BOOLEAN : Geo!Lookup(readonly))
        \/ Geo!ReadDatabase \/ Geo!Answer
    BY DEF Geo!Next, Geo!vars, Geo!Write, Geo!ReplaceDatabase, Geo!ReplaceSettings, Geo!Fails,
       Geo!Restore, Geo!Kill
  <2>2. ASSUME NEW readonly \in BOOLEAN, Geo!Lookup(readonly)
        PROVE  reader'.mode \in {"database", "unavailable"}
    BY <2>2 DEF Geo!Lookup
  <2>3. /\ Geo!Answer => reader'.mode \in {"done", "unavailable"}
        /\ Geo!ReadDatabase => reader'.mode = "settings"
    BY DEF Geo!Answer, Geo!ReadDatabase
  <2>4. reader.mode \in {"idle", "database", "settings", "done", "unavailable"}
    BY DEF GeoTypes, Geo!TypeOK
  <2> QED BY <2>1, <2>2, <2>3, <2>4
<1>4. writes' \in 0..MaxUploads
  <2>1. writes' = writes \/ (writes < MaxUploads /\ writes' = writes + 1)
    BY DEF Geo!Next, Geo!vars, Geo!Write, Geo!ReplaceDatabase, Geo!ReplaceSettings, Geo!Fails,
       Geo!Restore, Geo!Kill, Geo!Lookup, Geo!ReadDatabase, Geo!Answer
  <2>2. writes \in 0..MaxUploads /\ MaxUploads \in Nat BY DEF GeoTypes, Geo!TypeOK,
                                                          Geo!BoundsAssumption
  <2> QED BY <2>1, <2>2
<1>5. faults' \in 0..GeoFaults
  <2>1. faults' = faults \/ Geo!Fault
    BY DEF Geo!Next, Geo!vars, Geo!Write, Geo!ReplaceDatabase, Geo!ReplaceSettings, Geo!Fails,
       Geo!Restore, Geo!Kill, Geo!Lookup, Geo!ReadDatabase, Geo!Answer
  <2>2. faults \in 0..GeoFaults /\ GeoFaults \in Nat BY DEF GeoTypes, Geo!TypeOK,
                                                        Geo!BoundsAssumption
  <2> QED BY <2>1, <2>2 DEF Geo!Fault
<1>6. pairs' \subseteq Geo!Contents
  <2>1. Geo!Paired(database, settings) \subseteq Geo!Contents
        /\ Geo!Paired(database', settings') \subseteq Geo!Contents
        /\ Geo!Paired(database, settings') \subseteq Geo!Contents
    BY <1>1 DEF GeoTypes, Geo!TypeOK, Geo!Paired
  <2>2. pairs' \subseteq pairs \cup Geo!Paired(database, settings)
                         \cup Geo!Paired(database', settings')
                         \cup Geo!Paired(database, settings')
    BY DEF Geo!Next, Geo!vars, Geo!Write, Geo!ReplaceDatabase, Geo!ReplaceSettings, Geo!Fails,
       Geo!Restore, Geo!Kill, Geo!Lookup, Geo!ReadDatabase, Geo!Answer
  <2> QED BY <2>1, <2>2 DEF GeoTypes, Geo!TypeOK
<1>7. writer'.mode \in {"idle", "database", "settings", "undo database", "undo settings"}
  <2>1. Geo!AtRest.mode = "idle" BY DEF Geo!AtRest
  <2>2. \A w \in WriterStates :
            w.mode \in {"database", "settings", "undo database", "undo settings"}
    BY DEF WriterStates
  <2> QED BY <1>1, <2>1, <2>2
<1> QED BY <1>1, <1>2, <1>3, <1>4, <1>5, <1>6, <1>7
        DEF GeoTypes, Geo!TypeOK, WriterStates, Geo!AtRest, Geo!Contents

\* A lookup answers from a database its settings named at some moment of the
\* lookup, whatever uploads, failures, restores and kills go on beside it, also
\* when it found no lock file and reads the two files while they are replaced.
THEOREM AnswersArePairs ==
    ASSUME Geo!BoundsAssumption
    PROVE  Geo!Spec => [](Geo!TypeOK /\ Geo!AnswersFromAPair)
<1>1. PairInv => Geo!AnswersFromAPair BY DEF PairInv
<1>2. Geo!Init => GeoTypes
  <2> SUFFICES ASSUME Geo!Init PROVE GeoTypes
      OBVIOUS
  <2>1. writer.mode = "idle" /\ reader.mode = "idle" BY DEF Geo!Init, Geo!AtRest
  <2>2. writes \in 0..MaxUploads /\ faults \in 0..GeoFaults BY DEF Geo!Init, Geo!BoundsAssumption
  <2>3. pairs \subseteq Geo!Contents BY DEF Geo!Init
  <2> QED BY <2>1, <2>2, <2>3 DEF Geo!Init, GeoTypes, Geo!TypeOK, Geo!Contents
<1>3. GeoTypes /\ [Geo!Next]_(Geo!vars) => GeoTypes' BY StepKeepsGeoTypes
<1>4. GeoTypes => Geo!TypeOK BY DEF GeoTypes
<1> QED BY <1>1, <1>2, <1>3, <1>4, InitPairs, StepKeepsPairs, PTL DEF Geo!Spec

-----------------------------------------------------------------------------
(* LockOrder: no circle of waiting processes.  Every lock has a rank, and a *)
(* process waits only for a lock that ranks above all it is in. *)
Rank == [l \in Order!Locks |->
    CASE l \in {"auto_health", "auto_refresh", "cleanup", "attempts"} -> 1
      [] l = "job" -> 2
      [] l = "fixed" -> 3
      [] OTHER -> 4]

Ranked(w) ==
    /\ w \in Seq(Order!Locks) /\ w # <<>>
    /\ \A i \in 1..(Len(w) - 1) : Rank[w[i]] < Rank[w[Len(w)]]

LEMMA ObservingRanked ==
    \A w \in Order!Observing \cup Order!Probing : Ranked(w) /\ \A i \in 1..Len(w) : Rank[w[i]] > 1
<1> SUFFICES ASSUME NEW w \in Order!Observing \cup Order!Probing
             PROVE  Ranked(w) /\ \A i \in 1..Len(w) : Rank[w[i]] > 1
    OBVIOUS
<1> USE DEF Ranked, Rank, Order!Locks
<1>1. CASE w = <<"fixed">> BY <1>1
<1>2. CASE w = <<"node">> BY <1>2
<1>3. CASE w = <<"proxy">> BY <1>3
<1>4. CASE w = <<"fixed", "node">> BY <1>4
<1>5. CASE w = <<"fixed", "proxy">> BY <1>5
<1>6. CASE w = <<"job", "fixed">> BY <1>6
<1>7. CASE w = <<"job", "fixed", "proxy">> BY <1>7
<1> QED BY <1>1, <1>2, <1>3, <1>4, <1>5, <1>6, <1>7 DEF Order!Observing, Order!Probing

LEMMA WaitsRanked == \A w \in Order!Waits : Ranked(w)
<1>1. ASSUME NEW w \in Order!Observing \cup Order!Probing PROVE Ranked(<<"auto_health">> \o w)
  <2> DEFINE v == <<"auto_health">> \o w
  <2>1. Ranked(w) /\ \A i \in 1..Len(w) : Rank[w[i]] > 1 BY ObservingRanked
  <2>2. w \in Seq(Order!Locks) /\ Len(w) \in Nat /\ Len(w) # 0 BY <2>1 DEF Ranked
  <2>3. "auto_health" \in Order!Locks BY DEF Order!Locks
  <2>4. /\ v \in Seq(Order!Locks) /\ Len(v) = Len(w) + 1 /\ v[1] = "auto_health"
        /\ \A i \in 1..Len(w) : v[i + 1] = w[i]
    BY <2>2, <2>3
  <2>5. Rank["auto_health"] = 1 BY DEF Rank, Order!Locks
  <2> HIDE DEF v
  <2>6. ASSUME NEW i \in 1..(Len(v) - 1) PROVE Rank[v[i]] < Rank[v[Len(v)]]
    <3>1. v[Len(v)] = w[Len(w)] BY <2>2, <2>4
    <3>2. CASE i = 1 BY <2>1, <2>2, <2>4, <2>5, <3>1, <3>2
    <3>3. CASE i # 1
      <4>1. i - 1 \in 1..(Len(w) - 1) /\ v[i] = w[i - 1]
        <5>1. i - 1 \in 1..Len(w) /\ i - 1 \in 1..(Len(w) - 1) BY <2>2, <2>4, <2>6, <3>3
        <5>2. v[(i - 1) + 1] = w[i - 1] BY <2>4, <5>1
        <5> QED BY <2>6, <5>1, <5>2
      <4> QED BY <2>1, <3>1, <4>1 DEF Ranked
    <3> QED BY <3>2, <3>3
  <2>7. v # <<>> BY <2>2, <2>4
  <2> QED BY <2>4, <2>6, <2>7 DEF Ranked, v
<1>2. Ranked(<<"auto_refresh", "fixed">>) BY DEF Ranked, Rank, Order!Locks
<1>3. ASSUME NEW w \in Order!Requests PROVE Ranked(w)
  <2> USE DEF Ranked, Rank, Order!Locks
  <2>1. CASE w = <<"cleanup">> BY <2>1
  <2>2. CASE w = <<"cleanup", "links">> BY <2>2
  <2>3. CASE w = <<"links">> BY <2>3
  <2>4. CASE w = <<"attempts">> BY <2>4
  <2>5. CASE w = <<"attempts", "auth">> BY <2>5
  <2>6. CASE w = <<"auth">> BY <2>6
  <2>7. CASE w = <<"geoip">> BY <2>7
  <2>8. CASE w = <<"notifications">> BY <2>8
  <2> QED BY <1>3, <2>1, <2>2, <2>3, <2>4, <2>5, <2>6, <2>7, <2>8 DEF Order!Requests
<1>4. \A w \in Order!Scans : Ranked(w) BY <1>1, <1>2 DEF Order!Scans
<1> QED BY <1>3, <1>4, ObservingRanked DEF Order!Waits

\* Every waiting process waits as some code does.
WaitingAsCoded ==
    /\ path = [p \in Holders |-> path[p]] /\ waiting = [p \in Holders |-> waiting[p]]
    /\ \A p \in Holders : waiting[p] => path[p] \in Order!Waits

LEMMA StepKeepsCoded == WaitingAsCoded /\ [Order!Next]_(Order!vars) => WaitingAsCoded'
<1> SUFFICES ASSUME WaitingAsCoded, [Order!Next]_(Order!vars) PROVE WaitingAsCoded'
    OBVIOUS
<1> USE DEF WaitingAsCoded
<1>1. ASSUME NEW p \in Holders, Order!Wait(p) PROVE WaitingAsCoded'
  <2>1. PICK w \in Order!Waits : path' = [path EXCEPT ![p] = w] BY <1>1 DEF Order!Wait
  <2>2. waiting' = [waiting EXCEPT ![p] = TRUE] BY <1>1 DEF Order!Wait
  <2>3. ASSUME NEW q \in Holders, waiting'[q] PROVE path'[q] \in Order!Waits'
    BY <2>1, <2>2, <2>3 DEF Order!Waits, Order!Observing, Order!Probing, Order!Scans,
       Order!Requests
  <2> QED BY <2>1, <2>2, <2>3
<1>2. ASSUME NEW p \in Holders, Order!Get(p) PROVE WaitingAsCoded'
  BY <1>2 DEF Order!Get, Order!Waits, Order!Observing, Order!Probing, Order!Scans, Order!Requests
<1>3. ASSUME NEW p \in Holders, Order!Try(p) PROVE WaitingAsCoded'
  BY <1>3 DEF Order!Try, Order!Waits, Order!Observing, Order!Probing, Order!Scans, Order!Requests
<1>4. ASSUME NEW p \in Holders, Order!Leave(p) PROVE WaitingAsCoded'
  BY <1>4 DEF Order!Leave, Order!Waits, Order!Observing, Order!Probing, Order!Scans,
     Order!Requests
<1>5. ASSUME NEW p \in Holders, Order!Kill(p) PROVE WaitingAsCoded'
  BY <1>5 DEF Order!Kill, Order!Waits, Order!Observing, Order!Probing, Order!Scans, Order!Requests
<1>6. CASE UNCHANGED Order!vars
  BY <1>6 DEF Order!vars, Order!Waits, Order!Observing, Order!Probing, Order!Scans, Order!Requests
<1> QED BY <1>1, <1>2, <1>3, <1>4, <1>5, <1>6 DEF Order!Next

\* Those who wait for the highest rank wait for a lock whose owner does not wait.
LEMMA NoCircleFollows == WaitingAsCoded => Order!NoCircle
<1> SUFFICES ASSUME WaitingAsCoded, NEW ps \in SUBSET Holders, ps # {},
                    \A p \in ps : waiting[p] /\ \E q \in ps : Order!Wanted(p) \in Order!Held(q)
             PROVE  FALSE
    BY DEF Order!NoCircle
<1> DEFINE R(p) == Rank[Order!Wanted(p)]
<1>1. ASSUME NEW p \in ps
      PROVE  R(p) \in 1..4 /\ \E q \in ps : R(p) < R(q)
  <2>1. Ranked(path[p]) BY WaitsRanked DEF WaitingAsCoded
  <2>2. Order!Wanted(p) \in Order!Locks BY <2>1 DEF Ranked, Order!Wanted
  <2>3. R(p) \in 1..4 BY <2>2 DEF Rank
  <2>4. PICK q \in ps : Order!Wanted(p) \in Order!Held(q) OBVIOUS
  <2>5. Ranked(path[q]) /\ waiting[q] BY WaitsRanked DEF WaitingAsCoded
  <2>6. PICK i \in 1..(Len(path[q]) - 1) : Order!Wanted(p) = path[q][i] BY <2>4,
  <2>5 DEF Order!Held
  <2>7. R(p) < R(q) BY <2>5, <2>6 DEF Ranked, Order!Wanted
  <2> QED BY <2>3, <2>7
<1> HIDE DEF R
<1>2. \A p \in ps : R(p) \in 1..3 BY <1>1
<1>3. \A p \in ps : R(p) \in 1..2 BY <1>1, <1>2
<1>4. \A p \in ps : R(p) \in 1..1 BY <1>1, <1>3
<1> QED BY <1>1, <1>4

-----------------------------------------------------------------------------
(* Types: wherever code leaves a lock, it is where other code may be. *)

\* v is w and a lock inside it; v is a lock and w inside it.
Within(v, w) == /\ v \in Seq(Order!Locks) /\ w \in Seq(Order!Locks) /\ Len(v) = Len(w) + 1
                /\ \A i \in 1..Len(w) : v[i] = w[i]
Around(v, w) == /\ v \in Seq(Order!Locks) /\ w \in Seq(Order!Locks) /\ Len(v) = Len(w) + 1
                /\ \A i \in 1..Len(w) : v[i + 1] = w[i]

LEMMA OuterOf ==
    ASSUME NEW v, NEW w, Within(v, w)
    PROVE  Order!Outer(v) = w
<1> USE DEF Within
<1>1. Len(v) - 1 = Len(w) /\ Len(w) \in Nat OBVIOUS
<1>2. \A i \in 1..Len(w) : v[i] \in Order!Locks OBVIOUS
<1>3. /\ SubSeq(v, 1, Len(w)) \in Seq(Order!Locks) /\ Len(SubSeq(v, 1, Len(w))) = Len(w)
      /\ \A i \in 1..Len(w) : SubSeq(v, 1, Len(w))[i] = v[i]
  BY <1>1, <1>2
<1>4. SubSeq(v, 1, Len(w)) = w BY <1>3, SeqEqual
<1> QED BY <1>1, <1>4 DEF Order!Outer

LEMMA InsideOf ==
    ASSUME NEW v, NEW w, NEW a \in Order!Locks, Around(v, w), v[1] = a
    PROVE  <<a>> \o w = v
<1> USE DEF Around
<1>1. <<a>> \in Seq(Order!Locks) /\ Len(<<a>>) = 1 /\ <<a>>[1] = a OBVIOUS
<1>2. /\ <<a>> \o w \in Seq(Order!Locks) /\ Len(<<a>> \o w) = Len(v)
      /\ \A i \in 1..Len(v) : (<<a>> \o w)[i] = v[i]
  BY <1>1
<1> QED BY <1>2, SeqEqual

Places == Order!Waits \cup Order!Tries \cup {<<>>}

\* The places inside a scan, one by one.
LEMMA ScanPlaces ==
    /\ Order!Scans = {<<"auto_health", "fixed">>, <<"auto_health", "node">>,
                <<"auto_health", "proxy">>, <<"auto_health", "fixed", "node">>,
                <<"auto_health", "fixed", "proxy">>, <<"auto_health", "job", "fixed">>,
                <<"auto_health", "job", "fixed", "proxy">>, <<"auto_refresh", "fixed">>}
    /\ {<<s>> \o w : s \in {"auto_health", "auto_refresh"}, w \in Order!Generating} =
           {<<"auto_health", "proxy">>, <<"auto_health", "geoip">>,
            <<"auto_health", "fixed", "proxy">>, <<"auto_refresh", "proxy">>,
            <<"auto_refresh", "geoip">>, <<"auto_refresh", "fixed", "proxy">>}
<1>1. <<"auto_health">> \o <<"fixed">> = <<"auto_health", "fixed">>
  <2>1. Around(<<"auto_health", "fixed">>, <<"fixed">>) /\ "auto_health" \in Order!Locks
    BY DEF Around, Order!Locks
  <2> QED BY <2>1, InsideOf
<1>2. <<"auto_health">> \o <<"node">> = <<"auto_health", "node">>
  <2>1. Around(<<"auto_health", "node">>, <<"node">>) /\ "auto_health" \in Order!Locks
    BY DEF Around, Order!Locks
  <2> QED BY <2>1, InsideOf
<1>3. <<"auto_health">> \o <<"proxy">> = <<"auto_health", "proxy">>
  <2>1. Around(<<"auto_health", "proxy">>, <<"proxy">>) /\ "auto_health" \in Order!Locks
    BY DEF Around, Order!Locks
  <2> QED BY <2>1, InsideOf
<1>4. <<"auto_health">> \o <<"geoip">> = <<"auto_health", "geoip">>
  <2>1. Around(<<"auto_health", "geoip">>, <<"geoip">>) /\ "auto_health" \in Order!Locks
    BY DEF Around, Order!Locks
  <2> QED BY <2>1, InsideOf
<1>5. <<"auto_refresh">> \o <<"proxy">> = <<"auto_refresh", "proxy">>
  <2>1. Around(<<"auto_refresh", "proxy">>, <<"proxy">>) /\ "auto_refresh" \in Order!Locks
    BY DEF Around, Order!Locks
  <2> QED BY <2>1, InsideOf
<1>6. <<"auto_refresh">> \o <<"geoip">> = <<"auto_refresh", "geoip">>
  <2>1. Around(<<"auto_refresh", "geoip">>, <<"geoip">>) /\ "auto_refresh" \in Order!Locks
    BY DEF Around, Order!Locks
  <2> QED BY <2>1, InsideOf
<1>7. <<"auto_health">> \o <<"fixed", "node">> = <<"auto_health", "fixed", "node">>
  <2>1. Around(<<"auto_health", "fixed", "node">>, <<"fixed",
  "node">>) /\ "auto_health" \in Order!Locks
    BY DEF Around, Order!Locks
  <2> QED BY <2>1, InsideOf
<1>8. <<"auto_health">> \o <<"fixed", "proxy">> = <<"auto_health", "fixed", "proxy">>
  <2>1. Around(<<"auto_health", "fixed", "proxy">>, <<"fixed",
  "proxy">>) /\ "auto_health" \in Order!Locks
    BY DEF Around, Order!Locks
  <2> QED BY <2>1, InsideOf
<1>9. <<"auto_health">> \o <<"job", "fixed">> = <<"auto_health", "job", "fixed">>
  <2>1. Around(<<"auto_health", "job", "fixed">>, <<"job",
  "fixed">>) /\ "auto_health" \in Order!Locks
    BY DEF Around, Order!Locks
  <2> QED BY <2>1, InsideOf
<1>10. <<"auto_refresh">> \o <<"fixed", "proxy">> = <<"auto_refresh", "fixed", "proxy">>
  <2>1. Around(<<"auto_refresh", "fixed", "proxy">>, <<"fixed",
  "proxy">>) /\ "auto_refresh" \in Order!Locks
    BY DEF Around, Order!Locks
  <2> QED BY <2>1, InsideOf
<1>11. <<"auto_health">> \o <<"job", "fixed", "proxy">> = <<"auto_health", "job", "fixed",
"proxy">>
  <2>1. Around(<<"auto_health", "job", "fixed", "proxy">>, <<"job", "fixed",
  "proxy">>) /\ "auto_health" \in Order!Locks
    BY DEF Around, Order!Locks
  <2> QED BY <2>1, InsideOf
<1>12. {<<"auto_health">> \o w : w \in Order!Observing \cup Order!Probing} =
          {<<"auto_health", "fixed">>, <<"auto_health", "node">>, <<"auto_health", "proxy">>,
           <<"auto_health", "fixed", "node">>, <<"auto_health", "fixed", "proxy">>,
           <<"auto_health", "job", "fixed">>, <<"auto_health", "job", "fixed", "proxy">>}
  BY <1>1, <1>2, <1>3, <1>7, <1>8, <1>9, <1>11 DEF Order!Observing, Order!Probing
<1>13. {<<s>> \o w : s \in {"auto_health", "auto_refresh"}, w \in Order!Generating} =
          {<<"auto_health", "proxy">>, <<"auto_health", "geoip">>,
           <<"auto_health", "fixed", "proxy">>, <<"auto_refresh", "proxy">>,
           <<"auto_refresh", "geoip">>, <<"auto_refresh", "fixed", "proxy">>}
  BY <1>3, <1>4, <1>5, <1>6, <1>8, <1>10 DEF Order!Generating
<1>14. \A w : w \in Order!Scans <=>
              w \in {<<"auto_health">> \o v : v \in Order!Observing \cup Order!Probing}
                              \/ w = <<"auto_refresh", "fixed">>
  BY DEF Order!Scans
<1>15. Order!Scans = {<<"auto_health", "fixed">>, <<"auto_health", "node">>,
               <<"auto_health", "proxy">>, <<"auto_health", "fixed", "node">>,
               <<"auto_health", "fixed", "proxy">>, <<"auto_health", "job", "fixed">>,
               <<"auto_health", "job", "fixed", "proxy">>, <<"auto_refresh", "fixed">>}
  BY ONLY <1>12, <1>14
<1> QED BY <1>13, <1>15

\* A place is a single lock or a lock inside another place.
Singles == {<<"fixed">>, <<"node">>, <<"proxy">>, <<"cleanup">>, <<"links">>,
            <<"attempts">>, <<"auth">>, <<"geoip">>, <<"notifications">>,
            <<"job">>, <<"auto_health">>, <<"auto_refresh">>}
Pairs == {<<"fixed", "node">>, <<"fixed", "proxy">>, <<"job", "fixed">>,
          <<"auto_health", "fixed">>, <<"auto_health", "node">>,
          <<"auto_health", "proxy">>, <<"auto_refresh", "fixed">>,
          <<"cleanup", "links">>, <<"attempts", "auth">>,
          <<"auto_health", "geoip">>, <<"auto_refresh", "proxy">>,
          <<"auto_refresh", "geoip">>, <<"auto_health", "job">>}
Deeper == {<<"job", "fixed", "proxy">>, <<"auto_health", "fixed", "node">>,
           <<"auto_health", "fixed", "proxy">>,
           <<"auto_health", "job", "fixed">>,
           <<"auto_refresh", "fixed", "proxy">>,
           <<"auto_health", "job", "fixed", "proxy">>}

LEMMA PlacesAre == Places = Singles \cup Pairs \cup Deeper \cup {<<>>}
BY ScanPlaces DEF Places, Order!Waits, Order!Tries, Order!Observing, Order!Probing,
   Order!Requests, Order!Generating,
                  Singles, Pairs, Deeper

LEMMA OuterIsAPlace ==
    ASSUME NEW w \in Places, w # <<>>
    PROVE  Order!Outer(w) \in Places
<1>1. CASE w \in Singles
  <2>1. ASSUME NEW a \in Order!Locks, w = <<a>> PROVE Order!Outer(w) = <<>>
    <3>1. Within(<<a>>, <<>>) BY DEF Within
    <3> QED BY <2>1, <3>1, OuterOf
  <2>2. \E a \in Order!Locks : w = <<a>> BY <1>1 DEF Singles, Order!Locks
  <2> QED BY <2>1, <2>2 DEF Places
<1>2. CASE w \in Pairs
  <2>1. ASSUME NEW a \in Order!Locks, NEW b \in Order!Locks, w = <<a,
  b>> PROVE Order!Outer(w) = <<a>>
    <3>1. Within(<<a, b>>, <<a>>) BY DEF Within
    <3> QED BY <2>1, <3>1, OuterOf
  <2>2. \E a, b \in Order!Locks : w = <<a, b>> /\ <<a>> \in Singles BY <1>2 DEF Pairs, Singles,
    Order!Locks
  <2>3. Order!Outer(w) \in Singles BY <2>1, <2>2
  <2> QED BY <2>3, PlacesAre
<1>3. CASE w \in Deeper
  <2>1. ASSUME NEW a \in Order!Locks, NEW b \in Order!Locks, NEW c \in Order!Locks, w = <<a, b,
  c>>
        PROVE  Order!Outer(w) = <<a, b>>
    <3>1. Within(<<a, b, c>>, <<a, b>>) BY DEF Within
    <3> QED BY <2>1, <3>1, OuterOf
  <2>2. ASSUME NEW a \in Order!Locks, NEW b \in Order!Locks, NEW c \in Order!Locks,
  NEW d \in Order!Locks,
               w = <<a, b, c, d>>
        PROVE  Order!Outer(w) = <<a, b, c>>
    <3>1. Within(<<a, b, c, d>>, <<a, b, c>>) BY DEF Within
    <3> QED BY <2>2, <3>1, OuterOf
  <2>3. \/ \E a, b, c \in Order!Locks : w = <<a, b, c>> /\ <<a, b>> \in Pairs
        \/ \E a, b, c, d \in Order!Locks : w = <<a, b, c, d>> /\ <<a, b, c>> \in Deeper
    BY <1>3 DEF Deeper, Pairs, Order!Locks
  <2>4. Order!Outer(w) \in Pairs \cup Deeper BY <2>1, <2>2, <2>3
  <2> QED BY <2>4, PlacesAre
<1> QED BY <1>1, <1>2, <1>3, PlacesAre

LEMMA StepKeepsOrder == Order!TypeOK /\ [Order!Next]_(Order!vars) => Order!TypeOK'
<1> SUFFICES ASSUME Order!TypeOK, [Order!Next]_(Order!vars) PROVE Order!TypeOK'
    OBVIOUS
<1>1. path \in [Holders -> Places] /\ waiting \in [Holders -> BOOLEAN]
  BY DEF Order!TypeOK, Places
<1>2. ASSUME NEW p \in Holders,
Order!Wait(p) \/ Order!Get(p) \/ Order!Try(p) \/ Order!Leave(p) \/ Order!Kill(p)
      PROVE  path' \in [Holders -> Places] /\ waiting' \in [Holders -> BOOLEAN]
  <2>1. CASE Order!Wait(p) BY <1>1, <2>1 DEF Order!Wait, Places
  <2>2. CASE Order!Get(p) BY <1>1, <2>2 DEF Order!Get
  <2>3. CASE Order!Try(p) BY <1>1, <2>3 DEF Order!Try, Places
  <2>4. CASE Order!Leave(p)
    <3>1. Order!Outer(path[p]) \in Places BY <1>1, <2>4, OuterIsAPlace DEF Order!Leave
    <3> QED BY <1>1, <2>4, <3>1 DEF Order!Leave
  <2>5. CASE Order!Kill(p) BY <1>1, <2>5 DEF Order!Kill, Places
  <2> QED BY <1>2, <2>1, <2>2, <2>3, <2>4, <2>5
<1>3. ASSUME UNCHANGED Order!vars
      PROVE  path' \in [Holders -> Places] /\ waiting' \in [Holders -> BOOLEAN]
  BY <1>1, <1>3 DEF Order!vars
<1>4. path' \in [Holders -> Places] /\ waiting' \in [Holders -> BOOLEAN]
  BY <1>2, <1>3 DEF Order!Next
<1> QED BY <1>4 DEF Order!TypeOK, Places, Order!Waits, Order!Tries, Order!Observing,
           Order!Probing, Order!Scans, Order!Requests, Order!Generating

\* However many requests, scans and probes take locks at once, no circle of them
\* waits for each other.
THEOREM NeverACircle == Order!Spec => [](Order!TypeOK /\ Order!NoCircle)
<1>1. Order!Init => WaitingAsCoded BY DEF Order!Init, WaitingAsCoded
<1>2. WaitingAsCoded /\ [Order!Next]_(Order!vars) => WaitingAsCoded' BY StepKeepsCoded
<1>3. WaitingAsCoded => Order!NoCircle BY NoCircleFollows
<1>4. Order!Init => Order!TypeOK BY DEF Order!Init, Order!TypeOK
<1>5. Order!TypeOK /\ [Order!Next]_(Order!vars) => Order!TypeOK' BY StepKeepsOrder
<1> QED BY <1>1, <1>2, <1>3, <1>4, <1>5, PTL DEF Order!Spec

-----------------------------------------------------------------------------
(* Notifications: a late result is recorded where it belongs.  DeliveriesKnow is the *)
(* heart: a revision stands for its provider, although an undo puts an older one back. *)

Delivery == [at: Int, ok: BOOLEAN, success: Int]
Stored == [revision: 0..MaxRevision, provider: Telegram!Provider, events: SUBSET Kinds,
           delivery: Delivery]
Writing == [mode: {"write", "undo"}, new: Stored, old: Stored]
Result == [mode: {"send"}, provider: Telegram!Provider, revision: 0..MaxRevision,
           at: 0..TelegramClock]
          \cup [mode: {"record"}, provider: Telegram!Provider, revision: 0..MaxRevision,
                at: 0..TelegramClock, ok: BOOLEAN]
Writes(p) == work[p].mode \in {"write", "undo"}
Delivers(p) == work[p].mode \in {"send", "record"}

TelegramTypes ==
    /\ clock \in 0..TelegramClock /\ state \in Stored /\ holder \in Telegram!Processes \cup {None}
    /\ work \in [Telegram!Processes -> {Telegram!Idle} \cup Writing \cup Result]
    /\ batch \subseteq Kinds /\ failing \subseteq Kinds /\ faults \in 0..TelegramFaults

\* Whoever writes has the lock, has read what is stored, and writes valid settings:
\* the same ones with a younger result, or others under a new revision.
Follows(new, old) ==
    /\ \/ new.revision = old.revision /\ new.provider = old.provider
       \/ new.revision > old.revision
    /\ new.delivery.at >= old.delivery.at
WritersHold ==
    \A p \in Telegram!Processes : Writes(p) =>
        /\ holder = p /\ Follows(work[p].new, work[p].old)
        /\ Telegram!Valid(work[p].new) /\ Telegram!Valid(work[p].old)
        /\ IF work[p].mode = "write" THEN state = work[p].old
           ELSE state \in {work[p].old, work[p].new}

\* Settings a delivery has read are those of their revision for ever, also where an
\* undo puts an older revision back.
Knows(w, s) == w.revision <= s.revision /\ (w.revision = s.revision => w.provider = s.provider)
DeliveriesKnow ==
    \A p \in Telegram!Processes : Delivers(p) =>
        /\ Knows(work[p], state)
        /\ \A q \in Telegram!Processes : Writes(q) => Knows(work[p], work[q].old)

TelegramInv == TelegramTypes /\ Telegram!Valid(state) /\ WritersHold /\ DeliveriesKnow

LEMMA TelegramFollows == TelegramInv => Telegram!TypeOK
<1> SUFFICES ASSUME TelegramInv PROVE Telegram!TypeOK
    OBVIOUS
<1>1. \A p \in Telegram!Processes : work[p].mode \in {"idle", "write", "undo", "send", "record"}
  <2> SUFFICES ASSUME NEW p \in Telegram!Processes
               PROVE  work[p].mode \in {"idle", "write", "undo", "send", "record"}
    OBVIOUS
  <2>1. work[p] \in {Telegram!Idle} \cup Writing \cup Result BY DEF TelegramInv, TelegramTypes
  <2> QED BY <2>1 DEF Telegram!Idle, Writing, Result
<1> QED BY <1>1 DEF TelegramInv, TelegramTypes, Telegram!TypeOK, Stored

\* What a process in a mode carries.
LEMMA Carried ==
    ASSUME TelegramTypes, NEW p \in Telegram!Processes
    PROVE  /\ Writes(p) => work[p] \in Writing
           /\ Delivers(p) => work[p] \in Result
           /\ work[p].mode = "record" => work[p].ok \in BOOLEAN
           /\ ~(Writes(p) /\ Delivers(p))
<1>1. work[p] \in {Telegram!Idle} \cup Writing \cup Result BY DEF TelegramTypes
<1>2. work[p] = Telegram!Idle => ~Writes(p) /\ ~Delivers(p) BY DEF Telegram!Idle, Writes, Delivers
<1>3. work[p] \in Writing => Writes(p) /\ ~Delivers(p) BY DEF Writing, Writes, Delivers
<1>4. work[p] \in Result => ~Writes(p) /\ Delivers(p) BY DEF Result, Writes, Delivers
<1>5. work[p] \in Result /\ work[p].mode = "record" => work[p].ok \in BOOLEAN BY DEF Result
<1> QED BY <1>1, <1>2, <1>3, <1>4, <1>5 DEF Delivers

LEMMA InitTelegram ==
    ASSUME Telegram!NamesAssumption, Telegram!BoundsAssumption, Telegram!Init
    PROVE  TelegramInv
<1>1. Telegram!Defaults \in Stored /\ Telegram!Valid(Telegram!Defaults)
  <2>1. Telegram!NoDelivery \in Delivery BY DEF Telegram!NoDelivery, Delivery
  <2>2. Telegram!Defaults.provider \in Telegram!Provider /\ ~Telegram!Defaults.provider.enabled
    BY DEF Telegram!Defaults, Telegram!Provider
  <2>3. Telegram!Defaults.events = Kinds /\ Telegram!Defaults.delivery = Telegram!NoDelivery
      /\ Telegram!Defaults.revision = 0
    BY DEF Telegram!Defaults
  <2>4. Telegram!Defaults = [revision |-> 0, provider |-> Telegram!Defaults.provider,
      events |-> Kinds,
                    delivery |-> Telegram!NoDelivery]
    BY DEF Telegram!Defaults
  <2>5. Telegram!Defaults \in Stored BY <2>1, <2>2, <2>4 DEF Stored, Telegram!BoundsAssumption
  <2>6. Telegram!Valid(Telegram!Defaults)
    <3>1. Telegram!Defaults.delivery.at = -1 /\ ~Telegram!Defaults.delivery.ok
        /\ Telegram!Defaults.delivery.success = -1
      BY <2>3 DEF Telegram!NoDelivery
    <3> QED BY <2>2, <2>3, <3>1 DEF Telegram!Valid
  <2> QED BY <2>5, <2>6
<1>2. \A p \in Telegram!Processes : work[p].mode = "idle" BY DEF Telegram!Init, Telegram!Idle
<1>3. TelegramTypes BY <1>1 DEF Telegram!Init, TelegramTypes, Telegram!BoundsAssumption
<1> QED BY <1>1, <1>2, <1>3
        DEF Telegram!Init, TelegramInv, WritersHold, DeliveriesKnow, Writes, Delivers

\* Nobody writes while the lock is free.
LEMMA FreeOfWriters ==
    ASSUME TelegramInv, Telegram!NamesAssumption, holder = None, NEW p \in Telegram!Processes
    PROVE  ~Writes(p)
BY DEF TelegramInv, WritersHold, Telegram!NamesAssumption, Telegram!Processes

LEMMA KnowsOn ==
    ASSUME NEW w, NEW new \in Stored, NEW old \in Stored, w.revision \in 0..MaxRevision,
           Knows(w, old), Follows(new, old)
    PROVE  Knows(w, new)
BY DEF Knows, Follows, Stored

\* A process that begins to write what follows.
LEMMA WriteThenKeeps ==
    ASSUME TelegramInv, Telegram!NamesAssumption, NEW p \in Telegram!Processes, holder = None,
           NEW new \in Stored,
           Telegram!WriteThen(p, new), Follows(new, state),
           UNCHANGED <<clock, state, batch, failing, faults>>
    PROVE  TelegramInv'
<1> DEFINE w == [mode |-> "write", new |-> new, old |-> state]
<1>1. Telegram!Valid(new) /\ holder' = p /\ work' = [work EXCEPT ![p] = w]
  BY DEF Telegram!WriteThen, Telegram!To
<1>2. w \in Writing BY DEF Writing, TelegramInv, TelegramTypes
<1>3. w.mode = "write" /\ w.new = new /\ w.old = state OBVIOUS
<1> HIDE DEF w
<1>4. /\ work' \in [Telegram!Processes -> {Telegram!Idle} \cup Writing \cup Result] /\ work'[p] = w
      /\ \A q \in Telegram!Processes : q # p => work'[q] = work[q]
  BY <1>1, <1>2 DEF TelegramInv, TelegramTypes
<1>5. TelegramTypes' BY <1>1, <1>4 DEF TelegramInv, TelegramTypes
<1>6. \A q \in Telegram!Processes : q # p => ~Writes(q)' BY <1>4, FreeOfWriters DEF Writes
<1>7. WritersHold'
  <2> SUFFICES ASSUME NEW q \in Telegram!Processes, Writes(q)'
               PROVE  /\ holder' = q /\ Follows(work'[q].new, work'[q].old)
                      /\ Telegram!Valid(work'[q].new) /\ Telegram!Valid(work'[q].old)
                      /\ IF work'[q].mode = "write" THEN state' = work'[q].old
                         ELSE state' \in {work'[q].old, work'[q].new}
    BY DEF WritersHold, Writes
  <2>1. q = p BY <1>6
  <2> QED BY <1>1, <1>3, <1>4, <2>1 DEF TelegramInv
<1>8. DeliveriesKnow'
  <2> SUFFICES ASSUME NEW q \in Telegram!Processes, Delivers(q)'
               PROVE  /\ Knows(work'[q], state')
                      /\ \A r \in Telegram!Processes : Writes(r)' => Knows(work'[q], work'[r].old)
    BY DEF DeliveriesKnow, Writes, Delivers
  <2>1. q # p /\ work'[q] = work[q] BY <1>3, <1>4 DEF Delivers
  <2>2. Knows(work'[q], state) BY <2>1 DEF TelegramInv, DeliveriesKnow, Delivers
  <2>3. \A r \in Telegram!Processes : Writes(r)' => r = p BY <1>6
  <2> QED BY <1>3, <1>4, <2>2, <2>3
<1> QED BY <1>1, <1>5, <1>7, <1>8 DEF TelegramInv

\* A writer that writes, or puts back: afterwards what is stored is what it read or
\* what it writes.
LEMMA StoredByWriter ==
    ASSUME TelegramInv, NEW p \in Telegram!Processes, Writes(p), state' \in {work[p].old,
           work[p].new}
    PROVE  /\ state' \in Stored /\ Telegram!Valid(state')
           /\ \A q \in Telegram!Processes : Delivers(q) => Knows(work[q], state')
<1>1. work[p] \in Writing BY Carried DEF TelegramInv
<1>2. work[p].old \in Stored /\ work[p].new \in Stored BY <1>1 DEF Writing
<1>3. /\ Follows(work[p].new, work[p].old)
      /\ Telegram!Valid(work[p].new) /\ Telegram!Valid(work[p].old)
  BY DEF TelegramInv, WritersHold
<1>4. ASSUME NEW q \in Telegram!Processes, Delivers(q) PROVE Knows(work[q], state')
  <2>1. Knows(work[q], work[p].old) BY <1>4 DEF TelegramInv, DeliveriesKnow
  <2>2. work[q] \in Result BY <1>4, Carried DEF TelegramInv
  <2>3. work[q].revision \in 0..MaxRevision BY <2>2 DEF Result
  <2>4. Knows(work[q], work[p].new) BY <1>2, <1>3, <2>1, <2>3, KnowsOn
  <2> QED BY <2>1, <2>4
<1> QED BY <1>2, <1>3, <1>4

\* A process that goes idle, with its lock if it had it.
LEMMA IdleKeeps ==
    ASSUME TelegramInv, NEW p \in Telegram!Processes, Telegram!To(p, Telegram!Idle),
           holder' = IF holder = p THEN None ELSE holder,
           state' \in Stored, Telegram!Valid(state'),
           state' = state \/ Writes(p),
           \A q \in Telegram!Processes : Delivers(q) => Knows(work[q], state'),
           clock' \in 0..TelegramClock, batch' \subseteq Kinds, failing' \subseteq Kinds,
           faults' \in 0..TelegramFaults
    PROVE  TelegramInv'
<1>1. /\ work' \in [Telegram!Processes -> {Telegram!Idle} \cup Writing \cup Result]
    /\ work'[p] = Telegram!Idle
      /\ \A q \in Telegram!Processes : q # p => work'[q] = work[q]
  BY DEF Telegram!To, TelegramInv, TelegramTypes
<1>2. TelegramTypes' BY <1>1 DEF TelegramInv, TelegramTypes
<1>3. ~Writes(p)' /\ ~Delivers(p)' BY <1>1 DEF Writes, Delivers, Telegram!Idle
<1>4. \A q \in Telegram!Processes : Writes(q)' => q # p /\ Writes(q) BY <1>1, <1>3 DEF Writes
<1>5. WritersHold'
  <2> SUFFICES ASSUME NEW q \in Telegram!Processes, Writes(q)'
               PROVE  /\ holder' = q /\ Follows(work'[q].new, work'[q].old)
                      /\ Telegram!Valid(work'[q].new) /\ Telegram!Valid(work'[q].old)
                      /\ IF work'[q].mode = "write" THEN state' = work'[q].old
                         ELSE state' \in {work'[q].old, work'[q].new}
    BY DEF WritersHold, Writes
  <2>1. q # p /\ Writes(q) /\ work'[q] = work[q] BY <1>1, <1>4
  <2>2. holder = q BY <2>1 DEF TelegramInv, WritersHold
  <2>3. ~Writes(p) BY <2>1, <2>2 DEF TelegramInv, WritersHold
  <2> QED BY <2>1, <2>2, <2>3 DEF TelegramInv, WritersHold
<1>6. DeliveriesKnow'
  <2> SUFFICES ASSUME NEW q \in Telegram!Processes, Delivers(q)'
               PROVE  /\ Knows(work'[q], state')
                      /\ \A r \in Telegram!Processes : Writes(r)' => Knows(work'[q], work'[r].old)
    BY DEF DeliveriesKnow, Writes, Delivers
  <2>1. q # p /\ work'[q] = work[q] BY <1>1, <1>3
  <2>2. Delivers(q) BY <2>1 DEF Delivers
  <2>3. Knows(work'[q], state') BY <2>1, <2>2
  <2>4. ASSUME NEW r \in Telegram!Processes, Writes(r)' PROVE Knows(work'[q], work'[r].old)
    <3>1. Writes(r) /\ work'[r] = work[r] BY <1>1, <1>4, <2>4
    <3> QED BY <2>1, <2>2, <3>1 DEF TelegramInv, DeliveriesKnow
  <2> QED BY <2>3, <2>4
<1> QED BY <1>2, <1>5, <1>6 DEF TelegramInv

\* A process that is not writing begins to deliver, or has its answer.
LEMMA DeliveryKeeps ==
    ASSUME TelegramInv, NEW p \in Telegram!Processes, ~Writes(p), NEW w \in Result,
           Telegram!To(p, w),
           Knows(w, state), \A q \in Telegram!Processes : Writes(q) => Knows(w, work[q].old),
           batch' \subseteq Kinds, UNCHANGED <<clock, state, holder, failing, faults>>
    PROVE  TelegramInv'
<1>1. /\ work' \in [Telegram!Processes -> {Telegram!Idle} \cup Writing \cup Result] /\ work'[p] = w
      /\ \A q \in Telegram!Processes : q # p => work'[q] = work[q]
  BY DEF Telegram!To, TelegramInv, TelegramTypes
<1>2. TelegramTypes' BY <1>1 DEF TelegramInv, TelegramTypes
<1>3. w.mode \in {"send", "record"} BY DEF Result
<1>4. \A q \in Telegram!Processes : Writes(q)' => q # p /\ Writes(q) /\ work'[q] = work[q]
  BY <1>1, <1>3 DEF Writes
<1>5. WritersHold'
  <2> SUFFICES ASSUME NEW q \in Telegram!Processes, Writes(q)'
               PROVE  /\ holder' = q /\ Follows(work'[q].new, work'[q].old)
                      /\ Telegram!Valid(work'[q].new) /\ Telegram!Valid(work'[q].old)
                      /\ IF work'[q].mode = "write" THEN state' = work'[q].old
                         ELSE state' \in {work'[q].old, work'[q].new}
    BY DEF WritersHold, Writes
  <2> QED BY <1>4 DEF TelegramInv, WritersHold
<1>6. DeliveriesKnow'
  <2> SUFFICES ASSUME NEW q \in Telegram!Processes, Delivers(q)'
               PROVE  /\ Knows(work'[q], state')
                      /\ \A r \in Telegram!Processes : Writes(r)' => Knows(work'[q], work'[r].old)
    BY DEF DeliveriesKnow, Writes, Delivers
  <2>1. CASE q = p BY <1>1, <1>4, <2>1
  <2>2. CASE q # p
    <3>1. Delivers(q) /\ work'[q] = work[q] BY <1>1, <2>2 DEF Delivers
    <3> QED BY <1>4, <3>1 DEF TelegramInv, DeliveriesKnow
  <2> QED BY <2>1, <2>2
<1> QED BY <1>2, <1>5, <1>6 DEF TelegramInv

\* A failing replacement, which took effect or not.
LEMMA WriteFailsKeeps ==
    ASSUME TelegramInv, Telegram!BoundsAssumption, NEW p \in Telegram!Processes,
           Telegram!WriteFails(p)
    PROVE  TelegramInv'
<1>1. Writes(p) /\ work[p].mode = "write" BY DEF Telegram!WriteFails, Writes
<1>2. work[p] \in Writing BY <1>1, Carried DEF TelegramInv
<1>3. state = work[p].old BY <1>1 DEF TelegramInv, WritersHold
<1>4. state' \in {work[p].old, work[p].new} BY <1>3 DEF Telegram!WriteFails
<1>5. /\ state' \in Stored /\ Telegram!Valid(state')
      /\ \A q \in Telegram!Processes : Delivers(q) => Knows(work[q], state')
  BY <1>1, <1>4, StoredByWriter
<1> DEFINE w == [work[p] EXCEPT !.mode = "undo"]
<1>6. w \in Writing /\ w.mode = "undo" /\ w.new = work[p].new /\ w.old = work[p].old
  BY <1>2 DEF Writing
<1>7. work' = [work EXCEPT ![p] = w] BY DEF Telegram!WriteFails, Telegram!To
<1> HIDE DEF w
<1>8. /\ work' \in [Telegram!Processes -> {Telegram!Idle} \cup Writing \cup Result] /\ work'[p] = w
      /\ \A q \in Telegram!Processes : q # p => work'[q] = work[q]
  BY <1>6, <1>7 DEF TelegramInv, TelegramTypes
<1>9. TelegramTypes'
  BY <1>5, <1>8 DEF TelegramInv, TelegramTypes, Telegram!WriteFails, Telegram!Fault,
     Telegram!BoundsAssumption
<1>10. holder' = holder BY DEF Telegram!WriteFails
<1>11. \A q \in Telegram!Processes : Writes(q)' => q = p
  <2> SUFFICES ASSUME NEW q \in Telegram!Processes, Writes(q)', q # p PROVE FALSE
    OBVIOUS
  <2>1. Writes(q) BY <1>8 DEF Writes
  <2> QED BY <1>1, <2>1 DEF TelegramInv, WritersHold
<1>12. WritersHold'
  <2> SUFFICES ASSUME NEW q \in Telegram!Processes, Writes(q)'
               PROVE  /\ holder' = q /\ Follows(work'[q].new, work'[q].old)
                      /\ Telegram!Valid(work'[q].new) /\ Telegram!Valid(work'[q].old)
                      /\ IF work'[q].mode = "write" THEN state' = work'[q].old
                         ELSE state' \in {work'[q].old, work'[q].new}
    BY DEF WritersHold, Writes
  <2>1. q = p BY <1>11
  <2> QED BY <1>1, <1>4, <1>6, <1>8, <1>10, <2>1 DEF TelegramInv, WritersHold
<1>13. DeliveriesKnow'
  <2> SUFFICES ASSUME NEW q \in Telegram!Processes, Delivers(q)'
               PROVE  /\ Knows(work'[q], state')
                      /\ \A r \in Telegram!Processes : Writes(r)' => Knows(work'[q], work'[r].old)
    BY DEF DeliveriesKnow, Writes, Delivers
  <2>1. q # p BY <1>6, <1>8 DEF Delivers
  <2>2. Delivers(q) /\ work'[q] = work[q] BY <1>8, <2>1 DEF Delivers
  <2>3. ASSUME NEW r \in Telegram!Processes, Writes(r)' PROVE Knows(work'[q], work'[r].old)
    <3>1. r = p BY <1>11, <2>3
    <3> QED BY <1>1, <1>6, <1>8, <2>2, <3>1 DEF TelegramInv, DeliveriesKnow
  <2> QED BY <1>5, <2>2, <2>3
<1> QED BY <1>5, <1>9, <1>12, <1>13 DEF TelegramInv

\* The page stores others settings under a new revision.
LEMMA SettingsFollow ==
    ASSUME TelegramInv, Telegram!BoundsAssumption, state.revision < MaxRevision,
           NEW provider \in Telegram!Provider,
           NEW kinds \in SUBSET Kinds
    PROVE  LET new == Telegram!Changed([state EXCEPT !.provider = provider, !.events = kinds])
           IN  new \in Stored /\ Follows(new, state)
<1> DEFINE s == [state EXCEPT !.provider = provider, !.events = kinds]
           new == [s EXCEPT !.revision = @ + 1]
<1>1. state \in Stored BY DEF TelegramInv, TelegramTypes
<1>2. /\ s \in Stored /\ s.revision = state.revision /\ s.delivery = state.delivery
  BY <1>1 DEF Stored
<1> HIDE DEF s
<1>3. state.revision + 1 \in 0..MaxRevision BY <1>1 DEF Stored, Telegram!BoundsAssumption
<1>4. new \in Stored /\ new.revision = state.revision + 1 /\ new.delivery = state.delivery
  BY <1>2, <1>3 DEF Stored
<1>5. state.delivery.at \in Int /\ state.revision \in Int
  BY <1>1 DEF Stored, Delivery, Telegram!BoundsAssumption
<1>6. new \in Stored /\ Follows(new, state) BY <1>4, <1>5 DEF Follows
<1> QED BY <1>6 DEF s, Telegram!Changed

LEMMA SaveKeeps ==
    ASSUME TelegramInv, Telegram!NamesAssumption, Telegram!BoundsAssumption,
           NEW p \in Users, NEW on \in BOOLEAN, NEW kinds \in SUBSET Kinds,
           NEW chat \in Chats \cup {None}, Telegram!Save(p, on, kinds, chat)
    PROVE  TelegramInv'
<1> DEFINE provider == [enabled |-> on,
                        chat |-> IF chat = None THEN state.provider.chat ELSE chat]
           new == Telegram!Changed([state EXCEPT !.provider = provider, !.events = kinds])
<1>1. state \in Stored BY DEF TelegramInv, TelegramTypes
<1>2. state.provider \in Telegram!Provider BY <1>1 DEF Stored
<1>3. provider \in Telegram!Provider BY <1>2 DEF Telegram!Provider
<1>4. state.revision < MaxRevision /\ holder = None /\ Telegram!WriteThen(p, new)
  BY DEF Telegram!Save, Telegram!Free
<1>5. new \in Stored /\ Follows(new, state) BY <1>3, <1>4, SettingsFollow
<1>6. p \in Telegram!Processes BY DEF Telegram!Processes
<1>7. UNCHANGED <<clock, state, batch, failing, faults>> BY DEF Telegram!Save
<1> HIDE DEF new
<1> QED BY <1>4, <1>5, <1>6, <1>7, WriteThenKeeps

LEMMA RemoveKeeps ==
    ASSUME TelegramInv, Telegram!NamesAssumption, Telegram!BoundsAssumption, NEW p \in Users,
           Telegram!Remove(p)
    PROVE  TelegramInv'
<1> DEFINE new == Telegram!Changed([state EXCEPT !.provider = Telegram!Defaults.provider])
           same == Telegram!Changed([state EXCEPT !.provider = Telegram!Defaults.provider,
               !.events = state.events])
<1>1. state \in Stored BY DEF TelegramInv, TelegramTypes
<1>2. Telegram!Defaults.provider \in Telegram!Provider BY DEF Telegram!Defaults, Telegram!Provider
<1>3. state.revision < MaxRevision /\ holder = None /\ Telegram!WriteThen(p,
  new) BY DEF Telegram!Remove, Telegram!Free
<1>4. new \in Stored /\ Follows(new, state)
  <2>1. state.events \in SUBSET Kinds BY <1>1 DEF Stored
  <2>2. [state EXCEPT !.provider = Telegram!Defaults.provider, !.events = state.events]
           = [state EXCEPT !.provider = Telegram!Defaults.provider]
    BY <1>1 DEF Stored
  <2>3. new = same BY <2>2
  <2>4. same \in Stored /\ Follows(same, state) BY <1>2, <1>3, <2>1, SettingsFollow
  <2> QED BY <2>3, <2>4
<1>5. p \in Telegram!Processes BY DEF Telegram!Processes
<1>6. UNCHANGED <<clock, state, batch, failing, faults>> BY DEF Telegram!Remove
<1> HIDE DEF new
<1> QED BY <1>3, <1>4, <1>5, <1>6, WriteThenKeeps

LEMMA SnapshotKeeps ==
    ASSUME TelegramInv, Telegram!NamesAssumption, NEW p \in Telegram!Processes,
           Telegram!Snapshot(p, TRUE),
           batch' \subseteq Kinds, UNCHANGED <<clock, state, holder, failing, faults>>
    PROVE  TelegramInv'
<1> DEFINE w == [mode |-> "send", provider |-> state.provider, revision |-> state.revision,
                 at |-> clock]
<1>1. holder = None /\ work[p] = Telegram!Idle /\ Telegram!To(p, w) BY DEF Telegram!Snapshot,
  Telegram!Free
<1>2. state \in Stored /\ clock \in 0..TelegramClock BY DEF TelegramInv, TelegramTypes
<1>3. w \in Result BY <1>2 DEF Result, Stored
<1>4. Knows(w, state) BY <1>2 DEF Knows, Stored
<1>5. \A q \in Telegram!Processes : ~Writes(q) BY <1>1, FreeOfWriters
<1> HIDE DEF w
<1> QED BY <1>1, <1>3, <1>4, <1>5, DeliveryKeeps

LEMMA SendKeeps ==
    ASSUME TelegramInv, NEW p \in Telegram!Processes, Telegram!Send(p)
    PROVE  TelegramInv'
<1>1. Delivers(p) BY DEF Telegram!Send, Delivers
<1>2. work[p] \in Result /\ ~Writes(p) BY <1>1, Carried DEF TelegramInv
<1>3. PICK ok \in BOOLEAN :
          Telegram!To(p, [mode |-> "record", ok |-> ok, at |-> work[p].at,
                 provider |-> work[p].provider, revision |-> work[p].revision])
  BY DEF Telegram!Send
<1> DEFINE w == [mode |-> "record", ok |-> ok, at |-> work[p].at,
                 provider |-> work[p].provider, revision |-> work[p].revision]
<1>4. w \in Result BY <1>2 DEF Result
<1>5. w.provider = work[p].provider /\ w.revision = work[p].revision OBVIOUS
<1>6. Telegram!To(p, w) BY <1>3
<1>7. batch \subseteq Kinds BY DEF TelegramInv, TelegramTypes
<1>8. UNCHANGED <<clock, state, holder, batch, failing, faults>> BY DEF Telegram!Send
<1> HIDE DEF w
<1>9. Knows(w, state) /\ \A q \in Telegram!Processes : Writes(q) => Knows(w, work[q].old)
  BY <1>1, <1>5 DEF TelegramInv, DeliveriesKnow, Knows
<1> QED BY <1>2, <1>4, <1>6, <1>7, <1>8, <1>9, DeliveryKeeps

LEMMA RecordKeeps ==
    ASSUME TelegramInv, Telegram!NamesAssumption, Telegram!BoundsAssumption,
           NEW p \in Telegram!Processes, Telegram!Record(p)
    PROVE  TelegramInv'
<1>1. Delivers(p) /\ work[p].mode = "record" BY DEF Telegram!Record, Delivers
<1>2. work[p] \in Result /\ work[p].ok \in BOOLEAN BY <1>1, Carried DEF TelegramInv
<1>3. work[p].at \in 0..TelegramClock BY <1>2 DEF Result
<1>4. TelegramTypes /\ Telegram!Valid(state) BY DEF TelegramInv
<1>5. CASE Telegram!Current(work[p])
  <2> DEFINE new == Telegram!Recorded(work[p])
  <2>1. state \in Stored BY <1>4 DEF TelegramTypes
  <2>2. new \in Stored /\ new.delivery.at = work[p].at /\ new.revision = state.revision
        /\ new.provider = state.provider
    BY <1>2, <1>3, <2>1 DEF Telegram!Recorded, Stored, Delivery, Telegram!BoundsAssumption
  <2>3. Follows(new, state) BY <1>5, <2>2 DEF Follows, Telegram!Current
  <2>4. holder = None /\ Telegram!WriteThen(p, new)
        /\ UNCHANGED <<clock, state, batch, failing, faults>>
    BY <1>5 DEF Telegram!Record
  <2> HIDE DEF new
  <2> QED BY <2>2, <2>3, <2>4, WriteThenKeeps
<1>6. CASE ~Telegram!Current(work[p])
  <2>1. /\ Telegram!To(p, Telegram!Idle) /\ holder = None /\ holder' = holder
        /\ UNCHANGED <<clock, state, batch, failing, faults>>
    BY <1>6 DEF Telegram!Record
  <2>2. \A q \in Telegram!Processes : Delivers(q) => Knows(work[q], state)
    BY DEF TelegramInv, DeliveriesKnow
  <2> QED BY <1>4, <2>1, <2>2, IdleKeeps DEF TelegramTypes
<1> QED BY <1>5, <1>6

LEMMA WriterEnds ==
    ASSUME TelegramInv, Telegram!BoundsAssumption, NEW p \in Telegram!Processes,
           Telegram!Write(p) \/ Telegram!Undo(p)
    PROVE  TelegramInv'
<1>1. Writes(p) BY DEF Telegram!Write, Telegram!Undo, Writes
<1>2. holder = p /\ (state \in {work[p].old, work[p].new})
  BY <1>1 DEF TelegramInv, WritersHold
<1>3. state' \in {work[p].old, work[p].new} BY <1>2 DEF Telegram!Write, Telegram!Undo
<1>4. /\ state' \in Stored /\ Telegram!Valid(state')
      /\ \A q \in Telegram!Processes : Delivers(q) => Knows(work[q], state')
  BY <1>1, <1>3, StoredByWriter
<1>5. /\ Telegram!To(p, Telegram!Idle) /\ holder' = None /\ UNCHANGED <<clock, batch, failing>>
      /\ faults' = faults \/ Telegram!Fault
  BY DEF Telegram!Write, Telegram!Undo
<1>6. TelegramTypes BY DEF TelegramInv
<1>7. faults' \in 0..TelegramFaults BY <1>5, <1>6 DEF TelegramTypes, Telegram!Fault,
                                       Telegram!BoundsAssumption
<1> QED BY <1>1, <1>2, <1>4, <1>5, <1>6, <1>7, IdleKeeps DEF TelegramTypes

\* What a step of the whole may change of the settings, and of who writes.
LEMMA StepKeepsTelegram ==
    ASSUME TelegramInv, Telegram!NamesAssumption, Telegram!BoundsAssumption,
           [Telegram!Next]_(Telegram!vars)
    PROVE  TelegramInv'
<1>1. TelegramTypes /\ Telegram!Valid(state) BY DEF TelegramInv
<1>2. \A q \in Telegram!Processes : Delivers(q) => Knows(work[q], state)
  BY DEF TelegramInv, DeliveriesKnow
<1>3. Scanner \in Telegram!Processes /\ Users \subseteq Telegram!Processes
  BY DEF Telegram!Processes
<1>4. ASSUME UNCHANGED <<state, holder, work>>, clock' \in 0..TelegramClock,
             batch' \subseteq Kinds, failing' \subseteq Kinds, faults' \in 0..TelegramFaults
      PROVE  TelegramInv'
  BY <1>1, <1>4 DEF TelegramInv, TelegramTypes, WritersHold, DeliveriesKnow, Writes, Delivers
<1>5. CASE UNCHANGED Telegram!vars BY <1>1, <1>4, <1>5 DEF Telegram!vars, TelegramTypes
<1>6. ASSUME NEW p \in Telegram!Processes,
             \/ Telegram!Write(p) \/ Telegram!WriteFails(p)
             \/ Telegram!Undo(p) \/ Telegram!Send(p) \/ Telegram!Record(p)
      PROVE  TelegramInv'
  BY <1>6, WriterEnds, WriteFailsKeeps, SendKeeps, RecordKeeps
<1>7. ASSUME NEW p \in Telegram!Processes, Telegram!Kill(p) PROVE TelegramInv'
  BY <1>1, <1>2, <1>7, IdleKeeps DEF Telegram!Kill, Telegram!Locked, Telegram!Fault,
     TelegramTypes, Telegram!BoundsAssumption
<1>8. ASSUME NEW p \in Users, NEW on \in BOOLEAN, NEW kinds \in SUBSET Kinds,
             NEW chat \in Chats \cup {None}, Telegram!Save(p, on, kinds, chat)
      PROVE  TelegramInv'
  BY <1>8, SaveKeeps
<1>9. ASSUME NEW p \in Users, Telegram!Remove(p) \/ Telegram!Test(p) PROVE TelegramInv'
  <2>1. Telegram!Test(p) => TelegramInv' BY <1>1, <1>3, SnapshotKeeps DEF Telegram!Test,
                                            TelegramTypes
  <2> QED BY <1>9, <2>1, RemoveKeeps
<1>10. ASSUME NEW k \in Kinds, Telegram!Commit(k) \/ Telegram!Manual(k) PROVE TelegramInv'
  BY <1>1, <1>4, <1>10 DEF Telegram!Commit, Telegram!Boundary, Telegram!Manual, TelegramTypes
<1>11. CASE Telegram!Deliver
  <2>1. batch' \subseteq Kinds /\ UNCHANGED <<clock, state, holder, failing, faults>>
    BY <1>11 DEF Telegram!Deliver
  <2>2. CASE UNCHANGED work BY <1>1, <1>4, <2>1, <2>2 DEF TelegramTypes
  <2>3. CASE Telegram!Snapshot(Scanner, state.provider.enabled /\ batch \cap state.events # {})
    <3>1. Telegram!Snapshot(Scanner, TRUE) BY <2>3 DEF Telegram!Snapshot
    <3> QED BY <1>3, <2>1, <3>1, SnapshotKeeps
  <2> QED BY <1>11, <2>2, <2>3 DEF Telegram!Deliver
<1>12. CASE Telegram!Tick BY <1>1, <1>4, <1>12 DEF Telegram!Tick, TelegramTypes
<1> QED BY <1>5, <1>6, <1>7, <1>8, <1>9, <1>10, <1>11, <1>12 DEF Telegram!Next

\* A write never shortens the past: what a writer writes is no older.
LEMMA WriteAdvances ==
    ASSUME TelegramInv, NEW p \in Telegram!Processes, Telegram!Write(p) \/ Telegram!WriteFails(p)
    PROVE  ~(state'.delivery.at < state.delivery.at)
<1>1. Writes(p) /\ work[p].mode = "write" BY DEF Telegram!Write, Telegram!WriteFails, Writes
<1>2. state = work[p].old /\ Follows(work[p].new, work[p].old)
  BY <1>1 DEF TelegramInv, WritersHold
<1>3. work[p] \in Writing BY <1>1, Carried DEF TelegramInv
<1>4. /\ work[p].old.delivery.at \in Int /\ work[p].new.delivery.at \in Int
  BY <1>3 DEF Writing, Stored, Delivery
<1>5. state' = state \/ state' = work[p].new BY DEF Telegram!Write, Telegram!WriteFails
<1> QED BY <1>2, <1>4, <1>5 DEF Follows

\* Only a write or an undo changes the settings, and only a record that is current
\* begins to write a result.
LEMMA StepRecords ==
    ASSUME TelegramInv, Telegram!NamesAssumption, [Telegram!Next]_(Telegram!vars)
    PROVE  Telegram!RecordsOwnProvider /\ Telegram!AttemptsAdvance
<1>1. state.delivery.at \in Int BY DEF TelegramInv, TelegramTypes, Stored, Delivery
<1>2. Telegram!AttemptsAdvance
  <2> SUFFICES ASSUME state'.delivery.at < state.delivery.at
               PROVE  \E p \in Telegram!Processes : work[p].mode = "undo" /\ state' = work[p].old
    BY DEF Telegram!AttemptsAdvance
  <2>1. state' # state BY <1>1
  <2>2. PICK p \in Telegram!Processes : Telegram!Write(p) \/ Telegram!WriteFails(p)
      \/ Telegram!Undo(p)
    BY <2>1 DEF Telegram!Next, Telegram!vars, Telegram!Send, Telegram!Record, Telegram!Kill,
       Telegram!Save, Telegram!Remove, Telegram!Test, Telegram!Commit, Telegram!Manual,
           Telegram!Deliver, Telegram!Tick
  <2>3. Telegram!Undo(p) BY <2>2, WriteAdvances
  <2> QED BY <2>1, <2>3 DEF Telegram!Undo
<1>3. Telegram!RecordsOwnProvider
  <2> SUFFICES ASSUME NEW p \in Telegram!Processes, work[p].mode = "record",
      work'[p].mode = "write"
               PROVE  state.provider = work[p].provider
    BY DEF Telegram!RecordsOwnProvider
  <2>1. Delivers(p) BY DEF Delivers
  <2>2. Knows(work[p], state) BY <2>1 DEF TelegramInv, DeliveriesKnow
  <2>3. work[p] # Telegram!Idle BY DEF Telegram!Idle
  <2>4. work \in [Telegram!Processes -> {Telegram!Idle} \cup Writing \cup Result]
    BY DEF TelegramInv, TelegramTypes
  <2>5. \A q \in Telegram!Processes : \A w : q # p /\ Telegram!To(q, w) => work'[p] = work[p]
    BY <2>4 DEF Telegram!To
  <2>6. \A w : Telegram!To(p, w) => work'[p] = w BY <2>4 DEF Telegram!To
  <2>7. Telegram!Current(work[p])
    <3> SUFFICES ASSUME ~Telegram!Current(work[p]) PROVE FALSE
      OBVIOUS
    <3>1. work'[p] # work[p] OBVIOUS
    <3>2. ASSUME NEW q \in Telegram!Processes,
        Telegram!Write(q) \/ Telegram!Undo(q) \/ Telegram!Kill(q) PROVE FALSE
      <4>1. Telegram!To(q, Telegram!Idle) BY <3>2 DEF Telegram!Write, Telegram!Undo, Telegram!Kill
      <4> QED BY <2>5, <2>6, <3>1, <4>1 DEF Telegram!Idle
    <3>3. ASSUME NEW q \in Telegram!Processes, Telegram!WriteFails(q) PROVE FALSE
      <4>1. q # p BY <3>3 DEF Telegram!WriteFails
      <4> QED BY <2>5, <3>1, <3>3, <4>1 DEF Telegram!WriteFails
    <3>4. ASSUME NEW q \in Telegram!Processes, Telegram!Send(q) PROVE FALSE
      <4>1. q # p BY <3>4 DEF Telegram!Send
      <4> QED BY <2>5, <3>1, <3>4, <4>1 DEF Telegram!Send
    <3>5. ASSUME NEW q \in Telegram!Processes, Telegram!Record(q) PROVE FALSE
      <4>1. CASE q = p
        <5>1. Telegram!To(p, Telegram!Idle) BY <3>5, <4>1 DEF Telegram!Record
        <5> QED BY <2>6, <5>1 DEF Telegram!Idle
      <4>2. CASE q # p
        <5>1. \E w : Telegram!To(q, w) BY <3>5 DEF Telegram!Record, Telegram!WriteThen
        <5> QED BY <2>5, <3>1, <4>2, <5>1
      <4> QED BY <4>1, <4>2
    <3>6. ASSUME NEW q \in Telegram!Processes, Telegram!Free(q), \E w : Telegram!To(q,
        w) PROVE FALSE
      <4>1. q # p BY <2>3, <3>6 DEF Telegram!Free
      <4> QED BY <2>5, <3>1, <3>6, <4>1
    <3>7. ASSUME NEW q \in Users, NEW on \in BOOLEAN, NEW kinds \in SUBSET Kinds,
                 NEW chat \in Chats \cup {None}, Telegram!Save(q, on, kinds, chat)
          PROVE  FALSE
      <4>1. Telegram!Free(q) /\ \E w : Telegram!To(q, w) BY <3>7 DEF Telegram!Save,
        Telegram!WriteThen
      <4> QED BY <3>6, <4>1 DEF Telegram!Processes
    <3>8. ASSUME NEW q \in Users, Telegram!Remove(q) \/ Telegram!Test(q) PROVE FALSE
      <4>1. Telegram!Free(q) /\ \E w : Telegram!To(q, w) BY <3>8 DEF Telegram!Remove,
        Telegram!Test, Telegram!WriteThen, Telegram!Snapshot
      <4> QED BY <3>6, <4>1 DEF Telegram!Processes
    <3>9. ASSUME Telegram!Deliver PROVE FALSE
      <4>1. Telegram!Free(Scanner) /\ \E w : Telegram!To(Scanner, w) BY <3>1,
        <3>9 DEF Telegram!Deliver, Telegram!Snapshot
      <4> QED BY <3>6, <4>1 DEF Telegram!Processes
    <3>10. \A k \in Kinds : ~Telegram!Commit(k) /\ ~Telegram!Manual(k)
      BY <3>1 DEF Telegram!Commit, Telegram!Manual
    <3>11. ~Telegram!Tick /\ Telegram!vars' # Telegram!vars BY <3>1 DEF Telegram!Tick,
      Telegram!vars
    <3> QED BY <3>2, <3>3, <3>4, <3>5, <3>7, <3>8, <3>9, <3>10, <3>11 DEF Telegram!Next
  <2> QED BY <2>2, <2>7 DEF Knows, Telegram!Current
<1> QED BY <1>2, <1>3

LEMMA TelegramAlways ==
    ASSUME Telegram!NamesAssumption, Telegram!BoundsAssumption
    PROVE  Telegram!Spec => []TelegramInv
<1>1. Telegram!Init => TelegramInv BY InitTelegram
<1>2. TelegramInv /\ [Telegram!Next]_(Telegram!vars) => TelegramInv' BY StepKeepsTelegram
<1> QED BY <1>1, <1>2, PTL DEF Telegram!Spec

\* However deliveries, saves, removals, failing writes and kills interleave, a result
\* is recorded beside the provider it was obtained with and never over a younger one.
THEOREM DeliveriesAreRecorded ==
    ASSUME Telegram!NamesAssumption, Telegram!BoundsAssumption
    PROVE  Telegram!Spec => Telegram!DeliveriesRecorded
<1>1. Telegram!Spec => []TelegramInv BY TelegramAlways
<1>2. TelegramInv /\ [Telegram!Next]_(Telegram!vars) => [Telegram!RecordsOwnProvider
    /\ Telegram!AttemptsAdvance]_(Telegram!vars)
  BY StepRecords
<1> QED BY <1>1, <1>2, PTL DEF Telegram!Spec, Telegram!DeliveriesRecorded

-----------------------------------------------------------------------------
(* Side by side: a behaviour is of one part to its end, and as far as that part *)
(* is concerned a behaviour of its module. *)

IsOf(p) == part = p

LEMMA PartOfLinks ==
    /\ Spec => (IsOf("links") => Links!Spec)
    /\ Spec => (~IsOf("links") => []~IsOf("links"))
<1>1. Init /\ IsOf("links") => Links!Init BY DEF Init, IsOf
<1>2. IsOf("links") /\ [Next]_vars => IsOf("links")' /\ [Links!Next]_(Links!vars)
  <2> SUFFICES ASSUME IsOf("links"), [Next]_vars
               PROVE  IsOf("links")' /\ [Links!Next]_(Links!vars)
    OBVIOUS
  <2>1. CASE UNCHANGED vars
    BY <2>1 DEF vars, temporary, Links!vars, IsOf
  <2>2. CASE Next BY <2>2 DEF Next, IsOf
  <2> QED BY <2>1, <2>2
<1>3. ~IsOf("links") /\ [Next]_vars => ~IsOf("links")' BY DEF Next, vars, IsOf
<1> QED BY <1>1, <1>2, <1>3, PTL DEF Spec, Links!Spec

LEMMA PartOfNotifications ==
    /\ Spec => (IsOf("notifications") => Telegram!Spec)
    /\ Spec => (~IsOf("notifications") => []~IsOf("notifications"))
<1>1. Init /\ IsOf("notifications") => Telegram!Init BY DEF Init, IsOf
<1>2. IsOf("notifications") /\ [Next]_vars
        => IsOf("notifications")' /\ [Telegram!Next]_(Telegram!vars)
  <2> SUFFICES ASSUME IsOf("notifications"), [Next]_vars
               PROVE  IsOf("notifications")' /\ [Telegram!Next]_(Telegram!vars)
    OBVIOUS
  <2>1. CASE UNCHANGED vars
    BY <2>1 DEF vars, telegram, Telegram!vars, IsOf
  <2>2. CASE Next BY <2>2 DEF Next, IsOf
  <2> QED BY <2>1, <2>2
<1>3. ~IsOf("notifications") /\ [Next]_vars => ~IsOf("notifications")' BY DEF Next, vars, IsOf
<1> QED BY <1>1, <1>2, <1>3, PTL DEF Spec, Telegram!Spec

LEMMA PartOfGeo ==
    /\ Spec => (IsOf("geoip") => Geo!Spec)
    /\ Spec => (~IsOf("geoip") => []~IsOf("geoip"))
<1>1. Init /\ IsOf("geoip") => Geo!Init BY DEF Init, IsOf
<1>2. IsOf("geoip") /\ [Next]_vars => IsOf("geoip")' /\ [Geo!Next]_(Geo!vars)
  <2> SUFFICES ASSUME IsOf("geoip"), [Next]_vars
               PROVE  IsOf("geoip")' /\ [Geo!Next]_(Geo!vars)
    OBVIOUS
  <2>1. CASE UNCHANGED vars
    BY <2>1 DEF vars, geoip, Geo!vars, IsOf
  <2>2. CASE Next BY <2>2 DEF Next, IsOf
  <2> QED BY <2>1, <2>2
<1>3. ~IsOf("geoip") /\ [Next]_vars => ~IsOf("geoip")' BY DEF Next, vars, IsOf
<1> QED BY <1>1, <1>2, <1>3, PTL DEF Spec, Geo!Spec

LEMMA PartOfProbe ==
    /\ Spec => (IsOf("probe") => Probe!Spec)
    /\ Spec => (~IsOf("probe") => []~IsOf("probe"))
<1>1. Init /\ IsOf("probe") => Probe!Init BY DEF Init, IsOf
<1>2. IsOf("probe") /\ [Next]_vars => IsOf("probe")' /\ [Probe!Next]_(Probe!vars)
  <2> SUFFICES ASSUME IsOf("probe"), [Next]_vars
               PROVE  IsOf("probe")' /\ [Probe!Next]_(Probe!vars)
    OBVIOUS
  <2>1. CASE UNCHANGED vars
    BY <2>1 DEF vars, probe, Probe!vars, IsOf
  <2>2. CASE Next BY <2>2 DEF Next, IsOf
  <2> QED BY <2>1, <2>2
<1>3. ~IsOf("probe") /\ [Next]_vars => ~IsOf("probe")' BY DEF Next, vars, IsOf
<1> QED BY <1>1, <1>2, <1>3, PTL DEF Spec, Probe!Spec

LEMMA PartOfOrder ==
    /\ Spec => (IsOf("locks") => Order!Spec)
    /\ Spec => (~IsOf("locks") => []~IsOf("locks"))
<1>1. Init /\ IsOf("locks") => Order!Init BY DEF Init, IsOf
<1>2. IsOf("locks") /\ [Next]_vars => IsOf("locks")' /\ [Order!Next]_(Order!vars)
  <2> SUFFICES ASSUME IsOf("locks"), [Next]_vars
               PROVE  IsOf("locks")' /\ [Order!Next]_(Order!vars)
    OBVIOUS
  <2>1. CASE UNCHANGED vars
    BY <2>1 DEF vars, locks, Order!vars, IsOf
  <2>2. CASE Next BY <2>2 DEF Next, IsOf
  <2> QED BY <2>1, <2>2
<1>3. ~IsOf("locks") /\ [Next]_vars => ~IsOf("locks")' BY DEF Next, vars, IsOf
<1> QED BY <1>1, <1>2, <1>3, PTL DEF Spec, Order!Spec

\* A link to a missing output is about to be revoked, unless its revocation failed
\* or it was made after the deletion (delete_output of app.py, core/retention.py).
THEOREM LinksAlwaysEnd == Spec => []LinksEndWithOutput
<1>1. Links!Spec => [](Links!TypeOK /\ Links!LinksEndWithOutput)
  BY WebStoresAssumption, Links!OutputsTakeTheirLinks DEF WebStoresAssumption
<1>2. Links!TypeOK /\ Links!LinksEndWithOutput => LinksEndWithOutput BY DEF LinksEndWithOutput
<1>3. ~IsOf("links") => LinksEndWithOutput BY DEF LinksEndWithOutput, IsOf
<1> QED BY <1>1, <1>2, <1>3, PartOfLinks, PTL

\* A link ends only because its time is over or its output is gone, and is served to
\* no request that came later; an output goes by its owner or old; and a cleanup
\* that scanned everything leaves no old output but those it met with two names
\* (core/temporary_links.py, core/retention.py).
THEOREM TimesAlwaysHold == Spec => TimesHold
<1>1. Links!Spec => Links!TimesHold
  BY WebStoresAssumption, Links!TimesAreKept DEF WebStoresAssumption
<1>2. Links!TimesHold => [][Links!LinkTimes]_(Links!vars)
  BY PTL DEF Links!TimesHold
<1>3. [Next]_vars /\ [Links!LinkTimes]_(Links!vars) => [part = "links" => Links!LinkTimes]_vars
  <2>1. ASSUME Next, part = "links", UNCHANGED Links!vars PROVE UNCHANGED vars
    <3>1. UNCHANGED <<part, telegram, geoip, probe, locks>> BY <2>1 DEF Next
    <3> QED BY <2>1, <3>1 DEF vars, temporary, telegram, geoip, probe, locks, Links!vars
  <2> QED BY <2>1
<1>4. ~IsOf("links") => [part = "links" => Links!LinkTimes]_vars
  BY DEF IsOf
<1>5. Spec => [][Next]_vars BY PTL DEF Spec
<1> QED BY <1>1, <1>2, <1>3, <1>4, <1>5, PartOfLinks, PTL DEF TimesHold

\* A delivery is recorded beside the settings it used, and after no younger one
\* (core/notifications.py).
THEOREM DeliveriesAlwaysRecorded == Spec => DeliveriesRecorded
<1>1. Telegram!Spec => []TelegramInv
  BY WebStoresAssumption, TelegramAlways DEF WebStoresAssumption
<1>2. TelegramInv /\ [Telegram!Next]_(Telegram!vars)
        => Telegram!TypeOK /\ Telegram!RecordsOwnProvider /\ Telegram!AttemptsAdvance
  BY WebStoresAssumption, TelegramFollows, StepRecords DEF WebStoresAssumption
<1>3. ~IsOf("notifications")
      => [part = "notifications" =>
            /\ Telegram!TypeOK
            /\ Telegram!RecordsOwnProvider /\ Telegram!AttemptsAdvance]_vars
  BY DEF IsOf
<1> QED BY <1>1, <1>2, <1>3, PartOfNotifications, PTL DEF DeliveriesRecorded, Telegram!Spec

\* A lookup answers from a database its settings describe, with or without the
\* lock (core/geoip_store.py).
THEOREM AnswersAlwaysFromAPair == Spec => []AnswersFromAPair
<1>1. Geo!Spec => [](Geo!TypeOK /\ Geo!AnswersFromAPair)
  BY WebStoresAssumption, AnswersArePairs DEF WebStoresAssumption
<1>2. Geo!TypeOK /\ Geo!AnswersFromAPair => AnswersFromAPair BY DEF AnswersFromAPair
<1>3. ~IsOf("geoip") => AnswersFromAPair BY DEF AnswersFromAPair, IsOf
<1> QED BY <1>1, <1>2, <1>3, PartOfGeo, PTL

\* A check that returns has judged every node and blamed exactly the rejected ones,
\* with one engine at a time (core/mihomo_probe.py).
THEOREM AlwaysEveryNodeJudged == Spec => []EveryNodeJudged
<1>1. Probe!Spec => [](Probe!TypeOK /\ Probe!EveryNodeJudged /\ Probe!OneEngine)
  BY WebStoresAssumption, EveryCheckJudges DEF WebStoresAssumption
<1>2. Probe!TypeOK /\ Probe!EveryNodeJudged /\ Probe!OneEngine => EveryNodeJudged
  BY DEF EveryNodeJudged
<1>3. ~IsOf("probe") => EveryNodeJudged BY DEF EveryNodeJudged, IsOf
<1> QED BY <1>1, <1>2, <1>3, PartOfProbe, PTL

\* No processes wait for each other's locks in a circle (the callers of
\* core/state.py's file_lock).
THEOREM NoCircleEver == Spec => []NoCircle
<1>1. Order!Spec => [](Order!TypeOK /\ Order!NoCircle) BY NeverACircle
<1>2. Order!TypeOK /\ Order!NoCircle => NoCircle BY DEF NoCircle
<1>3. ~IsOf("locks") => NoCircle BY DEF NoCircle, IsOf
<1> QED BY <1>1, <1>2, <1>3, PartOfOrder, PTL

=============================================================================
