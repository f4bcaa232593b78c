-------------------------- MODULE ProxyProofs --------------------------
(***************************************************************************)
(* Proofs about the protocol proxy, for any number of calls, ids, names,   *)
(* chunks, tools and items: the converter of ChatStream, ToolNames, and    *)
(* the history of ChatInput.                                               *)
(***************************************************************************)
EXTENDS ChatStream, ToolNames, ChatInput, DataLemmas

USE ConstantsAssumption

\* The stream has its final response.
Closed == terminals # <<>> /\ Head(terminals) = "completed"

\* Where the stream is.
Counted ==
    /\ completed <=> terminals # <<>>
    /\ ~Closed => answer = None
    /\ link = "ended" => completed
    /\ \A k \in DOMAIN terminals : terminals[k] = "completed" => Closed

\* Before the end, and after it if nothing came, the state holds what was sent,
\* in any order.
Gathered ==
    terminals = <<>> \/ orderly =>
       /\ responseID = Or(sent.id, Compat)
       /\ text = sent.text /\ reasoning = sent.reasoning + sent.thoughts
       /\ finishReason = sent.finish
       /\ DOMAIN tools = DOMAIN sent.calls
       /\ \A i \in DOMAIN tools : tools[i].arguments = sent.calls[i].arguments

\* In order, it also holds the ids and the names, and the final response is
\* what the state makes.
NamedInOrder ==
    orderly =>
       /\ Closed => answer = Final
       /\ \A i \in DOMAIN tools :
             /\ tools[i].added
             /\ tools[i].name = sent.calls[i].name
             /\ tools[i].callID = Or(sent.calls[i].id, Default(i))

\* What the final response holds of what was sent, and of thoughts.
Delivered ==
    /\ Closed =>
          /\ sent.reasoning + sent.thoughts > 0 =>
                \E x \in answer.reasoning : x.size = sent.reasoning + sent.thoughts
          /\ sent.text > 0 => \E x \in answer.message : x.size = sent.text
          /\ \A i \in DOMAIN sent.calls : answer.calls[i].size = sent.calls[i].arguments
    /\ sent.thoughts = 0 => ~sent.leading

IInv == TypeOK /\ Counted /\ Gathered /\ NamedInOrder /\ Delivered

(***************************************************************************)
(* Lemmas.                                                                 *)
(***************************************************************************)
LEMMA EmptyCalls == ASSUME NEW T PROVE IsCalls(<<>>, T) /\ DOMAIN <<>> = {}
  <1>1. DOMAIN <<>> = {}
    OBVIOUS
  <1>2. <<>> \in [{} -> T]
    OBVIOUS
  <1> QED
    BY <1>1, <1>2 DEF IsCalls

\* Adding or replacing one call.
HoldsCall(g, T, f, i, v) ==
    /\ IsCalls(g, T)
    /\ DOMAIN g = DOMAIN f \cup {i}
    /\ g[i] = v
    /\ \A j \in DOMAIN f : j # i => g[j] = f[j]
LEMMA ExtendedCalls ==
    ASSUME NEW T, NEW f, IsCalls(f, T), NEW i \in Indexes, NEW v \in T
    PROVE  HoldsCall(Extended(f, i, v), T, f, i, v)
  BY DEF IsCalls, Extended, HoldsCall

\* What a function of calls has: indexes, and values of its type.
LEMMA CallsValues ==
    ASSUME NEW T, NEW f, IsCalls(f, T), NEW i \in DOMAIN f
    PROVE  i \in Indexes /\ f[i] \in T
  BY DEF IsCalls

\* What a delta makes of a call.
IsCallAfter(t, i, c, n, a) ==
    /\ t \in ToolType
    /\ t.arguments = (IF i \in DOMAIN tools THEN tools[i].arguments ELSE 0) + a
    /\ (i \notin DOMAIN tools /\ n # None) =>
          t.added /\ t.name = n /\ t.callID = Or(c, Default(i))
    /\ (i \in DOMAIN tools /\ tools[i].added) =>
          t.added /\ t.name = Or(n, tools[i].name) /\ t.callID = Or(c, tools[i].callID)
LEMMA ToolAfterFacts ==
    ASSUME TypeOK, NEW i \in Indexes, NEW c \in CallIds \cup {None},
           NEW n \in Names \cup {None}, NEW a \in {0, 1}
    PROVE  IsCallAfter(ToolAfter(i, c, n, a), i, c, n, a)
  <1> DEFINE old == IF i \in DOMAIN tools THEN tools[i] ELSE Blank
             k == NextToolOutputIndex(i)
             t == ToolAfter(i, c, n, a)
             id == Or(c, old.callID)
             now == ~old.added /\ (id # None \/ Or(n, old.name) # None)
  <1>1. old \in ToolType
    BY CallsValues DEF TypeOK, ToolType, Blank
  <1>2. k \in Nat
    BY DEF NextToolOutputIndex, Flag
  <1>3. Default(i) \in {<<"call", j>> : j \in Indexes} /\ Default(i) # None
    BY DEF Default
  <1>4. t = [output |-> IF now THEN k ELSE old.output,
             callID |-> IF now THEN Or(id, Default(i)) ELSE id,
             name |-> Or(n, old.name), arguments |-> old.arguments + a,
             added |-> old.added \/ now]
    BY DEF ToolAfter
  <1>5. i \notin DOMAIN tools => old = Blank
    OBVIOUS
  <1>6. i \in DOMAIN tools => old = tools[i]
    OBVIOUS
  <1> HIDE DEF old, k, t
  <1>7. old.callID \in CallIds \cup {None} \cup {<<"call", j>> : j \in Indexes}
        /\ old.name \in Names \cup {None} /\ old.arguments \in Nat /\ old.output \in Nat
        /\ old.added \in BOOLEAN
    BY <1>1 DEF ToolType
  <1>8. t \in ToolType
    <2>1. (IF now THEN k ELSE old.output) \in Nat /\ old.arguments + a \in Nat
      BY <1>2, <1>7
    <2>2. Or(n, old.name) \in Names \cup {None}
          /\ id \in CallIds \cup {None} \cup {<<"call", j>> : j \in Indexes}
      BY <1>7 DEF Or
    <2>3. (IF now THEN Or(id, Default(i)) ELSE id)
             \in CallIds \cup {None} \cup {<<"call", j>> : j \in Indexes}
      BY <1>3, <2>2 DEF Or
    <2>4. (old.added \/ now) \in BOOLEAN
      OBVIOUS
    <2> HIDE DEF now, id
    <2> QED
      BY <1>4, <2>1, <2>2, <2>3, <2>4 DEF ToolType
  <1>9. t.arguments = (IF i \in DOMAIN tools THEN tools[i].arguments ELSE 0) + a
    BY <1>4, <1>5, <1>6 DEF Blank
  <1>10. ASSUME i \notin DOMAIN tools, n # None
         PROVE  t.added /\ t.name = n /\ t.callID = Or(c, Default(i))
    <2>1. old.callID = None /\ ~old.added /\ old.name = None
      BY <1>5, <1>10 DEF Blank
    <2>2. id = c /\ Or(n, old.name) = n
      BY <1>10, <2>1 DEF Or
    <2> QED
      BY <1>4, <1>10, <2>1, <2>2
  <1>11. ASSUME i \in DOMAIN tools, tools[i].added
         PROVE  t.added /\ t.name = Or(n, tools[i].name) /\ t.callID = Or(c, tools[i].callID)
    BY <1>4, <1>6, <1>11
  <1> QED
    BY <1>8, <1>9, <1>10, <1>11 DEF t, IsCallAfter

\* A call as the supplier has sent it so far, after one more delta.
LEMMA SentCallFacts ==
    ASSUME TypeOK, NEW i \in Indexes, NEW c \in CallIds \cup {None},
           NEW n \in Names \cup {None}, NEW a \in {0, 1}
    PROVE  /\ SentCall(i, c, n, a) \in SentType
           /\ i \notin DOMAIN sent.calls =>
                 SentCall(i, c, n, a) = [id |-> c, name |-> n, arguments |-> a]
           /\ i \in DOMAIN sent.calls =>
                 SentCall(i, c, n, a) = [id |-> Or(c, sent.calls[i].id),
                                         name |-> Or(n, sent.calls[i].name),
                                         arguments |-> sent.calls[i].arguments + a]
  <1>1. CASE i \in DOMAIN sent.calls
    <2>1. IsCalls(sent.calls, SentType)
      BY DEF TypeOK
    <2>2. sent.calls[i] \in SentType
      BY <1>1, <2>1, CallsValues
    <2> QED
      BY <1>1, <2>2 DEF SentCall, SentType, Or
  <1>2. CASE i \notin DOMAIN sent.calls
    BY <1>2 DEF SentCall, SentType, Or
  <1> QED
    BY <1>1, <1>2

(***************************************************************************)
(* The invariant holds initially and is preserved.                         *)
(***************************************************************************)
\* The records of messages sent.
Sents(C) ==
    [message : BOOLEAN, id : ChatIds \cup {None}, reasoning : Nat, thoughts : Nat,
     leading : BOOLEAN, text : Nat, refusal : BOOLEAN, calls : C,
     function : Names \cup {None}, finish : Finishes]

LEMMA InitInvariant == Init => IInv
  <1> SUFFICES ASSUME Init PROVE IInv
    OBVIOUS
  <1>1. IsCalls(tools, ToolType) /\ IsCalls(sent.calls, SentType)
    BY EmptyCalls DEF Init
  <1>2. DOMAIN tools = {} /\ DOMAIN sent.calls = {}
    BY EmptyCalls DEF Init
  <1>3. TypeOK
    <2>1. terminals \in Seq({"completed", "failed"})
      BY DEF Init
    <2>2. chunks \in 0 .. MaxChunks /\ text \in Nat /\ reasoning \in Nat
      BY DEF Init
    <2>3. sent \in Sents({sent.calls})
      BY DEF Init, Finishes, Sents
    <2> QED
      BY <1>1, <2>1, <2>2, <2>3 DEF Init, TypeOK, Finishes, Sents
  <1>4. Gathered
    BY <1>2 DEF Init, Gathered, Or
  <1>5. ~Closed /\ Counted /\ NamedInOrder /\ Delivered
    <2>1. terminals = <<>> /\ DOMAIN terminals = {}
      BY EmptyCalls DEF Init
    <2>2. ~Closed
      BY <2>1 DEF Closed
    <2> QED
      BY <1>2, <2>1, <2>2 DEF Init, Counted, NamedInOrder, Delivered
  <1> QED
    BY <1>3, <1>4, <1>5 DEF IInv

\* The deltas are typed.
LEMMA ChunkType ==
    ASSUME TypeOK, NEW id \in ChatIds \cup {None}, Chunk(id)
    PROVE  /\ started' \in BOOLEAN /\ completed' \in BOOLEAN
           /\ responseID' \in ChatIds \cup {Compat} /\ chunks' \in 0 .. MaxChunks
           /\ link' \in {"open", "ended", "broken", "readerGone"}
           /\ terminals' = terminals /\ terminals' \in Seq({"completed", "failed"})
  BY DEF TypeOK, Chunk, Or

\* What a chunk leaves alone of the end.
LEMMA ChunkCounts ==
    ASSUME Counted, NEW id, Chunk(id)
    PROVE  Counted' /\ (Closed' <=> Closed) /\ terminals' = terminals /\ answer' = answer
  <1>1. UNCHANGED <<completed, answer, terminals, link>>
    BY DEF Chunk
  <1> QED
    BY <1>1 DEF Counted, Closed

\* A chunk after the end only ends the order.
LEMMA LateChunk ==
    ASSUME IInv, NEW id \in ChatIds \cup {None}, Chunk(id), terminals # <<>>,
           sent' = sent, ~orderly', orderly' \in BOOLEAN, IsCalls(tools', ToolType),
           text' \in Nat, reasoning' \in Nat, finishReason' \in Finishes
    PROVE  IInv'
  <1>1. TypeOK'
    BY ChunkType DEF IInv, TypeOK
  <1>2. Counted' /\ (Closed' <=> Closed) /\ terminals' = terminals /\ answer' = answer
    BY ChunkCounts DEF IInv
  <1>3. Gathered' /\ NamedInOrder'
    BY <1>2 DEF Gathered, NamedInOrder
  <1>4. Delivered'
    BY <1>2 DEF IInv, Delivered
  <1> QED
    BY <1>1, <1>2, <1>3, <1>4 DEF IInv

\* A chunk without a tool call makes the message m.
LEMMA PlainChunk ==
    ASSUME IInv, NEW id \in ChatIds \cup {None}, Chunk(id),
           NEW m \in Sents({sent.calls}), m.id = sent.id, Becomes(id, m),
           m.thoughts = 0 => ~m.leading,
           tools' = tools, text' \in Nat, reasoning' \in Nat, finishReason' \in Finishes,
           terminals = <<>> => /\ text' = m.text /\ reasoning' = m.reasoning + m.thoughts
                               /\ finishReason' = m.finish,
           orderly' \in BOOLEAN, orderly' => InTurn(id)
    PROVE  IInv'
  <1>1. CASE terminals # <<>>
    BY <1>1, LateChunk DEF IInv, TypeOK, Becomes, InTurn
  <1>2. CASE terminals = <<>>
    <2> DEFINE x == Or(id, sent.id)
    <2>1. x \in ChatIds \cup {None}
      BY DEF IInv, TypeOK, Or
    <2>2. sent' = [m EXCEPT !.id = x]
      BY <1>2 DEF Becomes
    <2> HIDE DEF x
    <2>3. /\ sent' \in Sents({sent.calls}) /\ sent'.id = x /\ sent'.calls = sent.calls
          /\ sent'.text = m.text /\ sent'.reasoning = m.reasoning /\ sent'.thoughts = m.thoughts
          /\ sent'.finish = m.finish /\ sent'.leading = m.leading
      BY <2>1, <2>2 DEF Sents
    <2>4. TypeOK'
      <3>1. IsCalls(tools, ToolType) /\ IsCalls(sent.calls, SentType)
        BY DEF IInv, TypeOK
      <3>2. sent' \in Sents({sent'.calls})
        BY <2>3
      <3>3. IsCalls(tools', ToolType) /\ IsCalls(sent'.calls, SentType)
        BY <2>3, <3>1
      <3> QED
        BY <3>2, <3>3, ChunkType DEF IInv, TypeOK, Sents
    <2>5. Counted' /\ (Closed' <=> Closed) /\ ~Closed
      BY <1>2, ChunkCounts DEF IInv, Closed
    <2>6. Gathered'
      <3>1. responseID' = Or(sent'.id, Compat)
        <4>1. responseID = Or(sent.id, Compat) /\ responseID' = Or(id, responseID)
          BY <1>2 DEF IInv, Gathered, Chunk
        <4> QED
          BY <2>3, <4>1 DEF x, Or
      <3> QED
        BY <1>2, <2>3, <3>1 DEF IInv, Gathered
    <2>7. NamedInOrder'
      BY <2>3, <2>5 DEF IInv, NamedInOrder, InTurn
    <2>8. Delivered'
      BY <2>3, <2>5 DEF IInv, Delivered
    <2> QED
      BY <2>4, <2>5, <2>6, <2>7, <2>8 DEF IInv
  <1> QED
    BY <1>1, <1>2

\* The deltas without a tool call.
LEMMA TextStep ==
    ASSUME IInv, NEW id \in ChatIds \cup {None},
           \/ ReasoningDelta(id) \/ TextDelta(id) \/ ThinkDelta(id) \/ OtherChunk(id)
           \/ \E r \in {"stop", "length"} : Finish(id, r)
    PROVE  IInv'
  <1>1. /\ sent \in Sents({sent.calls}) /\ text \in Nat /\ reasoning \in Nat
        /\ finishReason \in Finishes
    BY DEF IInv, TypeOK, Sents
  <1>2. /\ sent.thoughts = 0 => ~sent.leading
        /\ terminals = <<>> => /\ text = sent.text /\ finishReason = sent.finish
                               /\ reasoning = sent.reasoning + sent.thoughts
    BY DEF IInv, Gathered, Delivered
  <1>3. sent.reasoning \in Nat /\ sent.thoughts \in Nat /\ sent.text \in Nat
    BY <1>1 DEF Sents
  <1>4. CASE ReasoningDelta(id)
    <2> DEFINE z == sent.reasoning + 1
               m == [[sent EXCEPT !.reasoning = z] EXCEPT !.message = TRUE]
    <2>0. z \in Nat /\ z = sent.reasoning + 1
      BY <1>3
    <2> HIDE DEF z
    <2>1. /\ m \in Sents({sent.calls}) /\ m.id = sent.id /\ m.thoughts = sent.thoughts
          /\ m.leading = sent.leading /\ m.text = sent.text /\ m.finish = sent.finish
          /\ m.reasoning = z
      BY <1>1, <2>0 DEF Sents
    <2>2. /\ Chunk(id) /\ Becomes(id, m) /\ tools' = tools /\ text' = text
          /\ reasoning' = reasoning + 1 /\ finishReason' = finishReason
          /\ orderly' = (InTurn(id) /\ ReasoningFirst)
      BY <1>4 DEF ReasoningDelta, Sends, z
    <2>3. reasoning' \in Nat
      BY <1>1, <2>2
    <2>4. terminals = <<>> => reasoning' = m.reasoning + m.thoughts
      BY <1>2, <1>3, <2>0, <2>1, <2>2
    <2> HIDE DEF m
    <2>5. orderly' \in BOOLEAN /\ (orderly' => InTurn(id))
      BY <2>2, Zenon
    <2> QED
      BY <1>1, <1>2, <2>1, <2>2, <2>3, <2>4, <2>5, PlainChunk
  <1>5. CASE TextDelta(id)
    <2> DEFINE z == sent.text + 1
               m == [[sent EXCEPT !.text = z] EXCEPT !.message = TRUE]
    <2>0. z \in Nat /\ z = sent.text + 1
      BY <1>3
    <2> HIDE DEF z
    <2>1. /\ m \in Sents({sent.calls}) /\ m.id = sent.id /\ m.thoughts = sent.thoughts
          /\ m.leading = sent.leading /\ m.text = z /\ m.finish = sent.finish
          /\ m.reasoning = sent.reasoning
      BY <1>1, <2>0 DEF Sents
    <2>2. /\ Chunk(id) /\ Becomes(id, m) /\ tools' = tools /\ text' = text + 1
          /\ reasoning' = reasoning /\ finishReason' = finishReason
          /\ orderly' = (InTurn(id) /\ TextBeforeCalls)
      BY <1>5 DEF TextDelta, Sends, z
    <2>3. text' \in Nat
      BY <1>1, <2>2
    <2> HIDE DEF m
    <2>5. orderly' \in BOOLEAN /\ (orderly' => InTurn(id))
      BY <2>2, Zenon
    <2> QED
      BY <1>1, <1>2, <2>0, <2>1, <2>2, <2>3, <2>5, PlainChunk
  <1>6. CASE ThinkDelta(id)
    <2> DEFINE lead == sent.leading \/ sent.text = 0
               y == sent.thoughts + 1
               z == sent.text + 1
               m == [[sent EXCEPT !.thoughts = y, !.text = z, !.leading = lead] EXCEPT !.message = TRUE]
    <2>0. /\ lead \in BOOLEAN /\ y \in Nat /\ z \in Nat
          /\ y = sent.thoughts + 1 /\ z = sent.text + 1
      BY <1>3
    <2> HIDE DEF lead, y, z
    <2>1. /\ m \in Sents({sent.calls}) /\ m.id = sent.id /\ m.thoughts = y
          /\ m.text = z /\ m.finish = sent.finish
          /\ m.reasoning = sent.reasoning
      BY <1>1, <2>0 DEF Sents
    <2>2. /\ Chunk(id) /\ Becomes(id, m) /\ tools' = tools /\ text' = text + 1
          /\ reasoning' = reasoning + 1 /\ finishReason' = finishReason
          /\ orderly' = (InTurn(id) /\ ReasoningFirst /\ TextBeforeCalls)
      BY <1>6 DEF ThinkDelta, Sends, lead, y, z
    <2> HIDE DEF m
    <2>3. text' \in Nat /\ reasoning' \in Nat /\ m.thoughts # 0
      BY <1>1, <1>3, <2>0, <2>1, <2>2
    <2>4. terminals = <<>> => reasoning' = m.reasoning + m.thoughts
      BY <1>2, <1>3, <2>0, <2>1, <2>2
    <2>5. orderly' \in BOOLEAN /\ (orderly' => InTurn(id))
      BY <2>2, Zenon
    <2> QED
      BY <1>1, <1>2, <2>0, <2>1, <2>2, <2>3, <2>4, <2>5, PlainChunk
  <1>7. CASE OtherChunk(id)
    <2>1. PICK m \in Sents({sent.calls}) :
             /\ m.id = sent.id /\ m.thoughts = sent.thoughts /\ m.leading = sent.leading
             /\ m.text = sent.text /\ m.finish = sent.finish /\ m.reasoning = sent.reasoning
             /\ Becomes(id, m)
      <3>1. CASE Sends(id, [sent EXCEPT !.refusal = TRUE])
        <4> DEFINE m == [[sent EXCEPT !.refusal = TRUE] EXCEPT !.message = TRUE]
        <4>1. /\ m \in Sents({sent.calls})
              /\ m.id = sent.id /\ m.thoughts = sent.thoughts /\ m.leading = sent.leading
              /\ m.text = sent.text /\ m.finish = sent.finish /\ m.reasoning = sent.reasoning
          BY <1>1 DEF Sents
        <4>2. Becomes(id, m)
          BY <3>1 DEF Sends
        <4> HIDE DEF m
        <4> QED
          BY <4>1, <4>2
      <3>2. ASSUME NEW n \in Names, Sends(id, [sent EXCEPT !.function = n])
            PROVE  \E m \in Sents({sent.calls}) :
                     /\ m.id = sent.id /\ m.thoughts = sent.thoughts /\ m.leading = sent.leading
                     /\ m.text = sent.text /\ m.finish = sent.finish /\ m.reasoning = sent.reasoning
                     /\ Becomes(id, m)
        <4> DEFINE m == [[sent EXCEPT !.function = n] EXCEPT !.message = TRUE]
        <4>1. /\ m \in Sents({sent.calls})
              /\ m.id = sent.id /\ m.thoughts = sent.thoughts /\ m.leading = sent.leading
              /\ m.text = sent.text /\ m.finish = sent.finish /\ m.reasoning = sent.reasoning
          BY <1>1 DEF Sents
        <4>2. Becomes(id, m)
          BY <3>2 DEF Sends
        <4> HIDE DEF m
        <4> QED
          BY <4>1, <4>2
      <3>3. CASE Becomes(id, sent)
        BY <1>1, <3>3
      <3> QED
        BY <1>7, <3>1, <3>2, <3>3 DEF OtherChunk
    <2>2. /\ Chunk(id) /\ tools' = tools /\ text' = text
          /\ reasoning' = reasoning /\ finishReason' = finishReason /\ orderly' = InTurn(id)
      BY <1>7 DEF OtherChunk
    <2>5. orderly' \in BOOLEAN /\ (orderly' => InTurn(id))
      BY <2>2 DEF InTurn, IInv, TypeOK
    <2> QED
      BY <1>1, <1>2, <2>1, <2>2, <2>5, PlainChunk
  <1>8. ASSUME NEW r \in {"stop", "length"}, Finish(id, r) PROVE IInv'
    <2> DEFINE m == [[sent EXCEPT !.finish = r] EXCEPT !.message = TRUE]
    <2>0. r \in Finishes
      BY DEF Finishes
    <2>1. /\ m \in Sents({sent.calls}) /\ m.id = sent.id /\ m.thoughts = sent.thoughts
          /\ m.leading = sent.leading /\ m.text = sent.text /\ m.finish = r
          /\ m.reasoning = sent.reasoning
      BY <1>1, <2>0 DEF Sents
    <2>2. /\ Chunk(id) /\ Becomes(id, m) /\ tools' = tools /\ text' = text
          /\ reasoning' = reasoning /\ finishReason' = r /\ orderly' = InTurn(id)
      BY <1>8 DEF Finish, Sends
    <2> HIDE DEF m
    <2>5. orderly' \in BOOLEAN /\ (orderly' => InTurn(id))
      BY <2>2 DEF InTurn, IInv, TypeOK
    <2> QED
      BY <1>1, <1>2, <2>0, <2>1, <2>2, <2>5, PlainChunk
  <1> QED
    BY <1>4, <1>5, <1>6, <1>7, <1>8

\* A delta of a call keeps the invariant.
LEMMA ToolStep ==
    ASSUME IInv, NEW id \in ChatIds \cup {None}, NEW i \in Indexes, NEW c \in CallIds \cup {None},
           NEW n \in Names \cup {None}, NEW a \in {0, 1}, ToolDelta(id, i, c, n, a)
    PROVE  IInv'
  <1> DEFINE t == ToolAfter(i, c, n, a)
             s == SentCall(i, c, n, a)
             y == Or(id, sent.id)
  <1>0. Chunk(id) /\ UNCHANGED <<text, reasoning, finishReason>>
    BY DEF ToolDelta
  <1>1. /\ TypeOK /\ IsCalls(tools, ToolType) /\ IsCalls(sent.calls, SentType)
        /\ tools' = Extended(tools, i, t)
    BY DEF IInv, TypeOK, ToolDelta
  <1>3. /\ IsCalls(tools', ToolType) /\ DOMAIN tools' = DOMAIN tools \cup {i}
        /\ tools'[i] = t /\ \A j \in DOMAIN tools : j # i => tools'[j] = tools[j]
    <2>1. IsCallAfter(t, i, c, n, a)
      BY <1>1, ToolAfterFacts
    <2>t. t \in ToolType
      BY <2>1 DEF IsCallAfter
    <2>2. IsCalls(tools, ToolType) /\ tools' = Extended(tools, i, t)
      BY <1>1
    <2> HIDE DEF t
    <2>3. HoldsCall(Extended(tools, i, t), ToolType, tools, i, t)
      BY <2>t, <2>2, ExtendedCalls
    <2> QED
      BY <2>2, <2>3 DEF HoldsCall
  <1>12. /\ t.arguments = (IF i \in DOMAIN tools THEN tools[i].arguments ELSE 0) + a
         /\ (i \notin DOMAIN tools /\ n # None) =>
               t.added /\ t.name = n /\ t.callID = Or(c, Default(i))
         /\ (i \in DOMAIN tools /\ tools[i].added) =>
               t.added /\ t.name = Or(n, tools[i].name) /\ t.callID = Or(c, tools[i].callID)
    <2>1. IsCallAfter(t, i, c, n, a)
      BY <1>1, ToolAfterFacts
    <2> HIDE DEF t
    <2> QED
      BY <2>1 DEF IsCallAfter
  <1> HIDE DEF t
  <1>9. /\ orderly' => InTurn(id)
        /\ orderly' => IF i \in DOMAIN tools
                       THEN c \in {None, tools[i].callID} /\ n \in {None, tools[i].name}
                       ELSE n # None
        /\ orderly' \in BOOLEAN
    BY DEF ToolDelta
  <1>10. CASE terminals # <<>>
    <2>1. sent' = sent /\ ~orderly'
      BY <1>9, <1>10 DEF ToolDelta, Sends, Becomes, InTurn
    <2> QED
      BY <1>0, <1>1, <1>3, <1>9, <1>10, <2>1, LateChunk DEF TypeOK
  <1>11. CASE terminals = <<>>
    <2>0. sent' = [[[sent EXCEPT !.calls = Extended(sent.calls, i, s)] EXCEPT !.message = TRUE]
                      EXCEPT !.id = y]
      <3>1. /\ sent' = [[[sent EXCEPT !.calls = Extended(sent.calls, i, s)] EXCEPT !.message = TRUE]
                            EXCEPT !.id = Or(id, [[sent EXCEPT !.calls = Extended(sent.calls, i, s)]
                                                    EXCEPT !.message = TRUE].id)]
        BY <1>11 DEF ToolDelta, Sends, Becomes
      <3>2. [[sent EXCEPT !.calls = Extended(sent.calls, i, s)] EXCEPT !.message = TRUE].id = sent.id
        BY <1>1 DEF TypeOK
      <3> QED
        BY <3>1, <3>2
    <2>9. y \in ChatIds \cup {None}
      BY <1>1 DEF TypeOK, Or
    <2>1. /\ s \in SentType
          /\ i \notin DOMAIN sent.calls => s = [id |-> c, name |-> n, arguments |-> a]
          /\ i \in DOMAIN sent.calls => s = [id |-> Or(c, sent.calls[i].id),
                                             name |-> Or(n, sent.calls[i].name),
                                             arguments |-> sent.calls[i].arguments + a]
      BY <1>1, SentCallFacts
    <2> HIDE DEF s, y
    <2>2. /\ sent' \in Sents({sent'.calls})
          /\ sent'.calls = Extended(sent.calls, i, s) /\ sent'.id = y
          /\ sent'.text = sent.text /\ sent'.reasoning = sent.reasoning /\ sent'.finish = sent.finish
          /\ sent'.thoughts = sent.thoughts /\ sent'.leading = sent.leading
      BY <1>1, <2>0, <2>9 DEF TypeOK, Sents
    <2>3. /\ IsCalls(sent'.calls, SentType) /\ DOMAIN sent'.calls = DOMAIN sent.calls \cup {i}
          /\ sent'.calls[i] = s
          /\ \A j \in DOMAIN sent.calls : j # i => sent'.calls[j] = sent.calls[j]
      <3>1. IsCalls(sent.calls, SentType) /\ s \in SentType
        BY <1>1, <2>1
      <3>2. HoldsCall(Extended(sent.calls, i, s), SentType, sent.calls, i, s)
        BY <3>1, ExtendedCalls
      <3> QED
        BY <2>2, <3>2 DEF HoldsCall
    <2>4. TypeOK'
      BY <1>0, <1>1, <1>3, <1>9, <2>2, <2>3, ChunkType DEF TypeOK, Sents
    <2>5. Counted' /\ (Closed' <=> Closed) /\ ~Closed
      BY <1>0, <1>11, ChunkCounts DEF IInv, Closed
    <2>6. Gathered'
      <3>1. \A j \in DOMAIN tools' : tools'[j].arguments = sent'.calls[j].arguments
        BY <1>3, <1>11, <1>12, <2>1, <2>3 DEF IInv, Gathered
      <3>2. responseID' = Or(sent'.id, Compat)
        <4>1. responseID = Or(sent.id, Compat) /\ responseID' = Or(id, responseID)
          BY <1>0, <1>11 DEF IInv, Gathered, Chunk
        <4> QED
          BY <2>2, <4>1 DEF y, Or
      <3> QED
        BY <1>0, <1>3, <1>11, <2>2, <2>3, <3>1, <3>2 DEF IInv, Gathered
    <2>7. NamedInOrder'
      <3> SUFFICES ASSUME orderly', NEW j \in DOMAIN tools'
                   PROVE  /\ tools'[j].added /\ tools'[j].name = sent'.calls[j].name
                          /\ tools'[j].callID = Or(sent'.calls[j].id, Default(j))
        BY <2>5 DEF NamedInOrder
      <3>1. /\ orderly
            /\ IF i \in DOMAIN tools
               THEN c \in {None, tools[i].callID} /\ n \in {None, tools[i].name}
               ELSE n # None
        BY <1>9 DEF InTurn
      <3>2. CASE j # i
        BY <1>3, <2>3, <3>1, <3>2 DEF IInv, NamedInOrder, Gathered
      <3>3. CASE j = i /\ i \notin DOMAIN tools
        <4>1. i \notin DOMAIN sent.calls /\ n # None
          BY <3>1, <3>3 DEF IInv, Gathered
        <4>2. s.id = c /\ s.name = n
          BY <2>1, <4>1
        <4> QED
          BY <1>3, <1>12, <2>3, <3>3, <4>1, <4>2
      <3>4. CASE j = i /\ i \in DOMAIN tools
        <4>1. /\ tools[i].added /\ tools[i].name = sent.calls[i].name
              /\ tools[i].callID = Or(sent.calls[i].id, Default(i))
              /\ sent.calls[i].id \in CallIds \cup {None}
          <5>1. i \in DOMAIN sent.calls
            BY <3>1, <3>4 DEF IInv, Gathered
          <5>2. sent.calls[i] \in SentType
            BY <1>1, <5>1, CallsValues
          <5> QED
            BY <3>1, <3>4, <5>2 DEF IInv, NamedInOrder, SentType
        <4>2. t.added /\ t.name = Or(n, tools[i].name) /\ t.callID = Or(c, tools[i].callID)
          BY <1>12, <3>4, <4>1
        <4>3. s.name = Or(n, sent.calls[i].name) /\ s.id = Or(c, sent.calls[i].id)
          BY <2>1, <3>1, <3>4 DEF IInv, Gathered
        <4>4. c = None \/ c = sent.calls[i].id
          BY <3>1, <3>4, <4>1 DEF Or
        <4> QED
          BY <1>3, <2>3, <3>1, <3>4, <4>1, <4>2, <4>3, <4>4 DEF Or
      <3> QED
        BY <3>2, <3>3, <3>4
    <2>8. Delivered'
      BY <2>2, <2>5 DEF IInv, Delivered
    <2> QED
      BY <2>4, <2>5, <2>6, <2>7, <2>8 DEF IInv
  <1> QED
    BY <1>10, <1>11

\* One more final event.
LEMMA OneMoreEvent ==
    ASSUME NEW T, NEW s \in Seq(T), NEW x \in T
    PROVE  /\ Append(s, x) \in Seq(T) /\ Append(s, x) # <<>>
           /\ s = <<>> => Head(Append(s, x)) = x
           /\ s # <<>> => Head(Append(s, x)) = Head(s)
           /\ \A k \in DOMAIN Append(s, x) :
                 Append(s, x)[k] = x \/ (k \in DOMAIN s /\ Append(s, x)[k] = s[k])
  OBVIOUS

\* What the final response holds when it is made.
LEMMA FinalHolds ==
    ASSUME Gathered, terminals = <<>>
    PROVE  /\ sent.reasoning + sent.thoughts > 0 =>
                 \E x \in Final.reasoning : x.size = sent.reasoning + sent.thoughts
           /\ sent.text > 0 => \E x \in Final.message : x.size = sent.text
           /\ \A i \in DOMAIN sent.calls : Final.calls[i].size = sent.calls[i].arguments
  <1>1. ASSUME sent.reasoning + sent.thoughts > 0
        PROVE  \E x \in Final.reasoning : x.size = sent.reasoning + sent.thoughts
    BY <1>1 DEF Gathered, Final, Item, ReasoningAdded
  <1>2. ASSUME sent.text > 0 PROVE \E x \in Final.message : x.size = sent.text
    BY <1>2 DEF Gathered, Final, MessageItem, TextAdded
  <1>3. \A i \in DOMAIN sent.calls : Final.calls[i].size = sent.calls[i].arguments
    BY DEF Gathered, Final, CallItems, CallItem
  <1> QED
    BY <1>1, <1>2, <1>3

\* The end of a stream keeps the invariant, however it comes.
LEMMA EndStep ==
    ASSUME IInv, Ending
    PROVE  IInv'
  <1> USE DEF FinishOnce, Complete, Keep, converter, reader
  <1>0. /\ UNCHANGED <<responseID, text, reasoning, finishReason, tools, sent, orderly>>
        /\ link' \in {link, "ended", "broken", "readerGone"}
    BY DEF Ending, Done, ErrorBlock, Eof, Broken, ReaderGone
  <1>5. \/ UNCHANGED <<started, completed, answer, terminals>> /\ (link' = "ended" => completed)
        \/ ~completed /\ started' /\ completed' /\ answer' = Final /\ terminals' = Append(terminals, "completed")
        \/ link' = link /\ started' /\ completed' /\ answer' = answer /\ terminals' = Append(terminals, "failed")
    BY DEF IInv, Counted, Ending, Done, ErrorBlock, Eof, Broken, ReaderGone
  <1>10. started' \in BOOLEAN /\ completed' \in BOOLEAN
    BY DEF IInv, TypeOK, Ending, Done, ErrorBlock, Eof, Broken, ReaderGone
  <1>11. chunks' = chunks \/ (chunks < MaxChunks /\ chunks' = chunks + 1)
    BY DEF Ending, Done, ErrorBlock, Eof, Broken, ReaderGone
  <1>6. started' \in BOOLEAN /\ completed' \in BOOLEAN /\ chunks' \in 0 .. MaxChunks
    BY <1>10, <1>11 DEF IInv, TypeOK
  <1>7. TypeOK /\ terminals \in Seq({"completed", "failed"})
    BY DEF IInv, TypeOK
  <1>8. Final' = Final
    BY <1>0 DEF Final, CallItems, ReasoningAdded, TextAdded
  <1> HIDE DEF FinishOnce, Complete, Keep
  <1>9. ASSUME terminals' \in Seq({"completed", "failed"}) PROVE TypeOK'
    BY <1>0, <1>6, <1>7, <1>9 DEF TypeOK
  <1>1. CASE UNCHANGED <<started, completed, answer, terminals>> /\ (link' = "ended" => completed)
    <2>1. TypeOK' /\ (Closed' <=> Closed)
      BY <1>1, <1>7, <1>9 DEF Closed
    <2>2. Counted'
      BY <1>1, <2>1 DEF IInv, Counted
    <2>3. Gathered' /\ Delivered'
      BY <1>0, <1>1, <2>1 DEF IInv, Gathered, Delivered
    <2>4. NamedInOrder'
      <3> HIDE DEF Final
      <3> QED
        BY <1>0, <1>1, <1>8, <2>1 DEF IInv, NamedInOrder
    <2> QED
      BY <2>1, <2>2, <2>3, <2>4 DEF IInv
  <1>2. CASE ~completed /\ completed' /\ answer' = Final /\ terminals' = Append(terminals, "completed")
    <2>1. terminals = <<>> /\ ~Closed
      BY <1>2 DEF IInv, Counted, Closed
    <2>2. terminals' \in Seq({"completed", "failed"}) /\ Closed'
      BY <1>2, <1>7, <2>1, OneMoreEvent DEF Closed
    <2>3. TypeOK'
      BY <1>9, <2>2
    <2>4. Counted'
      BY <1>2, <2>2 DEF Counted, Closed
    <2>5. Gathered /\ Gathered'
      BY <1>0, <2>1 DEF IInv, Gathered
    <2>6. NamedInOrder'
      <3> HIDE DEF Final
      <3> QED
        BY <1>0, <1>2, <1>8 DEF IInv, NamedInOrder
    <2>7. Delivered'
      <3>1. sent' = sent /\ answer' = Final
        BY <1>0, <1>2
      <3> HIDE DEF Final
      <3> QED
        BY <2>1, <2>5, <3>1, FinalHolds DEF IInv, Delivered
    <2> QED
      BY <2>3, <2>4, <2>5, <2>6, <2>7 DEF IInv
  <1>3. CASE link' = link /\ completed' /\ answer' = answer /\ terminals' = Append(terminals, "failed")
    <2>1. /\ terminals' \in Seq({"completed", "failed"}) /\ terminals' # <<>>
          /\ Closed' <=> Closed
          /\ \A k \in DOMAIN terminals' :
                terminals'[k] = "completed" => k \in DOMAIN terminals /\ terminals[k] = "completed"
      BY <1>3, <1>7, OneMoreEvent DEF Closed
    <2>3. TypeOK'
      BY <1>9, <2>1
    <2>4. Counted'
      BY <1>3, <2>1 DEF IInv, Counted
    <2>5. Gathered' /\ Delivered'
      BY <1>0, <1>3, <2>1 DEF IInv, Gathered, Delivered
    <2>6. NamedInOrder'
      <3> HIDE DEF Final
      <3> QED
        BY <1>0, <1>3, <1>8, <2>1 DEF IInv, NamedInOrder
    <2> QED
      BY <2>3, <2>4, <2>5, <2>6 DEF IInv
  <1> QED
    BY <1>5, <1>1, <1>2, <1>3

\* So does every step,
LEMMA NextInvariant == IInv /\ [Next]_vars => IInv'
  <1> SUFFICES ASSUME IInv, [Next]_vars PROVE IInv'
    OBVIOUS
  <1>1. CASE Delta
    BY <1>1, TextStep, ToolStep DEF Delta
  <1>2. CASE Ending
    BY <1>2, EndStep
  <1>3. CASE UNCHANGED vars
    <2>1. TypeOK'
      BY <1>3 DEF vars, converter, IInv, TypeOK
    <2>2. Counted' /\ Gathered' /\ Delivered'
      BY <1>3 DEF vars, converter, IInv, Counted, Closed, Gathered, Delivered
    <2>3. NamedInOrder'
      <3>1. Final' = Final
        BY <1>3 DEF vars, converter, Final, CallItems, ReasoningAdded, TextAdded
      <3> QED
        BY <1>3, <3>1 DEF vars, converter, IInv, NamedInOrder, Closed
    <2> QED
      BY <2>1, <2>2, <2>3 DEF IInv
  <1> QED
    BY <1>1, <1>2, <1>3 DEF Next

\* and it holds of every stream.
LEMMA Invariant == Spec => []IInv
  BY InitInvariant, NextInvariant, PTL DEF Spec

(***************************************************************************)
(* Theorems.                                                               *)
(***************************************************************************)
\* The fields of the converter keep their types, whatever the supplier sends.
THEOREM TypeCorrect == Spec => []TypeOK
  <1>1. IInv => TypeOK
    BY DEF IInv
  <1> QED
    BY <1>1, Invariant, PTL

\* Every fragment sent before the end is in the final response, for any order
\* of deltas and whatever comes after the end.
THEOREM EverythingArrives == Spec => []NothingDropped
  <1>1. IInv => NothingDropped
    <2> SUFFICES ASSUME IInv, "completed" \in ToSet(terminals) PROVE NothingDropped
      BY DEF NothingDropped
    <2>1. Closed
      BY DEF IInv, Counted, ToSet
    <2> QED
      BY <2>1 DEF IInv, Delivered, NothingDropped
  <1> QED
    BY <1>1, Invariant, PTL

\* In a list, the rank of an index is the index.
LEMMA RankInList ==
    ASSUME TypeOK, Listed, NEW i \in DOMAIN tools
    PROVE  Rank(i, DOMAIN tools) = i
  <1>1. i \in Nat /\ \A j \in DOMAIN tools : j \in Nat
    BY CallsValues DEF TypeOK
  <1>2. i \in Indexes
    BY CallsValues DEF TypeOK
  <1>3. \A j \in Nat : j < i => j \in DOMAIN tools
    BY <1>1, <1>2 DEF Listed
  <1>4. {j \in DOMAIN tools : j < i} = 0 .. (i - 1)
    BY <1>1, <1>3
  <1>5. Cardinality(0 .. (i - 1)) = i
    BY <1>1, FS_Interval
  <1> QED
    BY <1>4, <1>5 DEF Rank

\* The two conversions of an answer agree, but for what streams leave out.
THEOREM StreamedLikeWhole == Spec => []AgreesWithWhole
  <1>1. IInv => AgreesWithWhole
    <2> DEFINE whole == Whole(sent)
    <2> SUFFICES ASSUME IInv, orderly, Listed, answer # None, sent.message
                 PROVE  /\ answer.id = whole.id /\ answer.status = whole.status
                        /\ sent.thoughts = 0 => answer.reasoning = whole.reasoning
                        /\ sent.thoughts = 0 /\ ~sent.refusal => answer.message = whole.message
                        /\ sent.calls # <<>> \/ sent.function = None => answer.calls = whole.calls
      BY DEF AgreesWithWhole
    <2>1. answer = Final /\ Gathered
      BY DEF IInv, Counted, NamedInOrder
    <2>2. /\ responseID = Or(sent.id, Compat)
          /\ text = sent.text /\ reasoning = sent.reasoning + sent.thoughts
          /\ finishReason = sent.finish /\ DOMAIN tools = DOMAIN sent.calls
      BY <2>1 DEF Gathered
    <2>3. whole.id = responseID /\ whole.calls = WholeCalls(sent)
      BY <2>2 DEF Whole
    <2>4. answer.id = whole.id /\ answer.status = whole.status
      <3>1. whole.status = IF sent.finish = "length" THEN "incomplete" ELSE "completed"
        BY DEF Whole
      <3>2. answer.id = responseID
            /\ answer.status = IF finishReason = "length" THEN "incomplete" ELSE "completed"
        BY <2>1 DEF Final
      <3> QED
        BY <2>2, <2>3, <3>1, <3>2
    <2>5. ASSUME sent.thoughts = 0 PROVE answer.reasoning = whole.reasoning
      <3>1. sent.reasoning \in Nat /\ ~sent.leading
        BY <2>5 DEF IInv, TypeOK, Delivered
      <3>2. WholeReasoning(sent) = reasoning
        BY <2>2, <2>5, <3>1 DEF WholeReasoning, Flag
      <3>3. whole.reasoning = IF reasoning > 0 THEN {Item(ReasoningId(responseID), reasoning)} ELSE {}
        BY <2>2, <3>2 DEF Whole
      <3> QED
        BY <2>1, <3>3 DEF Final, ReasoningAdded
    <2>6. ASSUME sent.thoughts = 0, ~sent.refusal PROVE answer.message = whole.message
      <3>1. WholeText(sent) = text
        BY <2>2, <2>6 DEF WholeText, IInv, TypeOK, Delivered
      <3>2. sent.refusal = FALSE
        BY <2>6 DEF IInv, TypeOK
      <3>3. whole.message = IF text > 0 THEN {MessageItem(responseID, text, FALSE)} ELSE {}
        BY <2>2, <3>1, <3>2 DEF Whole
      <3> QED
        BY <2>1, <3>3 DEF Final, TextAdded
    <2>7. ASSUME sent.calls # <<>> \/ sent.function = None PROVE answer.calls = whole.calls
      <3>1. \A i \in DOMAIN tools :
               CallItem(tools[i].callID, tools[i].name, tools[i].arguments) =
               CallItem(Or(sent.calls[i].id, Default(Rank(i, DOMAIN sent.calls))),
                        sent.calls[i].name, sent.calls[i].arguments)
        BY <2>1, RankInList DEF IInv, Gathered, NamedInOrder
      <3>2. answer.calls = [i \in DOMAIN tools |->
                              CallItem(tools[i].callID, tools[i].name, tools[i].arguments)]
        BY <2>1 DEF Final, CallItems
      <3>3. WholeCalls(sent) = [i \in DOMAIN sent.calls |->
               CallItem(Or(sent.calls[i].id, Default(Rank(i, DOMAIN sent.calls))),
                        sent.calls[i].name, sent.calls[i].arguments)]
        BY <2>7 DEF WholeCalls
      <3> QED
        BY <2>2, <2>3, <3>1, <3>2, <3>3
    <2> QED
      BY <2>4, <2>5, <2>6, <2>7
  <1> QED
    BY <1>1, Invariant, PTL

\* What a step does to the end of a stream.
LEMMA EndsAsItEnded ==
    ASSUME IInv, IInv', [Next]_vars
    PROVE  /\ terminals # <<>> => /\ answer' = answer
                                  /\ terminals' \in {terminals, Append(terminals, "failed")}
           /\ answer' # None => terminals' # <<>> /\ Head(terminals') = "completed"
           /\ link' = "ended" => terminals' # <<>>
  <1>1. ASSUME NEW id, Chunk(id) PROVE UNCHANGED <<answer, terminals>>
    BY <1>1 DEF Chunk
  <1>2. CASE Delta
    <2>1. \E id : Chunk(id)
      <3>1. \A id : ReasoningDelta(id) => Chunk(id)
        BY DEF ReasoningDelta
      <3>2. \A id : TextDelta(id) => Chunk(id)
        BY DEF TextDelta
      <3>3. \A id : ThinkDelta(id) => Chunk(id)
        BY DEF ThinkDelta
      <3>4. \A id : OtherChunk(id) => Chunk(id)
        BY DEF OtherChunk
      <3>5. \A id, r : Finish(id, r) => Chunk(id)
        BY DEF Finish
      <3>6. \A id, i, c, n, a : ToolDelta(id, i, c, n, a) => Chunk(id)
        BY DEF ToolDelta
      <3> QED
        BY <1>2, <3>1, <3>2, <3>3, <3>4, <3>5, <3>6 DEF Delta
    <2> QED
      BY <1>1, <2>1 DEF IInv, Counted, Closed
  <1>3. CASE Ending
    <2>1. completed <=> terminals # <<>>
      BY DEF IInv, Counted
    <2>2. terminals # <<>> => /\ answer' = answer
                              /\ terminals' \in {terminals, Append(terminals, "failed")}
      BY <1>3, <2>1 DEF Ending, Done, ErrorBlock, Eof, Broken, ReaderGone, Keep, FinishOnce
    <2> QED
      BY <2>2 DEF IInv, Counted, Closed
  <1>4. CASE UNCHANGED vars
    BY <1>4 DEF vars, IInv, Counted, Closed
  <1> QED
    BY <1>2, <1>3, <1>4 DEF Next

\* A stream is completed at most once, first of all, and never after a failure.
THEOREM CompletesOnce == Spec => StreamCompletesOnce
  <1>1. IInv /\ IInv' /\ [Next]_vars
          => [/\ terminals # <<>> =>
                    /\ answer' = answer
                    /\ terminals' \in {terminals, Append(terminals, "failed")}
              /\ answer' # None => terminals' # <<>> /\ Head(terminals') = "completed"
              /\ link' = "ended" => terminals' # <<>>]_vars
    BY EndsAsItEnded
  <1> QED
    BY <1>1, Invariant, PTL DEF Spec, StreamCompletesOnce

(***************************************************************************)
(* What the reader of a stream assembles.                                  *)
(***************************************************************************)
HIDE ConstantsAssumption

\* The events a converter may write.
Ids == [kind : {"rs", "msg", "fc", "ctc"},
        of : ChatIds \cup {Compat, None} \cup CallIds \cup {<<"call", i>> : i \in Indexes}]
Events == {[type |-> "created"]} \cup [type : {"added", "delta", "done"}, index : Nat, id : Ids, size : Nat]

\* A reader takes the events es from r to t.
Reads(r, es, t) ==
    \E g : /\ g[0] = r /\ g[Len(es)] = t
           /\ \A k \in 1 .. Len(es) : g[k] = Receive(g[k - 1], es[k])

\* What FoldLeft computes for each set of the first n positions.
IsFold(h, r, es, n) ==
    h = [s \in SUBSET (1 .. n) |->
            IF s = {} THEN r ELSE LET x == Max(s) IN Receive(h[s \ {x}], es[x])]

\* The function a fold is defined by exists (by induction on n: a set with the
\* last position goes back to one without).
LEMMA FoldExists ==
  ASSUME NEW r, NEW es, NEW n \in Nat
  PROVE  \E h : IsFold(h, r, es, n)
  <1> DEFINE S == {m \in Nat : \E h : IsFold(h, r, es, m)}
  <1>1. 0 \in S
    <2> DEFINE h == [s \in SUBSET (1 .. 0) |-> r]
    <2>1. \A s \in SUBSET (1 .. 0) : s = {}
      OBVIOUS
    <2>2. IsFold(h, r, es, 0)
      BY <2>1 DEF IsFold
    <2> HIDE DEF h
    <2> QED
      BY <2>2
  <1>2. ASSUME NEW m \in Nat, m \in S PROVE m + 1 \in S
    <2>1. PICK h : IsFold(h, r, es, m)
      BY <1>2
    <2> DEFINE f == [s \in SUBSET (1 .. m + 1) |->
                        IF m + 1 \in s THEN Receive(h[s \ {m + 1}], es[m + 1]) ELSE h[s]]
    <2>2. \A s \in SUBSET (1 .. m) : h[s] = IF s = {} THEN r ELSE LET x == Max(s) IN Receive(h[s \ {x}], es[x])
      BY <2>1 DEF IsFold
    <2>3. ASSUME NEW s \in SUBSET (1 .. m + 1)
          PROVE  f[s] = IF s = {} THEN r ELSE LET x == Max(s) IN Receive(f[s \ {x}], es[x])
      <3>1. CASE m + 1 \in s
        <4>1. Max(s) = m + 1
          BY <3>1, MaxIsLast
        <4>2. f[s \ {m + 1}] = h[s \ {m + 1}]
          OBVIOUS
        <4>3. f[s] = Receive(h[s \ {m + 1}], es[m + 1])
          BY <3>1
        <4> HIDE DEF f
        <4> QED
          BY <3>1, <4>1, <4>2, <4>3
      <3>2. CASE m + 1 \notin s
        <4>1. s \in SUBSET (1 .. m)
          BY <3>2
        <4>2. \A x : s \ {x} \in SUBSET (1 .. m + 1) /\ m + 1 \notin s \ {x}
          BY <3>2
        <4>3. f[s] = h[s] /\ \A x : f[s \ {x}] = h[s \ {x}]
          BY <3>2, <4>2
        <4> HIDE DEF f
        <4> QED
          BY <2>2, <4>1, <4>3
      <3> QED
        BY <3>1, <3>2
    <2>4. IsFold(f, r, es, m + 1)
      <3> DEFINE e(s) == IF s = {} THEN r ELSE LET x == Max(s) IN Receive(f[s \ {x}], es[x])
      <3>1. f = [s \in SUBSET (1 .. m + 1) |-> f[s]]
        OBVIOUS
      <3>2. \A s \in SUBSET (1 .. m + 1) : f[s] = e(s)
        BY <2>3
      <3>3. f = [s \in SUBSET (1 .. m + 1) |-> e(s)]
        <4> HIDE DEF f, e
        <4> QED
          BY <3>1, <3>2
      <3> HIDE DEF f
      <3> QED
        BY <3>3 DEF IsFold
    <2> HIDE DEF f
    <2> QED
      BY <2>4
  <1>3. \A m \in Nat : m \in S
    <2> HIDE DEF S
    <2> QED
      BY <1>1, <1>2, SetInduction
  <1> QED
    BY <1>3

\* The reader as it is.
ReaderNow == [started |-> started, items |-> items, complaints |-> complaints]

\* Reading a sequence takes its events one after the other.
LEMMA ReadsAll ==
  ASSUME NEW E, NEW es \in Seq(E)
  PROVE  Reads(ReaderNow, es, Read(es))
  <1> DEFINE n == Len(es)
             c == CHOOSE h : IsFold(h, ReaderNow, es, n)
             g == [k \in 0 .. n |-> c[1 .. k]]
  <1>1. n \in Nat /\ DOMAIN es = 1 .. n
    OBVIOUS
  <1>2. IsFold(c, ReaderNow, es, n)
    <2> HIDE DEF n
    <2> QED
      BY <1>1, FoldExists
  <1>3. Read(es) = c[1 .. n]
    BY <1>1 DEF Read, FoldLeft, MapThenFoldSet, IsFold, ReaderNow
  <1> HIDE DEF c
  <1>4. \A s \in SUBSET (1 .. n) : c[s] = IF s = {} THEN ReaderNow ELSE LET x == Max(s) IN Receive(c[s \ {x}], es[x])
    <2> HIDE DEF n
    <2> QED
      BY <1>2 DEF IsFold
  <1>5. g[0] = ReaderNow /\ g[n] = Read(es)
    <2>1. 1 .. 0 = {} /\ {} \in SUBSET (1 .. n) /\ 0 \in 0 .. n /\ n \in 0 .. n
      BY <1>1
    <2>2. c[{}] = ReaderNow
      BY <1>4, <2>1
    <2> HIDE DEF n
    <2> QED
      BY <1>3, <2>1, <2>2
  <1>6. ASSUME NEW k \in 1 .. n PROVE g[k] = Receive(g[k - 1], es[k])
    <2> HIDE DEF n
    <2>1. k \in Nat /\ 1 .. k \in SUBSET (1 .. n) /\ 1 .. k # {} /\ k \in 1 .. k /\ k - 1 \in 0 .. n /\ k \in 0 .. n
      BY <1>1
    <2>2. Max(1 .. k) = k
      BY <2>1, MaxIsLast
    <2>3. (1 .. k) \ {k} = 1 .. k - 1
      BY <2>1
    <2>4. c[1 .. k] = Receive(c[1 .. k - 1], es[k])
      BY <1>4, <2>1, <2>2, <2>3
    <2> QED
      BY <2>1, <2>4
  <1> HIDE DEF g, n
  <1> QED
    BY <1>5, <1>6 DEF Reads, n

\* Reading nothing leaves the reader where it is,
LEMMA ReadsNothing ==
  ASSUME NEW r, NEW t, Reads(r, <<>>, t)
  PROVE  t = r
  BY DEF Reads

\* reading one event is receiving it,
LEMMA ReadsOne ==
  ASSUME NEW r, NEW e, NEW t, Reads(r, <<e>>, t)
  PROVE  t = Receive(r, e)
  <1>1. Len(<<e>>) = 1 /\ <<e>>[1] = e /\ 1 \in 1 .. 1 /\ 1 - 1 = 0
    OBVIOUS
  <1>2. PICK g : g[0] = r /\ g[Len(<<e>>)] = t /\ \A k \in 1 .. Len(<<e>>) : g[k] = Receive(g[k - 1], <<e>>[k])
    BY DEF Reads
  <1>3. g[1] = Receive(g[1 - 1], <<e>>[1])
    BY <1>1, <1>2
  <1> QED
    BY <1>1, <1>2, <1>3

\* and reading two sequences is reading one after the other.
LEMMA ReadsJoin ==
  ASSUME NEW E, NEW a \in Seq(E), NEW b \in Seq(E), NEW r, NEW t, Reads(r, a \o b, t)
  PROVE  \E m : Reads(r, a, m) /\ Reads(m, b, t)
  <1> DEFINE n == Len(a)  l == Len(b)
  <1>1. n \in Nat /\ l \in Nat /\ Len(a \o b) = n + l
    OBVIOUS
  <1>2. /\ \A k \in 1 .. n : (a \o b)[k] = a[k]
        /\ \A k \in 1 .. l : (a \o b)[n + k] = b[k]
    OBVIOUS
  <1> HIDE DEF n, l
  <1>3. PICK g : g[0] = r /\ g[n + l] = t /\ \A k \in 1 .. n + l : g[k] = Receive(g[k - 1], (a \o b)[k])
    BY <1>1 DEF Reads
  <1>4. Reads(r, a, g[n])
    <2>1. ASSUME NEW k \in 1 .. n PROVE g[k] = Receive(g[k - 1], a[k])
      <3>1. k \in 1 .. n + l
        BY <1>1
      <3> QED
        BY <1>2, <1>3, <3>1
    <2> QED
      BY <1>3, <2>1 DEF Reads, n
  <1>5. Reads(g[n], b, t)
    <2> DEFINE h == [k \in 0 .. l |-> g[n + k]]
    <2>1. h[0] = g[n] /\ h[l] = t
      BY <1>1, <1>3
    <2>2. ASSUME NEW k \in 1 .. l PROVE h[k] = Receive(h[k - 1], b[k])
      <3>1. n + k \in 1 .. n + l /\ (n + k) - 1 = n + (k - 1) /\ k \in 0 .. l /\ k - 1 \in 0 .. l
        BY <1>1
      <3>2. g[n + k] = Receive(g[(n + k) - 1], (a \o b)[n + k])
        BY <1>3, <3>1
      <3>3. (a \o b)[n + k] = b[k]
        BY <1>2
      <3> QED
        BY <3>1, <3>2, <3>3
    <2> HIDE DEF h
    <2> QED
      BY <2>1, <2>2 DEF Reads, l
  <1> QED
    BY <1>4, <1>5

\* The reader as a record.
Reader(s, it, c) == [started |-> s, items |-> it, complaints |-> c]

\* A table of items.
IsTable(f) == f = [j \in DOMAIN f |-> f[j]]

\* jt is it with v at k.
Puts(jt, it, k, v) ==
    /\ DOMAIN jt = DOMAIN it \cup {k} /\ jt[k] = v
    /\ \A j \in DOMAIN it : j # k => jt[j] = it[j]

\* An item.
Opened(id, size, done) == [id |-> id, size |-> size, done |-> done]

\* An item that grows, or is closed.
Sized(x, y) == [x EXCEPT !.size = y]
Ended(x) == [x EXCEPT !.done = TRUE]

\* An item that grows or is closed is otherwise as it was.
LEMMA OpenedChanges ==
  ASSUME NEW id, NEW size, NEW done, NEW y
  PROVE  /\ Sized(Opened(id, size, done), y) = Opened(id, y, done)
         /\ Ended(Opened(id, size, done)) = Opened(id, size, TRUE)
  <1>1. Sized(Opened(id, size, done), y) = Opened(id, y, done)
    BY DEF Opened, Sized
  <1>2. Ended(Opened(id, size, done)) = Opened(id, size, TRUE)
    <2>1. \A z : [Opened(id, size, done) EXCEPT !.done = z] = Opened(id, size, z)
      BY DEF Opened
    <2> QED
      BY <2>1, Zenon DEF Ended
  <1> QED
    BY <1>1, <1>2

\* What an event does to a reader that expects it.
LEMMA ReceiveCreated ==
  ASSUME NEW it, NEW c
  PROVE  Receive(Reader(FALSE, it, c), [type |-> "created"]) = Reader(TRUE, it, c)
  BY DEF Receive, Follows, Apply, Reader

\* An announcement at a free place.
LEMMA ReceiveAdded ==
  ASSUME NEW it, NEW c, NEW k, k \notin DOMAIN it, NEW id
  PROVE  \E jt : /\ Receive(Reader(TRUE, it, c), Added(k, id)) = Reader(TRUE, jt, c)
                 /\ Puts(jt, it, k, Opened(id, 0, FALSE)) /\ IsTable(jt)
  <1> DEFINE jt == Extended(it, k, Opened(id, 0, FALSE))
             r == Reader(TRUE, it, c)
             e == Added(k, id)
  <1>1. e.type = "added" /\ e.index = k /\ e.id = id
    BY DEF Added, Event
  <1>2. r.started = TRUE /\ r.items = it
    BY DEF Reader
  <1>3. Follows(r, e)
    BY <1>1, <1>2 DEF Follows
  <1>4. Apply(r, e) = [r EXCEPT !.items = Extended(@, k, [id |-> id, size |-> 0, done |-> FALSE])]
    BY <1>1 DEF Apply
  <1>5. Apply(r, e) = Reader(TRUE, jt, c)
    BY <1>4 DEF Reader, Opened
  <1>6. Puts(jt, it, k, Opened(id, 0, FALSE))
    BY DEF Puts, Extended
  <1>7. IsTable(jt)
    BY DEF IsTable, Extended
  <1> QED
    BY <1>3, <1>5, <1>6, <1>7 DEF Receive

\* A delta of an open item.
LEMMA ReceiveDelta ==
  ASSUME NEW it, NEW c, NEW k \in DOMAIN it, NEW id, NEW size \in Nat, NEW more \in Nat, it[k] = Opened(id, size, FALSE),
         IsTable(it)
  PROVE  \E jt : /\ Receive(Reader(TRUE, it, c), Event("delta", k, id, more)) = Reader(TRUE, jt, c)
                 /\ Puts(jt, it, k, Opened(id, size + more, FALSE))
                 /\ IsTable(jt)
  <1> DEFINE jt == [it EXCEPT ![k].size = @ + more]
             r == Reader(TRUE, it, c)
             e == Event("delta", k, id, more)
  <1>1. e.type = "delta" /\ e.index = k /\ e.id = id /\ e.size = more
    BY DEF Event
  <1>2. r.items = it
    BY DEF Reader
  <1>0. it[k].id = id /\ it[k].size = size /\ it[k].done = FALSE
    BY DEF Opened
  <1>3. Follows(r, e)
    <2>1. ~it[k].done /\ r.items[e.index] = it[k] /\ e.index \in DOMAIN r.items
      BY <1>0, <1>1, <1>2
    <2> HIDE DEF r, e
    <2> QED
      BY <1>0, <1>1, <2>1 DEF Follows
  <1>4. Apply(r, e) = [r EXCEPT !.items[k].size = @ + more]
    BY <1>1 DEF Apply
  <1>5. Apply(r, e) = Reader(TRUE, jt, c)
    BY <1>4 DEF Reader
  <1>6. Puts(jt, it, k, Opened(id, size + more, FALSE))
    <2>1. Sized(it[k], it[k].size + more) = Opened(id, size + more, FALSE)
      <3> HIDE DEF jt, r, e
      <3>1. \A y, d : Sized(Opened(id, size, d), y) = Opened(id, y, d)
        BY DEF Sized, Opened
      <3>2. Sized(Opened(id, size, FALSE), size + more) = Opened(id, size + more, FALSE)
        BY <3>1, Zenon
      <3> QED
        BY <1>0, <3>2
    <2>2. jt[k] = Sized(it[k], it[k].size + more)
      BY DEF Sized
    <2>3. DOMAIN jt = DOMAIN it \cup {k} /\ \A j \in DOMAIN it : j # k => jt[j] = it[j]
      OBVIOUS
    <2> HIDE DEF jt
    <2> QED
      BY <2>1, <2>2, <2>3 DEF Puts
  <1>7. IsTable(jt)
    BY DEF IsTable
  <1> QED
    BY <1>3, <1>5, <1>6, <1>7 DEF Receive

\* The end of an open item.
LEMMA ReceiveDone ==
  ASSUME NEW it, NEW c, NEW k \in DOMAIN it, NEW id, NEW size \in Nat, it[k] = Opened(id, size, FALSE),
         IsTable(it)
  PROVE  \E jt : /\ Receive(Reader(TRUE, it, c), Event("done", k, id, size)) = Reader(TRUE, jt, c)
                 /\ Puts(jt, it, k, Opened(id, size, TRUE))
                 /\ IsTable(jt)
  <1> DEFINE jt == [it EXCEPT ![k].done = TRUE]
             r == Reader(TRUE, it, c)
             e == Event("done", k, id, size)
  <1>1. e.type = "done" /\ e.index = k /\ e.id = id /\ e.size = size
    BY DEF Event
  <1>2. r.items = it
    BY DEF Reader
  <1>0. it[k].id = id /\ it[k].size = size /\ it[k].done = FALSE
    BY DEF Opened
  <1>3. Follows(r, e)
    <2>1. ~it[k].done /\ r.items[e.index] = it[k] /\ e.index \in DOMAIN r.items
      BY <1>0, <1>1, <1>2
    <2> HIDE DEF r, e
    <2> QED
      BY <1>0, <1>1, <2>1 DEF Follows
  <1>4. Apply(r, e) = [r EXCEPT !.items[k].done = TRUE]
    BY <1>1 DEF Apply
  <1>5. Apply(r, e) = Reader(TRUE, jt, c)
    BY <1>4 DEF Reader
  <1>6. Puts(jt, it, k, Opened(id, size, TRUE))
    <2>1. Ended(it[k]) = Opened(id, size, TRUE)
      <3> HIDE DEF jt, r, e
      <3> QED
        BY OpenedChanges
    <2>2. jt[k] = Ended(it[k])
      BY DEF Ended
    <2>3. DOMAIN jt = DOMAIN it \cup {k} /\ \A j \in DOMAIN it : j # k => jt[j] = it[j]
      OBVIOUS
    <2> HIDE DEF jt
    <2> QED
      BY <2>1, <2>2, <2>3 DEF Puts
  <1>7. IsTable(jt)
    BY DEF IsTable
  <1> QED
    BY <1>3, <1>5, <1>6, <1>7 DEF Receive

\* The events of these kinds are events.
LEMMA EventsAre ==
  ASSUME NEW k \in Nat, NEW id \in Ids, NEW n \in Nat
  PROVE  /\ Added(k, id) \in Events /\ Event("delta", k, id, n) \in Events
         /\ Event("done", k, id, n) \in Events /\ EnsureStarted \in Seq(Events)
  <1>1. [type |-> "created"] \in Events
    BY DEF Events
  <1>2. \A type \in {"added", "delta", "done"}, m \in Nat : Event(type, k, id, m) \in Events
    BY DEF Events, Event
  <1>3. <<>> \in Seq(Events) /\ <<[type |-> "created"]>> \in Seq(Events)
    BY <1>1
  <1>4. EnsureStarted \in Seq(Events)
    BY <1>3 DEF EnsureStarted
  <1> QED
    BY <1>2, <1>4 DEF Added

\* A read that begins with the announcement of the response.
LEMMA ReadsBegun ==
  ASSUME NEW m, TypeOK, Reads(ReaderNow, EnsureStarted, m)
  PROVE  m = Reader(TRUE, items, complaints)
  <1>0. started = TRUE \/ started = FALSE
    BY DEF TypeOK
  <1>1. CASE started = TRUE
    <2>1. EnsureStarted = <<>>
      BY <1>1 DEF EnsureStarted
    <2>2. m = ReaderNow
      BY <2>1, ReadsNothing
    <2> QED
      BY <1>0, <1>1, <2>2 DEF Reader, ReaderNow
  <1>2. CASE started = FALSE
    <2>1. EnsureStarted = <<[type |-> "created"]>>
      BY <1>2 DEF EnsureStarted
    <2>2. m = Receive(ReaderNow, [type |-> "created"])
      BY <2>1, ReadsOne
    <2>3. ReaderNow = Reader(FALSE, items, complaints)
      BY <1>0, <1>2 DEF Reader, ReaderNow
    <2>4. Receive(Reader(FALSE, items, complaints), [type |-> "created"])
          = Reader(TRUE, items, complaints)
      BY ReceiveCreated
    <2>5. m = Receive(Reader(FALSE, items, complaints), [type |-> "created"])
      BY <2>2, <2>3
    <2> QED
      BY <2>4, <2>5
  <1> QED
    BY <1>0, <1>1, <1>2

\* The reader that has k announced, with these contents.
HasAt(r, it, c, k, x) == \E jt : r = Reader(TRUE, jt, c) /\ Puts(jt, it, k, x) /\ IsTable(jt)

\* The events that announce an item, or add to it, where b calls for them.
Announce(b, k, id) == IF b THEN <<Added(k, id)>> ELSE <<>>
Grow(b, k, id, more) == IF b THEN <<Event("delta", k, id, more)>> ELSE <<>>

\* What is written of an item are events.
LEMMA SequencesAre ==
  ASSUME NEW k \in Nat, NEW id \in Ids, NEW n \in Nat
  PROVE  /\ \A b : Announce(b, k, id) \in Seq(Events) /\ Grow(b, k, id, n) \in Seq(Events)
         /\ CloseItem(k, id, n) \in Seq(Events) /\ <<Event("delta", k, id, n)>> \in Seq(Events)
         /\ EnsureStarted \in Seq(Events)
  <1>1. <<>> \in Seq(Events) /\ \A e \in Events : <<e>> \in Seq(Events)
    OBVIOUS
  <1>2. Added(k, id) \in Events /\ Event("delta", k, id, n) \in Events /\ Event("done", k, id, n) \in Events
        /\ EnsureStarted \in Seq(Events)
    BY EventsAre
  <1>3. <<Added(k, id)>> \in Seq(Events) /\ <<Event("delta", k, id, n)>> \in Seq(Events) /\ <<Event("done", k, id, n)>> \in Seq(Events)
    BY <1>1, <1>2
  <1> HIDE DEF Events
  <1> QED
    BY <1>1, <1>2, <1>3 DEF Announce, Grow, CloseItem

\* An item is announced unless it has been.
LEMMA ReadsAnnounced ==
  ASSUME NEW it, IsTable(it), NEW c, NEW k, NEW id, NEW size \in Nat, NEW b \in BOOLEAN, NEW m,
         b => k \notin DOMAIN it /\ size = 0,
         ~b => k \in DOMAIN it /\ it[k] = Opened(id, size, FALSE),
         Reads(Reader(TRUE, it, c), Announce(b, k, id), m)
  PROVE  HasAt(m, it, c, k, Opened(id, size, FALSE))
  <1>1. CASE b
    <2>1. Announce(b, k, id) = <<Added(k, id)>>
      BY <1>1 DEF Announce
    <2>2. m = Receive(Reader(TRUE, it, c), Added(k, id))
      BY <2>1, ReadsOne
    <2>3. PICK jt : /\ Receive(Reader(TRUE, it, c), Added(k, id)) = Reader(TRUE, jt, c)
                    /\ Puts(jt, it, k, Opened(id, 0, FALSE)) /\ IsTable(jt)
      BY <1>1, ReceiveAdded
    <2>4. Puts(jt, it, k, Opened(id, size, FALSE))
      BY <1>1, <2>3
    <2> QED
      BY <2>2, <2>3, <2>4 DEF HasAt
  <1>2. CASE ~b
    <2>1. Announce(b, k, id) = <<>>
      BY <1>2 DEF Announce
    <2>2. m = Reader(TRUE, it, c)
      BY <2>1, ReadsNothing
    <2>3. Puts(it, it, k, Opened(id, size, FALSE))
      BY <1>2 DEF Puts
    <2> QED
      BY <2>2, <2>3 DEF HasAt
  <1> QED
    BY <1>1, <1>2

\* An open item grows.
LEMMA ReadsGrown ==
  ASSUME NEW it, IsTable(it), NEW c, NEW k \in DOMAIN it, NEW id, NEW size \in Nat, NEW more \in Nat,
         NEW b \in BOOLEAN, NEW m, it[k] = Opened(id, size, FALSE),
         Reads(Reader(TRUE, it, c), Grow(b, k, id, more), m)
  PROVE  HasAt(m, it, c, k, Opened(id, IF b THEN size + more ELSE size, FALSE))
  <1>1. CASE b
    <2>1. Grow(b, k, id, more) = <<Event("delta", k, id, more)>>
      BY <1>1 DEF Grow
    <2>2. m = Receive(Reader(TRUE, it, c), Event("delta", k, id, more))
      BY <2>1, ReadsOne
    <2>3. PICK jt : /\ Receive(Reader(TRUE, it, c), Event("delta", k, id, more)) = Reader(TRUE, jt, c)
                    /\ Puts(jt, it, k, Opened(id, size + more, FALSE)) /\ IsTable(jt)
      BY ReceiveDelta
    <2> QED
      BY <1>1, <2>2, <2>3 DEF HasAt
  <1>2. CASE ~b
    <2>1. Grow(b, k, id, more) = <<>>
      BY <1>2 DEF Grow
    <2>2. m = Reader(TRUE, it, c)
      BY <2>1, ReadsNothing
    <2>3. Puts(it, it, k, Opened(id, size, FALSE))
      BY DEF Puts
    <2> QED
      BY <1>2, <2>2, <2>3 DEF HasAt
  <1> QED
    BY <1>1, <1>2

\* Putting twice at one place is putting once.
LEMMA PutsTwice ==
  ASSUME NEW it, NEW jt, NEW lt, NEW k, NEW x, NEW y, Puts(jt, it, k, x), Puts(lt, jt, k, y)
  PROVE  Puts(lt, it, k, y) /\ k \in DOMAIN jt
  BY DEF Puts

\* An item is announced if it is new, and grows.
LEMMA ReadsItem ==
  ASSUME NEW it, IsTable(it), NEW k \in Nat, NEW id \in Ids, NEW size \in Nat, NEW more \in Nat,
         NEW new \in BOOLEAN, NEW grows \in BOOLEAN, NEW m,
         new => k \notin DOMAIN it /\ size = 0,
         ~new => k \in DOMAIN it /\ it[k] = Opened(id, size, FALSE),
         Reads(Reader(TRUE, it, {}), Announce(new, k, id) \o Grow(grows, k, id, more), m)
  PROVE  HasAt(m, it, {}, k, Opened(id, IF grows THEN size + more ELSE size, FALSE))
  <1>1. Announce(new, k, id) \in Seq(Events) /\ Grow(grows, k, id, more) \in Seq(Events)
    BY SequencesAre
  <1>2. PICK r : Reads(Reader(TRUE, it, {}), Announce(new, k, id), r) /\ Reads(r, Grow(grows, k, id, more), m)
    BY <1>1, ReadsJoin
  <1>3. HasAt(r, it, {}, k, Opened(id, size, FALSE))
    BY <1>2, ReadsAnnounced
  <1>4. PICK jt : r = Reader(TRUE, jt, {}) /\ Puts(jt, it, k, Opened(id, size, FALSE)) /\ IsTable(jt)
    BY <1>3 DEF HasAt
  <1>5. k \in DOMAIN jt /\ jt[k] = Opened(id, size, FALSE)
    BY <1>4 DEF Puts
  <1> DEFINE now == Opened(id, IF grows THEN size + more ELSE size, FALSE)
  <1>6. HasAt(m, jt, {}, k, now)
    BY <1>2, <1>4, <1>5, ReadsGrown
  <1> HIDE DEF now
  <1>7. PICK lt : m = Reader(TRUE, lt, {}) /\ Puts(lt, jt, k, now) /\ IsTable(lt)
    BY <1>6 DEF HasAt
  <1>8. Puts(lt, it, k, now)
    BY <1>4, <1>7, PutsTwice
  <1>9. HasAt(m, it, {}, k, now)
    BY <1>7, <1>8 DEF HasAt
  <1> QED
    BY <1>9 DEF now

\* An item is announced if it is new, grows by a last delta, and is closed.
LEMMA ReadsClosed ==
  ASSUME NEW it, IsTable(it), NEW k \in DOMAIN it, k \in Nat, NEW id \in Ids, NEW size \in Nat,
         NEW more \in Nat, NEW grows \in BOOLEAN, NEW m, it[k] = Opened(id, IF grows THEN 0 ELSE more, FALSE),
         Reads(Reader(TRUE, it, {}), Grow(grows, k, id, more) \o CloseItem(k, id, more), m)
  PROVE  HasAt(m, it, {}, k, Opened(id, more, TRUE))
  <1>1. Grow(grows, k, id, more) \in Seq(Events) /\ CloseItem(k, id, more) \in Seq(Events)
    BY SequencesAre
  <1>2. PICK r : Reads(Reader(TRUE, it, {}), Grow(grows, k, id, more), r) /\ Reads(r, CloseItem(k, id, more), m)
    BY <1>1, ReadsJoin
  <1> DEFINE old == IF grows THEN 0 ELSE more
  <1>a. old \in Nat /\ it[k] = Opened(id, old, FALSE) /\ (IF grows THEN old + more ELSE old) = more
    OBVIOUS
  <1> HIDE DEF old
  <1>3. HasAt(r, it, {}, k, Opened(id, IF grows THEN old + more ELSE old, FALSE))
    BY <1>2, <1>a, ReadsGrown
  <1>4. HasAt(r, it, {}, k, Opened(id, more, FALSE))
    BY <1>3, <1>a
  <1>5. PICK jt : r = Reader(TRUE, jt, {}) /\ Puts(jt, it, k, Opened(id, more, FALSE)) /\ IsTable(jt)
    BY <1>4 DEF HasAt
  <1>6. k \in DOMAIN jt /\ jt[k] = Opened(id, more, FALSE)
    BY <1>5 DEF Puts
  <1>7. m = Receive(r, Event("done", k, id, more))
    BY <1>2, ReadsOne DEF CloseItem
  <1>8. PICK lt : /\ Receive(Reader(TRUE, jt, {}), Event("done", k, id, more)) = Reader(TRUE, lt, {})
                  /\ Puts(lt, jt, k, Opened(id, more, TRUE)) /\ IsTable(lt)
    BY <1>5, <1>6, ReceiveDone
  <1>9. Puts(lt, it, k, Opened(id, more, TRUE))
    BY <1>5, <1>8, PutsTwice
  <1> QED
    BY <1>5, <1>7, <1>8, <1>9 DEF HasAt

\* Writing is reading from where the reader is.
LEMMA Writes ==
  ASSUME NEW es \in Seq(Events), Write(EnsureStarted \o es), TypeOK
  PROVE  \E t : Reads(Reader(TRUE, items, complaints), es, t) /\ items' = t.items /\ complaints' = t.complaints
  <1>1. EnsureStarted \in Seq(Events)
    <2>1. [type |-> "created"] \in Events
      BY DEF Events
    <2>2. <<>> \in Seq(Events) /\ <<[type |-> "created"]>> \in Seq(Events)
      BY <2>1
    <2> QED
      BY <2>2 DEF EnsureStarted
  <1> DEFINE all == EnsureStarted \o es
  <1>2. all \in Seq(Events)
    BY <1>1
  <1> HIDE DEF all
  <1>3. Reads(ReaderNow, all, Read(all))
    BY <1>2, ReadsAll
  <1>5. PICK m : Reads(ReaderNow, EnsureStarted, m) /\ Reads(m, es, Read(all))
    BY <1>1, <1>3, ReadsJoin DEF all
  <1>6. m = Reader(TRUE, items, complaints)
    BY <1>5, ReadsBegun
  <1>7. items' = Read(all).items /\ complaints' = Read(all).complaints
    BY DEF Write, all
  <1> QED
    BY <1>5, <1>6, <1>7

\* The id of a call's item.
CallId(t) == Id(CallKind(t.name), t.callID)

\* Of a tool that takes raw text the reader has nothing until it is closed.
CallSize(t, done) == IF done \/ t.name \notin Customs THEN t.arguments ELSE 0

\* Where items are.
Places == (IF ReasoningAdded THEN {0} ELSE {}) \cup (IF TextAdded THEN {TextIndex} ELSE {})
          \cup {NextToolOutputIndex(i) : i \in DOMAIN tools}

\* What it is to be a place.
LEMMA PlacesAre ==
  \A x : x \in Places <=>
            \/ ReasoningAdded /\ x = 0
            \/ TextAdded /\ x = TextIndex
            \/ \E i \in DOMAIN tools : x = NextToolOutputIndex(i)
  <1> SUFFICES ASSUME NEW x
               PROVE  x \in Places <=>
                         \/ ReasoningAdded /\ x = 0
                         \/ TextAdded /\ x = TextIndex
                         \/ \E i \in DOMAIN tools : x = NextToolOutputIndex(i)
    OBVIOUS
  <1> DEFINE X == IF ReasoningAdded THEN {0} ELSE {}
             Y == IF TextAdded THEN {TextIndex} ELSE {}
             Z == {NextToolOutputIndex(i) : i \in DOMAIN tools}
  <1>1. x \in X <=> ReasoningAdded /\ x = 0
    OBVIOUS
  <1>2. x \in Y <=> TextAdded /\ x = TextIndex
    OBVIOUS
  <1>3. x \in Z <=> \E i \in DOMAIN tools : x = NextToolOutputIndex(i)
    OBVIOUS
  <1>4. Places = X \cup Y \cup Z
    BY DEF Places
  <1> HIDE DEF X, Y, Z
  <1>5. x \in Places <=> x \in X \/ x \in Y \/ x \in Z
    BY <1>4
  <1> QED
    BY <1>1, <1>2, <1>3, <1>5, Zenon

\* The table it holds what the converter holds.
Assembled(it, done) ==
    /\ IsTable(it) /\ DOMAIN it = Places
    /\ ReasoningAdded => it[0] = Opened(ReasoningId(responseID), reasoning, done)
    /\ TextAdded => it[TextIndex] = Opened(TextId(responseID), text, done)
    /\ \A i \in DOMAIN tools :
          /\ tools[i].output = NextToolOutputIndex(i)
          /\ it[NextToolOutputIndex(i)] = Opened(CallId(tools[i]), CallSize(tools[i], done), done)

\* The inductive invariant of the reader: in order it has no complaints, and has
\* assembled what the converter holds.
StreamInv ==
    /\ IsFiniteSet(DOMAIN tools)
    /\ orderly => /\ complaints = {}
                  /\ Closed => Assembled(items, TRUE)
                  /\ ~Closed => Assembled(items, FALSE)

\* Two sequences joined,
LEMMA JoinOfTwo ==
  ASSUME NEW E, NEW a \in Seq(E), NEW b \in Seq(E)
  PROVE  a \o b \in Seq(E)
  OBVIOUS

\* three sequences,
LEMMA Associative ==
  ASSUME NEW E, NEW a \in Seq(E), NEW b \in Seq(E), NEW c \in Seq(E)
  PROVE  (a \o b) \o c = a \o (b \o c) /\ a \o <<>> = a
  OBVIOUS

\* and four.
LEMMA AssociativeTwice ==
  ASSUME NEW E, NEW a \in Seq(E), NEW b \in Seq(E), NEW c \in Seq(E), NEW d \in Seq(E)
  PROVE  ((a \o b) \o c) \o d = a \o (b \o (c \o d))
  BY SMTT(30)

\* No two items have one place.
LEMMA PlacesDiffer ==
  ASSUME TypeOK
  PROVE  /\ \A i \in DOMAIN tools \cup Indexes : i \in Nat /\ NextToolOutputIndex(i) \in Nat
         /\ \A i, j \in DOMAIN tools \cup Indexes : i # j => NextToolOutputIndex(i) # NextToolOutputIndex(j)
         /\ \A i \in DOMAIN tools \cup Indexes :
               /\ ReasoningAdded => NextToolOutputIndex(i) # 0
               /\ TextAdded => NextToolOutputIndex(i) # TextIndex
         /\ (ReasoningAdded => TextIndex = 1) /\ (~ReasoningAdded => TextIndex = 0)
  <1>1. \A i \in DOMAIN tools \cup Indexes : i \in Nat
    BY CallsValues, ConstantsAssumption DEF TypeOK
  <1> QED
    BY <1>1 DEF NextToolOutputIndex, TextIndex, Flag

\* The ids of the items are ids.
LEMMA IdsAre ==
  ASSUME NEW r \in ChatIds \cup {Compat}
  PROVE  ReasoningId(r) \in Ids /\ TextId(r) \in Ids
  BY DEF ReasoningId, TextId, Id, Ids

\* The same of calls.
LEMMA CallIdsAre ==
  ASSUME NEW t \in ToolType
  PROVE  CallId(t) \in Ids
  <1>1. t.callID \in CallIds \cup {None} \cup {<<"call", i>> : i \in Indexes}
    BY DEF ToolType
  <1>2. CallKind(t.name) \in {"fc", "ctc"}
    BY DEF CallKind
  <1> QED
    BY <1>1, <1>2 DEF CallId, Id, Ids

\* What the reader has after an item was announced or grew.
LEMMA ItemWritten ==
  ASSUME TypeOK, IsTable(items), complaints = {}, NEW k \in Nat, NEW id \in Ids, NEW size \in Nat,
         NEW more \in Nat, NEW new \in BOOLEAN, NEW grows \in BOOLEAN,
         new => k \notin DOMAIN items /\ size = 0,
         ~new => k \in DOMAIN items /\ items[k] = Opened(id, size, FALSE),
         Write(EnsureStarted \o (Announce(new, k, id) \o Grow(grows, k, id, more)))
  PROVE  /\ IsTable(items') /\ complaints' = {}
         /\ Puts(items', items, k, Opened(id, IF grows THEN size + more ELSE size, FALSE))
  <1> DEFINE es == Announce(new, k, id) \o Grow(grows, k, id, more)
             x == Opened(id, IF grows THEN size + more ELSE size, FALSE)
  <1>1. es \in Seq(Events)
    <2>1. Announce(new, k, id) \in Seq(Events) /\ Grow(grows, k, id, more) \in Seq(Events)
      BY SequencesAre
    <2> QED
      BY <2>1
  <1>2. PICK t : Reads(Reader(TRUE, items, complaints), es, t) /\ items' = t.items /\ complaints' = t.complaints
    <2> HIDE DEF es
    <2>1. Write(EnsureStarted \o es)
      BY DEF es
    <2> QED
      BY <1>1, <2>1, Writes
  <1>3. Reads(Reader(TRUE, items, {}), es, t)
    BY <1>2
  <1>4. HasAt(t, items, {}, k, x)
    BY <1>3, ReadsItem
  <1> HIDE DEF x
  <1>5. PICK jt : t = Reader(TRUE, jt, {}) /\ Puts(jt, items, k, x) /\ IsTable(jt)
    BY <1>4 DEF HasAt
  <1>6. items' = jt /\ complaints' = {}
    BY <1>2, <1>5 DEF Reader
  <1> QED
    BY <1>5, <1>6 DEF x

\* The start of the response alone changes nothing.
LEMMA StartWritten ==
  ASSUME TypeOK, Write(EnsureStarted)
  PROVE  items' = items /\ complaints' = complaints
  <1>1. EnsureStarted \in Seq(Events)
    <2>1. [type |-> "created"] \in Events
      BY DEF Events
    <2>2. <<>> \in Seq(Events) /\ <<[type |-> "created"]>> \in Seq(Events)
      BY <2>1
    <2> QED
      BY <2>2 DEF EnsureStarted
  <1>2. Read(EnsureStarted) = Reader(TRUE, items, complaints)
    BY <1>1, ReadsAll, ReadsBegun
  <1>3. items' = Read(EnsureStarted).items /\ complaints' = Read(EnsureStarted).complaints
    BY DEF Write
  <1> QED
    BY <1>2, <1>3 DEF Reader

\* A chunk in order comes before the end; with items announced, the id is settled.
LEMMA ChunkFacts ==
  ASSUME NEW id, Chunk(id)
  PROVE  /\ Closed' <=> Closed
         /\ InTurn(id) => ~Closed /\ ~Closed' /\ orderly /\ Settled(id)
         /\ Settled(id) => responseID' = responseID \/ (~ReasoningAdded /\ ~TextAdded)
  BY DEF Chunk, Closed, InTurn, Settled, Or

\* A chunk keeps the reader's invariant when it keeps in order what is assembled.
LEMMA ChunkKeeps ==
  ASSUME NEW id, Chunk(id), IsFiniteSet(DOMAIN tools)', orderly' => InTurn(id),
         orderly' => complaints' = {} /\ Assembled(items, FALSE)'
  PROVE  StreamInv'
  BY ChunkFacts DEF StreamInv

\* A fragment as it is written.
LEMMA FragmentIs ==
  ASSUME NEW added \in BOOLEAN, NEW k \in Nat, NEW id \in Ids
  PROVE  /\ Fragment(added, k, id) = Announce(~added, k, id) \o Grow(TRUE, k, id, 1)
         /\ Fragment(added, k, id) \in Seq(Events)
  <1>1. /\ Announce(~added, k, id) = IF added THEN <<>> ELSE <<Added(k, id)>>
        /\ Grow(TRUE, k, id, 1) = <<Event("delta", k, id, 1)>>
    BY DEF Announce, Grow
  <1>2. Fragment(added, k, id) = Announce(~added, k, id) \o Grow(TRUE, k, id, 1)
    BY <1>1 DEF Fragment
  <1>3. Announce(~added, k, id) \in Seq(Events) /\ Grow(TRUE, k, id, 1) \in Seq(Events)
    BY SequencesAre
  <1>4. Announce(~added, k, id) \o Grow(TRUE, k, id, 1) \in Seq(Events)
    BY <1>3, JoinOfTwo
  <1> QED
    BY <1>2, <1>4

\* A fragment of reasoning keeps what the reader has assembled equal to what
\* the converter holds: the first one announces the first item, the others grow it.
LEMMA ReasoningKeeps ==
  ASSUME IInv, StreamInv, NEW id \in ChatIds \cup {None}, ReasoningDelta(id)
  PROVE  StreamInv'
  <1>1. TypeOK /\ reasoning \in Nat /\ text \in Nat
    BY DEF IInv, TypeOK
  <1>2. Chunk(id) /\ reasoning' = reasoning + 1 /\ UNCHANGED <<text, tools>>
    BY DEF ReasoningDelta
  <1>3. IsFiniteSet(DOMAIN tools)'
    BY <1>2 DEF StreamInv
  <1>0. orderly' => InTurn(id) /\ ReasoningFirst
    BY DEF ReasoningDelta
  <1> SUFFICES ASSUME orderly' PROVE complaints' = {} /\ Assembled(items, FALSE)'
    BY <1>0, <1>2, <1>3, ChunkKeeps
  <1>4. /\ orderly /\ Settled(id) /\ (ReasoningAdded \/ (~TextAdded /\ tools = <<>>))
        /\ complaints = {} /\ Assembled(items, FALSE)
    BY <1>0, <1>2, ChunkFacts DEF ReasoningFirst, StreamInv
  <1> DEFINE k == ReasoningId(responseID')
             new == ~ReasoningAdded
  <1>5. k \in Ids
    <2>1. responseID' \in ChatIds \cup {Compat}
      BY <1>1, <1>2, ChunkType
    <2> QED
      BY <2>1, IdsAre
  <1>6. ReasoningAdded => responseID' = responseID
    BY <1>2, <1>4, ChunkFacts
  <1>7. ~ReasoningAdded => DOMAIN items = {} /\ reasoning = 0 /\ DOMAIN tools = {}
    <2> SUFFICES ASSUME ~ReasoningAdded PROVE DOMAIN items = {} /\ reasoning = 0 /\ DOMAIN tools = {}
      OBVIOUS
    <2>1. ~TextAdded /\ DOMAIN tools = {}
      BY <1>4, EmptyCalls
    <2> QED
      BY <1>1, <1>4, <2>1 DEF Assembled, Places, ReasoningAdded
  <1>8. ~new => 0 \in DOMAIN items /\ items[0] = Opened(k, reasoning, FALSE)
    BY <1>4, <1>6 DEF Assembled, Places
  <1>9. Write(EnsureStarted \o (Announce(new, 0, k) \o Grow(TRUE, 0, k, 1)))
    <2>1. Write(EnsureStarted \o Fragment(ReasoningAdded, 0, k))
      BY DEF ReasoningDelta
    <2>2. ReasoningAdded \in BOOLEAN /\ new = ~ReasoningAdded
      BY DEF ReasoningAdded
    <2> HIDE DEF new, k
    <2> QED
      BY <1>5, <2>1, <2>2, FragmentIs
  <1>10. new \in BOOLEAN /\ IsTable(items)
    BY <1>4 DEF Assembled
  <1>11. new => 0 \notin DOMAIN items /\ reasoning = 0
    BY <1>7
  <1>12. /\ IsTable(items') /\ complaints' = {}
         /\ Puts(items', items, 0, Opened(k, reasoning + 1, FALSE))
    <2> HIDE DEF new, k
    <2>1. Puts(items', items, 0, Opened(k, IF TRUE THEN reasoning + 1 ELSE reasoning, FALSE)) /\ IsTable(items') /\ complaints' = {}
      BY <1>1, <1>4, <1>5, <1>8, <1>9, <1>10, <1>11, ItemWritten
    <2> QED
      BY <2>1
  <1>13. ReasoningAdded' /\ (TextAdded' <=> TextAdded)
    BY <1>1, <1>2 DEF ReasoningAdded, TextAdded
  <1>14. CASE ReasoningAdded
    <2>1. TextIndex' = TextIndex /\ \A i : NextToolOutputIndex(i)' = NextToolOutputIndex(i)
      BY <1>13, <1>14 DEF TextIndex, NextToolOutputIndex, Flag
    <2>2. Places' = Places /\ 0 \in Places
      BY <1>2, <1>13, <1>14, <2>1 DEF Places
    <2>3. DOMAIN items' = Places' /\ items'[0] = Opened(ReasoningId(responseID'), reasoning', FALSE)
      BY <1>2, <1>4, <1>12, <2>2 DEF Assembled, Puts
    <2>4. TextAdded => items'[TextIndex] = items[TextIndex]
      BY <1>1, <1>4, <1>12, <1>14, PlacesDiffer DEF Assembled, Puts, Places
    <2>5. \A i \in DOMAIN tools : items'[NextToolOutputIndex(i)] = items[NextToolOutputIndex(i)]
      BY <1>1, <1>4, <1>12, <1>14, PlacesDiffer DEF Assembled, Puts, Places
    <2>6. TextAdded' => items'[TextIndex'] = Opened(TextId(responseID'), text', FALSE)
      BY <1>2, <1>4, <1>6, <1>13, <1>14, <2>1, <2>4 DEF Assembled
    <2>7. \A i \in DOMAIN tools' :
             /\ tools'[i].output = NextToolOutputIndex(i)'
             /\ items'[NextToolOutputIndex(i)'] = Opened(CallId(tools'[i]), CallSize(tools'[i], FALSE), FALSE)
      BY <1>2, <1>4, <2>1, <2>5 DEF Assembled
    <2> QED
      BY <1>12, <2>3, <2>6, <2>7 DEF Assembled
  <1>15. CASE ~ReasoningAdded
    <2>1. ~TextAdded' /\ DOMAIN tools' = {}
      BY <1>2, <1>4, <1>7, <1>13, <1>15
    <2>2. Places' = {0}
      BY <1>13, <2>1 DEF Places
    <2>3. DOMAIN items' = Places' /\ items'[0] = Opened(ReasoningId(responseID'), reasoning', FALSE)
      BY <1>2, <1>7, <1>12, <1>15, <2>2 DEF Puts
    <2> QED
      BY <1>12, <2>1, <2>3 DEF Assembled
  <1> QED
    BY <1>12, <1>14, <1>15

\* So does a fragment of text,
LEMMA TextKeeps ==
  ASSUME IInv, StreamInv, NEW id \in ChatIds \cup {None}, TextDelta(id)
  PROVE  StreamInv'
  <1>1. TypeOK /\ reasoning \in Nat /\ text \in Nat
    BY DEF IInv, TypeOK
  <1>2. Chunk(id) /\ text' = text + 1 /\ UNCHANGED <<reasoning, tools>>
    BY DEF TextDelta
  <1>3. IsFiniteSet(DOMAIN tools)'
    BY <1>2 DEF StreamInv
  <1>0. orderly' => InTurn(id) /\ TextBeforeCalls
    BY DEF TextDelta
  <1> SUFFICES ASSUME orderly' PROVE complaints' = {} /\ Assembled(items, FALSE)'
    BY <1>0, <1>2, <1>3, ChunkKeeps
  <1>4. /\ orderly /\ Settled(id) /\ (TextAdded \/ tools = <<>>)
        /\ complaints = {} /\ Assembled(items, FALSE)
    BY <1>0, <1>2, ChunkFacts DEF TextBeforeCalls, StreamInv
  <1> DEFINE k == TextId(responseID')
             new == ~TextAdded
  <1>5. k \in Ids
    <2>1. responseID' \in ChatIds \cup {Compat}
      BY <1>1, <1>2, ChunkType
    <2> QED
      BY <2>1, IdsAre
  <1>6. ReasoningAdded \/ TextAdded => responseID' = responseID
    BY <1>2, <1>4, ChunkFacts
  <1>7. ~TextAdded => TextIndex \notin DOMAIN items /\ text = 0 /\ DOMAIN tools = {}
    <2> SUFFICES ASSUME ~TextAdded PROVE TextIndex \notin DOMAIN items /\ text = 0 /\ DOMAIN tools = {}
      OBVIOUS
    <2>1. DOMAIN tools = {}
      BY <1>4, EmptyCalls
    <2>2. DOMAIN items = IF ReasoningAdded THEN {0} ELSE {}
      BY <1>4, <2>1 DEF Assembled, Places
    <2>3. TextIndex \notin DOMAIN items
      BY <1>1, <2>2, PlacesDiffer
    <2> QED
      BY <1>1, <2>1, <2>3 DEF TextAdded
  <1>8. ~new => TextIndex \in DOMAIN items /\ items[TextIndex] = Opened(k, text, FALSE)
    BY <1>4, <1>6 DEF Assembled, Places
  <1>16. TextIndex \in Nat
    BY DEF TextIndex, Flag
  <1>9. Write(EnsureStarted \o (Announce(new, TextIndex, k) \o Grow(TRUE, TextIndex, k, 1)))
    <2>1. Write(EnsureStarted \o Fragment(TextAdded, TextIndex, k))
      BY DEF TextDelta
    <2>2. TextAdded \in BOOLEAN /\ new = ~TextAdded
      BY DEF TextAdded
    <2> HIDE DEF new, k
    <2> QED
      BY <1>5, <1>16, <2>1, <2>2, FragmentIs
  <1>10. new \in BOOLEAN /\ IsTable(items)
    BY <1>4 DEF Assembled
  <1>11. new => TextIndex \notin DOMAIN items /\ text = 0
    BY <1>7
  <1>12. /\ IsTable(items') /\ complaints' = {}
         /\ Puts(items', items, TextIndex, Opened(k, text + 1, FALSE))
    <2> HIDE DEF new, k
    <2>1. Puts(items', items, TextIndex, Opened(k, IF TRUE THEN text + 1 ELSE text, FALSE)) /\ IsTable(items') /\ complaints' = {}
      BY <1>1, <1>4, <1>5, <1>8, <1>9, <1>10, <1>11, <1>16, ItemWritten
    <2> QED
      BY <2>1
  <1>13. TextAdded' /\ (ReasoningAdded' <=> ReasoningAdded) /\ TextIndex' = TextIndex
    BY <1>1, <1>2 DEF ReasoningAdded, TextAdded, TextIndex
  <1>14. items'[TextIndex'] = Opened(TextId(responseID'), text', FALSE)
    BY <1>2, <1>12, <1>13 DEF Puts
  <1>15. ReasoningAdded' => items'[0] = Opened(ReasoningId(responseID'), reasoning', FALSE)
    <2> SUFFICES ASSUME ReasoningAdded PROVE items'[0] = Opened(ReasoningId(responseID'), reasoning', FALSE)
      BY <1>13
    <2>1. TextIndex # 0 /\ 0 \in DOMAIN items
      BY <1>1, <1>4, PlacesDiffer DEF Assembled, Places
    <2>2. items'[0] = items[0]
      BY <1>12, <2>1 DEF Puts
    <2> QED
      BY <1>2, <1>4, <1>6, <2>2 DEF Assembled
  <1>17. CASE TextAdded
    <2>1. \A i : NextToolOutputIndex(i)' = NextToolOutputIndex(i)
      BY <1>13, <1>17 DEF NextToolOutputIndex, Flag
    <2>2. Places' = Places /\ TextIndex \in Places
      BY <1>2, <1>13, <1>17, <2>1 DEF Places
    <2>3. DOMAIN items' = Places'
      BY <1>4, <1>12, <2>2 DEF Assembled, Puts
    <2>5. \A i \in DOMAIN tools : items'[NextToolOutputIndex(i)] = items[NextToolOutputIndex(i)]
      BY <1>1, <1>4, <1>12, <1>17, PlacesDiffer DEF Assembled, Puts, Places
    <2>7. \A i \in DOMAIN tools' :
             /\ tools'[i].output = NextToolOutputIndex(i)'
             /\ items'[NextToolOutputIndex(i)'] = Opened(CallId(tools'[i]), CallSize(tools'[i], FALSE), FALSE)
      BY <1>2, <1>4, <2>1, <2>5 DEF Assembled
    <2> QED
      BY <1>12, <1>14, <1>15, <2>3, <2>7 DEF Assembled
  <1>18. CASE ~TextAdded
    <2>1. DOMAIN tools' = {} /\ DOMAIN tools = {}
      BY <1>2, <1>7, <1>18
    <2>2. DOMAIN items' = Places'
      BY <1>4, <1>12, <1>13, <1>18, <2>1 DEF Assembled, Puts, Places
    <2> QED
      BY <1>12, <1>14, <1>15, <2>1, <2>2 DEF Assembled
  <1> QED
    BY <1>12, <1>17, <1>18

\* What the reader has after the first two items were announced or grew.
LEMMA TwoItemsWritten ==
  ASSUME TypeOK, IsTable(items), complaints = {},
         NEW id \in Ids, NEW has \in BOOLEAN, NEW jd \in Ids, NEW had \in BOOLEAN,
         ~has => 0 \notin DOMAIN items /\ reasoning = 0,
         has => 0 \in DOMAIN items /\ items[0] = Opened(id, reasoning, FALSE),
         ~had => 1 \notin DOMAIN items /\ text = 0,
         had => 1 \in DOMAIN items /\ items[1] = Opened(jd, text, FALSE),
         Write(EnsureStarted \o (Fragment(has, 0, id) \o Fragment(had, 1, jd)))
  PROVE  /\ IsTable(items') /\ complaints' = {}
         /\ DOMAIN items' = DOMAIN items \cup {0, 1}
         /\ items'[0] = Opened(id, reasoning + 1, FALSE) /\ items'[1] = Opened(jd, text + 1, FALSE)
         /\ \A x \in DOMAIN items : x \notin {0, 1} => items'[x] = items[x]
  <1> DEFINE es == Fragment(has, 0, id)
             fs == Fragment(had, 1, jd)
             now == Opened(id, reasoning + 1, FALSE)
             then == Opened(jd, text + 1, FALSE)
  <1>0. 0 \in Nat /\ 1 \in Nat /\ 0 # 1 /\ reasoning \in Nat /\ text \in Nat
    BY DEF TypeOK
  <1>1. /\ es \in Seq(Events) /\ es = Announce(~has, 0, id) \o Grow(TRUE, 0, id, 1)
        /\ fs \in Seq(Events) /\ fs = Announce(~had, 1, jd) \o Grow(TRUE, 1, jd, 1)
    BY <1>0, FragmentIs
  <1> HIDE DEF es, fs
  <1>2. PICK t : Reads(Reader(TRUE, items, {}), es \o fs, t) /\ items' = t.items /\ complaints' = t.complaints
    <2>1. es \o fs \in Seq(Events)
      BY <1>1, JoinOfTwo
    <2>2. Write(EnsureStarted \o (es \o fs))
      BY DEF es, fs
    <2> QED
      BY <2>1, <2>2, Writes
  <1>3. PICK m : Reads(Reader(TRUE, items, {}), es, m) /\ Reads(m, fs, t)
    BY <1>1, <1>2, ReadsJoin
  <1>4. HasAt(m, items, {}, 0, now)
    <2>1. HasAt(m, items, {}, 0, Opened(id, IF TRUE THEN reasoning + 1 ELSE reasoning, FALSE))
      BY <1>1, <1>0, <1>3, ReadsItem
    <2> QED
      BY <2>1
  <1> HIDE DEF now
  <1>5. PICK it : m = Reader(TRUE, it, {}) /\ Puts(it, items, 0, now) /\ IsTable(it)
    BY <1>4 DEF HasAt
  <1>6. /\ ~had => 1 \notin DOMAIN it
        /\ had => 1 \in DOMAIN it /\ it[1] = Opened(jd, text, FALSE)
    BY <1>0, <1>5 DEF Puts
  <1>7. HasAt(t, it, {}, 1, then)
    <2>1. HasAt(t, it, {}, 1, Opened(jd, IF TRUE THEN text + 1 ELSE text, FALSE))
      BY <1>0, <1>1, <1>3, <1>5, <1>6, ReadsItem
    <2> QED
      BY <2>1
  <1> HIDE DEF then
  <1>8. PICK lt : t = Reader(TRUE, lt, {}) /\ Puts(lt, it, 1, then) /\ IsTable(lt)
    BY <1>7 DEF HasAt
  <1>9. items' = lt /\ complaints' = {}
    BY <1>2, <1>8 DEF Reader
  <1> QED
    BY <1>0, <1>5, <1>8, <1>9 DEF Puts, now, then

\* so does a delta of both kinds, which grows or announces two items,
LEMMA ThinkKeeps ==
  ASSUME IInv, StreamInv, NEW id \in ChatIds \cup {None}, ThinkDelta(id)
  PROVE  StreamInv'
  <1>1. TypeOK /\ reasoning \in Nat /\ text \in Nat
    BY DEF IInv, TypeOK
  <1>2. /\ Chunk(id) /\ reasoning' = reasoning + 1 /\ text' = text + 1 /\ UNCHANGED tools
        /\ orderly' => InTurn(id) /\ ReasoningFirst /\ TextBeforeCalls
    BY DEF ThinkDelta
  <1>3. IsFiniteSet(DOMAIN tools)'
    BY <1>2 DEF StreamInv
  <1> SUFFICES ASSUME orderly' PROVE complaints' = {} /\ Assembled(items, FALSE)'
    BY <1>2, <1>3, ChunkKeeps
  <1>4. /\ orderly /\ Settled(id) /\ ReasoningFirst /\ TextBeforeCalls
        /\ complaints = {} /\ Assembled(items, FALSE)
    BY <1>2, ChunkFacts DEF StreamInv
  <1> DEFINE k == ReasoningId(responseID')
             l == TextId(responseID')
             has == ReasoningAdded
             had == TextAdded
  <1>5. k \in Ids /\ l \in Ids
    <2>1. responseID' \in ChatIds \cup {Compat}
      BY <1>1, <1>2, ChunkType
    <2> QED
      BY <2>1, IdsAre
  <1>6. ReasoningAdded \/ TextAdded => responseID' = responseID
    BY <1>2, <1>4, ChunkFacts
  <1>7. ~TextAdded => text = 0 /\ DOMAIN tools = {} /\ DOMAIN items = IF ReasoningAdded THEN {0} ELSE {}
    <2> SUFFICES ASSUME ~TextAdded
                 PROVE  text = 0 /\ DOMAIN tools = {} /\ DOMAIN items = IF ReasoningAdded THEN {0} ELSE {}
      OBVIOUS
    <2>1. DOMAIN tools = {}
      BY <1>4, EmptyCalls DEF TextBeforeCalls
    <2> QED
      BY <1>1, <1>4, <2>1 DEF Assembled, Places, TextAdded
  <1>8. ~ReasoningAdded => ~TextAdded /\ reasoning = 0
    BY <1>1, <1>4 DEF ReasoningFirst, ReasoningAdded
  <1>9. ReasoningAdded => TextIndex = 1
    BY <1>1, PlacesDiffer
  <1>10. ~has => 0 \notin DOMAIN items /\ reasoning = 0
    BY <1>7, <1>8
  <1>11. has => 0 \in DOMAIN items /\ items[0] = Opened(k, reasoning, FALSE)
    BY <1>4, <1>6 DEF Assembled, Places
  <1>12. ~had => 1 \notin DOMAIN items /\ text = 0
    BY <1>7
  <1>13. had => 1 \in DOMAIN items /\ items[1] = Opened(l, text, FALSE)
    <2> SUFFICES ASSUME TextAdded PROVE 1 \in DOMAIN items /\ items[1] = Opened(l, text, FALSE)
      OBVIOUS
    <2>1. TextIndex = 1
      BY <1>8, <1>9
    <2> QED
      BY <1>4, <1>6, <2>1 DEF Assembled, Places
  <1>14. Write(EnsureStarted \o (Fragment(has, 0, k) \o Fragment(had, 1, l)))
    <2>1. has \in BOOLEAN /\ had \in BOOLEAN
      BY DEF ReasoningAdded, TextAdded
    <2>2. Write((EnsureStarted \o Fragment(has, 0, k)) \o Fragment(had, 1, l))
      BY DEF ThinkDelta
    <2>3. 0 \in Nat /\ 1 \in Nat
      OBVIOUS
    <2> HIDE DEF has, had, k, l
    <2>4. Fragment(has, 0, k) \in Seq(Events) /\ Fragment(had, 1, l) \in Seq(Events)
      BY <1>5, <2>1, <2>3, FragmentIs
    <2>5. EnsureStarted \in Seq(Events)
      BY <1>5, <2>3, SequencesAre
    <2>6. (EnsureStarted \o Fragment(has, 0, k)) \o Fragment(had, 1, l)
          = EnsureStarted \o (Fragment(has, 0, k) \o Fragment(had, 1, l))
      BY <2>4, <2>5, Associative
    <2> QED
      BY <2>2, <2>6
  <1>15. has \in BOOLEAN /\ had \in BOOLEAN /\ IsTable(items)
    BY <1>4 DEF Assembled, ReasoningAdded, TextAdded
  <1>16. /\ IsTable(items') /\ complaints' = {} /\ DOMAIN items' = DOMAIN items \cup {0, 1}
         /\ items'[0] = Opened(k, reasoning + 1, FALSE) /\ items'[1] = Opened(l, text + 1, FALSE)
         /\ \A x \in DOMAIN items : x \notin {0, 1} => items'[x] = items[x]
    <2> HIDE DEF has, had, k, l
    <2>1. 0 \in Nat /\ 1 \in Nat /\ 0 # 1
      OBVIOUS
    <2>2. TypeOK /\ IsTable(items) /\ complaints = {} /\ reasoning \in Nat /\ text \in Nat
          /\ k \in Ids /\ l \in Ids /\ has \in BOOLEAN /\ had \in BOOLEAN
      BY <1>1, <1>4, <1>5, <1>15
    <2>3. /\ ~has => 0 \notin DOMAIN items /\ reasoning = 0
          /\ has => 0 \in DOMAIN items /\ items[0] = Opened(k, reasoning, FALSE)
          /\ ~had => 1 \notin DOMAIN items /\ text = 0
          /\ had => 1 \in DOMAIN items /\ items[1] = Opened(l, text, FALSE)
      BY <1>10, <1>11, <1>12, <1>13
    <2> QED
      BY <1>14, <2>2, <2>3, TwoItemsWritten
  <1>17. ReasoningAdded' /\ TextAdded' /\ TextIndex' = 1
    BY <1>1, <1>2 DEF ReasoningAdded, TextAdded, TextIndex, Flag
  <1>18. /\ ReasoningAdded' => items'[0] = Opened(ReasoningId(responseID'), reasoning', FALSE)
         /\ TextAdded' => items'[TextIndex'] = Opened(TextId(responseID'), text', FALSE)
    BY <1>2, <1>16, <1>17
  <1>19. CASE TextAdded
    <2>1. ReasoningAdded /\ TextIndex = 1
      BY <1>8, <1>9, <1>19
    <2>2. \A i : NextToolOutputIndex(i)' = NextToolOutputIndex(i)
      BY <1>17, <1>19, <2>1 DEF NextToolOutputIndex, Flag
    <2>3. Places' = Places /\ {0, 1} \subseteq Places
      BY <1>2, <1>17, <1>19, <2>1, <2>2 DEF Places
    <2>4. DOMAIN items' = Places'
      BY <1>4, <1>16, <2>3 DEF Assembled
    <2>5. \A i \in DOMAIN tools : items'[NextToolOutputIndex(i)] = items[NextToolOutputIndex(i)]
      BY <1>1, <1>4, <1>16, <1>19, <2>1, PlacesDiffer DEF Assembled, Places
    <2>6. \A i \in DOMAIN tools' :
             /\ tools'[i].output = NextToolOutputIndex(i)'
             /\ items'[NextToolOutputIndex(i)'] = Opened(CallId(tools'[i]), CallSize(tools'[i], FALSE), FALSE)
      BY <1>2, <1>4, <2>2, <2>5 DEF Assembled
    <2> QED
      BY <1>16, <1>18, <2>4, <2>6 DEF Assembled
  <1>20. CASE ~TextAdded
    <2>1. DOMAIN tools' = {}
      BY <1>2, <1>7, <1>20
    <2>2. DOMAIN items' = {0, 1}
      BY <1>7, <1>16, <1>20
    <2>3. Places' = {0, 1}
      BY <1>17, <2>1 DEF Places
    <2> QED
      BY <1>16, <1>18, <2>1, <2>2, <2>3 DEF Assembled
  <1> QED
    BY <1>16, <1>19, <1>20

\* What a delta in order makes of a call.
LEMMA ToolInOrder ==
  ASSUME TypeOK, NEW i \in Indexes, NEW c \in CallIds \cup {None}, NEW n \in Names \cup {None}, NEW a \in {0, 1},
         IF i \in DOMAIN tools
         THEN tools[i].added /\ c \in {None, tools[i].callID} /\ n \in {None, tools[i].name}
         ELSE n # None
  PROVE  /\ ToolAfter(i, c, n, a).added
         /\ i \in DOMAIN tools =>
               /\ ToolAfter(i, c, n, a).output = tools[i].output
               /\ ToolAfter(i, c, n, a).name = tools[i].name
               /\ ToolAfter(i, c, n, a).callID = tools[i].callID
               /\ ToolAfter(i, c, n, a).arguments = tools[i].arguments + a
         /\ i \notin DOMAIN tools =>
               /\ ToolAfter(i, c, n, a).output = NextToolOutputIndex(i)
               /\ ToolAfter(i, c, n, a).arguments = a
  <1>0. IsCallAfter(ToolAfter(i, c, n, a), i, c, n, a)
    BY ToolAfterFacts
  <1>1. CASE i \in DOMAIN tools
    <2>1. tools[i].added /\ c \in {None, tools[i].callID} /\ n \in {None, tools[i].name}
      BY <1>1
    <2>2. ToolAfter(i, c, n, a).output = tools[i].output
      BY <1>1, <2>1 DEF ToolAfter
    <2>3. Or(c, tools[i].callID) = tools[i].callID /\ Or(n, tools[i].name) = tools[i].name
      BY <2>1 DEF Or
    <2> QED
      BY <1>0, <1>1, <2>1, <2>2, <2>3 DEF IsCallAfter
  <1>2. CASE i \notin DOMAIN tools
    <2>1. n # None
      BY <1>2
    <2>2. ToolAfter(i, c, n, a).output = NextToolOutputIndex(i)
      <3>1. Or(n, Blank.name) = n /\ ~Blank.added
        BY <2>1 DEF Or, Blank
      <3> QED
        BY <1>2, <2>1, <3>1 DEF ToolAfter
    <2>3. ToolAfter(i, c, n, a).arguments = 0 + a /\ ToolAfter(i, c, n, a).added
      BY <1>0, <1>2, <2>1 DEF IsCallAfter
    <2> QED
      BY <1>2, <2>2, <2>3
  <1> QED
    BY <1>1, <1>2

\* so does a fragment of a call: in order, its place is that of its index,
LEMMA ToolKeeps ==
  ASSUME IInv, StreamInv, NEW id \in ChatIds \cup {None}, NEW i \in Indexes, NEW c \in CallIds \cup {None},
         NEW n \in Names \cup {None}, NEW a \in {0, 1}, ToolDelta(id, i, c, n, a)
  PROVE  StreamInv'
  <1> DEFINE t == ToolAfter(i, c, n, a)
             new == i \notin DOMAIN tools
             grows == a > 0 /\ t.name \notin Customs
             k == NextToolOutputIndex(i)
             size == IF new THEN 0 ELSE CallSize(tools[i], FALSE)
  <1>1. TypeOK /\ IsCalls(tools, ToolType) /\ i \in Nat /\ k \in Nat
    <2>1. TypeOK
      BY DEF IInv
    <2> QED
      BY <2>1, PlacesDiffer DEF TypeOK
  <1>2. Chunk(id) /\ UNCHANGED <<text, reasoning>> /\ tools' = Extended(tools, i, t)
    BY DEF ToolDelta
  <1>3. /\ DOMAIN tools' = DOMAIN tools \cup {i}
        /\ tools'[i] = t /\ \A j \in DOMAIN tools : j # i => tools'[j] = tools[j]
    BY <1>2 DEF Extended
  <1>4. IsFiniteSet(DOMAIN tools)'
    <2>1. IsFiniteSet(DOMAIN tools)
      BY DEF StreamInv
    <2> QED
      BY <1>3, <2>1, FS_AddElement
  <1>5. t \in ToolType
    <2>1. IsCallAfter(t, i, c, n, a)
      BY <1>1, ToolAfterFacts
    <2> QED
      BY <2>1 DEF IsCallAfter
  <1>26. orderly' => /\ InTurn(id)
                     /\ IF i \in DOMAIN tools
                        THEN c \in {None, tools[i].callID} /\ n \in {None, tools[i].name}
                        ELSE n # None
    BY DEF ToolDelta
  <1> SUFFICES ASSUME orderly' PROVE complaints' = {} /\ Assembled(items, FALSE)'
    BY <1>2, <1>4, <1>26, ChunkKeeps
  <1>6. /\ orderly /\ Settled(id) /\ complaints = {} /\ Assembled(items, FALSE)
        /\ IF i \in DOMAIN tools
           THEN c \in {None, tools[i].callID} /\ n \in {None, tools[i].name}
           ELSE n # None
    BY <1>2, <1>26, ChunkFacts DEF StreamInv
  <1>7. \A j \in DOMAIN tools : tools[j].added
    BY <1>6 DEF IInv, NamedInOrder
  <1>8. /\ t.added
        /\ ~new => /\ t.output = tools[i].output /\ t.name = tools[i].name
                   /\ t.callID = tools[i].callID /\ t.arguments = tools[i].arguments + a
        /\ new => t.output = k /\ t.arguments = a
    BY <1>1, <1>6, <1>7, ToolInOrder
  <1>9. t.output = k
    BY <1>6, <1>8 DEF Assembled
  <1>10. CallId(t) \in Ids /\ (~new => CallId(t) = CallId(tools[i]))
    BY <1>5, <1>8, CallIdsAre DEF CallId
  <1>11. ToolEvents(i, t, a) = Announce(new, k, CallId(t)) \o Grow(grows, k, CallId(t), a)
    <2> HIDE DEF t
    <2>1. t.added /\ ~(i \in DOMAIN tools /\ tools[i].added) <=> new
      BY <1>7, <1>8
    <2>2. t.name \notin Customs => Id("fc", t.callID) = CallId(t)
      BY DEF CallId, CallKind
    <2>3. (IF t.added /\ ~(i \in DOMAIN tools /\ tools[i].added) THEN <<Added(t.output, Id(CallKind(t.name), t.callID))>> ELSE <<>>)
          = Announce(new, k, CallId(t))
      BY <1>9, <2>1 DEF Announce, CallId
    <2>4. (IF a > 0 /\ t.name \notin Customs THEN <<Event("delta", t.output, Id("fc", t.callID), a)>> ELSE <<>>)
          = Grow(grows, k, CallId(t), a)
      BY <1>9, <2>2 DEF Grow
    <2> QED
      BY <2>3, <2>4 DEF ToolEvents
  <1>12. Write(EnsureStarted \o (Announce(new, k, CallId(t)) \o Grow(grows, k, CallId(t), a)))
    BY <1>11 DEF ToolDelta
  <1>0. i \in DOMAIN tools => tools[i].arguments \in Nat
    <2> SUFFICES ASSUME i \in DOMAIN tools PROVE tools[i].arguments \in Nat
      OBVIOUS
    <2>1. tools[i] \in ToolType
      BY <1>1, CallsValues
    <2> QED
      BY <2>1 DEF ToolType
  <1>13. size \in Nat
    <2>1. ~new => tools[i].arguments \in Nat
      BY <1>0
    <2> QED
      BY <2>1 DEF CallSize
  <1>14. new => k \notin DOMAIN items /\ size = 0
    <2> SUFFICES ASSUME new PROVE k \notin DOMAIN items
      OBVIOUS
    <2>1. \A j \in DOMAIN tools : NextToolOutputIndex(j) # NextToolOutputIndex(i)
      BY <1>1, PlacesDiffer
    <2> QED
      BY <1>1, <1>6, <2>1, PlacesDiffer DEF Assembled, Places
  <1>15. ~new => k \in DOMAIN items /\ items[k] = Opened(CallId(t), size, FALSE)
    BY <1>6, <1>10 DEF Assembled, Places
  <1>16. IsTable(items) /\ new \in BOOLEAN /\ grows \in BOOLEAN /\ a \in Nat
    BY <1>6 DEF Assembled
  <1>17. /\ IsTable(items') /\ complaints' = {}
         /\ Puts(items', items, k, Opened(CallId(t), IF grows THEN size + a ELSE size, FALSE))
    <2> HIDE DEF t, new, grows, k, size
    <2> QED
      BY <1>1, <1>6, <1>10, <1>12, <1>13, <1>14, <1>15, <1>16, ItemWritten
  <1>18. (IF grows THEN size + a ELSE size) = CallSize(t, FALSE)
    <2>1. ~new => tools[i].arguments \in Nat
      BY <1>0
    <2> HIDE DEF t
    <2> QED
      BY <1>8, <2>1 DEF CallSize
  <1>19. items'[k] = Opened(CallId(t), CallSize(t, FALSE), FALSE) /\ DOMAIN items' = DOMAIN items \cup {k}
    BY <1>17, <1>18 DEF Puts
  <1> HIDE DEF t, new, grows, size
  <1>20. /\ (ReasoningAdded' <=> ReasoningAdded) /\ (TextAdded' <=> TextAdded) /\ TextIndex' = TextIndex
         /\ \A j : NextToolOutputIndex(j)' = NextToolOutputIndex(j)
    BY <1>2 DEF ReasoningAdded, TextAdded, TextIndex, NextToolOutputIndex
  <1>21. DOMAIN items' = Places'
    BY <1>3, <1>6, <1>19, <1>20 DEF Assembled, Places
  <1>22. ReasoningAdded \/ TextAdded => responseID' = responseID
    BY <1>2, <1>6, ChunkFacts
  <1>23. ReasoningAdded' => items'[0] = Opened(ReasoningId(responseID'), reasoning', FALSE)
    <2> SUFFICES ASSUME ReasoningAdded PROVE items'[0] = Opened(ReasoningId(responseID'), reasoning', FALSE)
      BY <1>20
    <2>1. k # 0 /\ 0 \in DOMAIN items
      BY <1>1, <1>6, PlacesDiffer DEF Assembled, Places
    <2>2. items'[0] = items[0]
      BY <1>17, <2>1 DEF Puts
    <2> QED
      BY <1>2, <1>6, <1>22, <2>2 DEF Assembled
  <1>24. TextAdded' => items'[TextIndex'] = Opened(TextId(responseID'), text', FALSE)
    <2> SUFFICES ASSUME TextAdded PROVE items'[TextIndex'] = Opened(TextId(responseID'), text', FALSE)
      BY <1>20
    <2>1. k # TextIndex /\ TextIndex \in DOMAIN items
      BY <1>1, <1>6, PlacesDiffer DEF Assembled, Places
    <2>2. items'[TextIndex] = items[TextIndex]
      BY <1>17, <2>1 DEF Puts
    <2> QED
      BY <1>2, <1>6, <1>20, <1>22, <2>2 DEF Assembled
  <1>25. ASSUME NEW j \in DOMAIN tools'
         PROVE  /\ tools'[j].output = NextToolOutputIndex(j)'
                /\ items'[NextToolOutputIndex(j)'] = Opened(CallId(tools'[j]), CallSize(tools'[j], FALSE), FALSE)
    <2>1. CASE j = i
      BY <1>3, <1>9, <1>19, <1>20, <2>1
    <2>2. CASE j # i
      <3>1. j \in DOMAIN tools /\ tools'[j] = tools[j]
        BY <1>3, <2>2
      <3>2. NextToolOutputIndex(j) # k /\ NextToolOutputIndex(j) \in DOMAIN items
        BY <1>1, <1>6, <2>2, <3>1, PlacesDiffer DEF Assembled, Places
      <3>3. items'[NextToolOutputIndex(j)] = items[NextToolOutputIndex(j)]
        BY <1>17, <3>2 DEF Puts
      <3> QED
        BY <1>6, <1>20, <3>1, <3>3 DEF Assembled
    <2> QED
      BY <2>1, <2>2
  <1> QED
    BY <1>17, <1>21, <1>23, <1>24, <1>25 DEF Assembled

\* and so does a chunk of which the converter writes nothing.
LEMMA QuietKeeps ==
  ASSUME IInv, StreamInv, NEW id \in ChatIds \cup {None},
         OtherChunk(id) \/ \E reason \in {"stop", "length"} : Finish(id, reason)
  PROVE  StreamInv'
  <1>1. TypeOK /\ Chunk(id) /\ UNCHANGED <<text, reasoning, tools>> /\ orderly' = InTurn(id)
    BY DEF IInv, Finish, OtherChunk
  <1>2. items' = items /\ complaints' = complaints
    BY <1>1, StartWritten DEF Finish, OtherChunk
  <1>3. IsFiniteSet(DOMAIN tools)'
    BY <1>1 DEF StreamInv
  <1> SUFFICES ASSUME orderly' PROVE complaints' = {} /\ Assembled(items, FALSE)'
    BY <1>1, <1>3, ChunkKeeps
  <1>4. orderly /\ Settled(id) /\ complaints = {} /\ Assembled(items, FALSE)
    BY <1>1, ChunkFacts DEF StreamInv
  <1>5. ReasoningAdded \/ TextAdded => responseID' = responseID
    BY <1>1, <1>4, ChunkFacts
  <1> QED
    BY <1>1, <1>2, <1>4, <1>5 DEF Assembled, Places, ReasoningAdded, TextAdded, TextIndex, NextToolOutputIndex

\* The ranks of n naturals are 0, .., n - 1, each once.
LEMMA RanksCover ==
  ASSUME NEW S \in SUBSET Nat, IsFiniteSet(S)
  PROVE  /\ Cardinality(S) \in Nat
         /\ \A i \in S : Rank(i, S) \in 0 .. Cardinality(S) - 1
         /\ \A i, j \in S : Rank(i, S) = Rank(j, S) => i = j
         /\ \A k \in 0 .. Cardinality(S) - 1 : \E i \in S : Rank(i, S) = k
  <1> DEFINE n == Cardinality(S)
             Below(i) == {j \in S : j < i}
  <1>1. n \in Nat
    BY FS_CardinalityType
  <1>2. \A i \in Nat : IsFiniteSet(Below(i)) /\ Cardinality(Below(i)) \in Nat
    <2> SUFFICES ASSUME NEW i \in Nat PROVE IsFiniteSet(Below(i)) /\ Cardinality(Below(i)) \in Nat
      OBVIOUS
    <2>1. Below(i) \in SUBSET S
      OBVIOUS
    <2> HIDE DEF Below
    <2> QED
      BY <2>1, FS_Subset, FS_CardinalityType
  <1>3. ASSUME NEW i \in S PROVE Cardinality(Below(i)) <= n - 1
    <2>1. IsFiniteSet(S \ {i}) /\ Cardinality(S \ {i}) = n - 1
      BY FS_RemoveElement
    <2>2. Below(i) \in SUBSET (S \ {i})
      OBVIOUS
    <2> HIDE DEF Below, n
    <2> QED
      BY <2>1, <2>2, FS_Subset
  <1>4. ASSUME NEW i \in S, NEW j \in S, i < j PROVE Cardinality(Below(i)) < Cardinality(Below(j))
    <2>1. IsFiniteSet(Below(i)) /\ i \notin Below(i) /\ Cardinality(Below(i)) \in Nat
          /\ IsFiniteSet(Below(j)) /\ Cardinality(Below(j)) \in Nat
      BY <1>2
    <2>2. Below(i) \cup {i} \in SUBSET Below(j)
      <3> SUFFICES ASSUME NEW x \in Below(i) \cup {i} PROVE x \in Below(j)
        OBVIOUS
      <3>1. x \in S /\ (x < i \/ x = i)
        OBVIOUS
      <3>2. x < j
        BY <1>4, <3>1
      <3> QED
        BY <3>1, <3>2
    <2> HIDE DEF Below
    <2>3. Cardinality(Below(i) \cup {i}) = Cardinality(Below(i)) + 1
      BY <2>1, FS_AddElement
    <2>4. Cardinality(Below(i) \cup {i}) <= Cardinality(Below(j))
      BY <2>1, <2>2, FS_Subset
    <2> QED
      BY <2>1, <2>3, <2>4
  <1>5. \A i : Rank(i, S) = Cardinality(Below(i))
    BY DEF Rank
  <1>6. \A i \in S : Rank(i, S) \in 0 .. n - 1
    <2> HIDE DEF Below, n
    <2> QED
      BY <1>1, <1>2, <1>3, <1>5
  <1>7. \A i, j \in S : Rank(i, S) = Rank(j, S) => i = j
    <2> SUFFICES ASSUME NEW i \in S, NEW j \in S, i # j PROVE Rank(i, S) # Rank(j, S)
      OBVIOUS
    <2>1. Cardinality(Below(i)) \in Nat /\ Cardinality(Below(j)) \in Nat
      BY <1>2
    <2>2. i < j \/ j < i
      OBVIOUS
    <2> HIDE DEF Below
    <2> QED
      BY <1>4, <1>5, <2>1, <2>2
  <1>8. \A k \in 0 .. n - 1 : \E i \in S : Rank(i, S) = k
    <2> DEFINE f == [i \in S |-> Rank(i, S)]
               T == 0 .. n - 1
    <2>1. f \in [S -> T] /\ \A i, j \in S : f[i] = f[j] => i = j
      BY <1>6, <1>7
    <2>2. IsFiniteSet(T) /\ Cardinality(T) = n
      <3>1. 0 \in Int /\ n - 1 \in Int
        BY <1>1
      <3>2. IsFiniteSet(T) /\ Cardinality(T) = IF 0 > n - 1 THEN 0 ELSE (n - 1) - 0 + 1
        BY <3>1, FS_Interval
      <3> HIDE DEF n, T
      <3> QED
        BY <1>1, <3>2
    <2>3. f \in Surjection(S, T)
      <3> HIDE DEF f, T
      <3>1. f \in Injection(S, T)
        BY <2>1 DEF Injection, IsInjective
      <3> QED
        BY <2>2, <3>1, FS_Injection DEF n
    <2>4. \A k \in T : \E i \in S : f[i] = k
      <3> HIDE DEF f, T
      <3> QED
        BY <2>3 DEF Surjection
    <2> HIDE DEF n
    <2> QED
      BY <2>4
  <1> QED
    BY <1>1, <1>6, <1>7, <1>8

\* Every call is among the keys, once.
LEMMA KeysFacts ==
  ASSUME TypeOK, IsFiniteSet(DOMAIN tools)
  PROVE  LET n == Cardinality(DOMAIN tools) IN
         /\ n \in Nat /\ DOMAIN Keys = 1 .. n
         /\ \A k \in 1 .. n : Keys[k] \in DOMAIN tools
         /\ \A j, k \in 1 .. n : Keys[j] = Keys[k] => j = k
         /\ \A i \in DOMAIN tools : \E k \in 1 .. n : Keys[k] = i
  <1> DEFINE S == DOMAIN tools
             n == Cardinality(S)
  <1>1. S \in SUBSET Nat
    BY CallsValues, ConstantsAssumption DEF TypeOK
  <1>2. DOMAIN Keys = 1 .. n /\ \A k \in 1 .. n : Keys[k] = CHOOSE i \in S : Rank(i, S) = k - 1
    BY DEF Keys
  <1>6. IsFiniteSet(S)
    OBVIOUS
  <1> HIDE DEF S
  <1>3. /\ n \in Nat
        /\ \A i \in S : Rank(i, S) \in 0 .. n - 1
        /\ \A i, j \in S : Rank(i, S) = Rank(j, S) => i = j
        /\ \A k \in 0 .. n - 1 : \E i \in S : Rank(i, S) = k
    BY <1>1, <1>6, RanksCover
  <1> HIDE DEF n
  <1>4. ASSUME NEW k \in 1 .. n PROVE Keys[k] \in S /\ Rank(Keys[k], S) = k - 1
    <2>1. k - 1 \in 0 .. n - 1
      BY <1>3
    <2>2. \E i \in S : Rank(i, S) = k - 1
      BY <1>3, <2>1
    <2>3. Keys[k] = CHOOSE i \in S : Rank(i, S) = k - 1
      BY <1>2
    <2> QED
      BY <2>2, <2>3
  <1>5. ASSUME NEW i \in S PROVE \E k \in 1 .. n : Keys[k] = i
    <2> DEFINE k == Rank(i, S) + 1
    <2>1. k \in 1 .. n /\ k - 1 = Rank(i, S)
      BY <1>3
    <2>2. Rank(Keys[k], S) = Rank(i, S) /\ Keys[k] \in S
      BY <1>4, <2>1
    <2> HIDE DEF k
    <2>3. Keys[k] = i
      BY <1>3, <2>2
    <2> QED
      BY <2>1, <2>3
  <1>7. \A j, k \in 1 .. n : Keys[j] = Keys[k] => j = k
    <2> SUFFICES ASSUME NEW j \in 1 .. n, NEW k \in 1 .. n, Keys[j] = Keys[k] PROVE j = k
      OBVIOUS
    <2>1. j - 1 = k - 1
      BY <1>4
    <2> QED
      BY <1>3, <2>1
  <1>8. \A k \in 1 .. n : Keys[k] \in S
    BY <1>4
  <1> QED
    BY <1>2, <1>3, <1>5, <1>7, <1>8 DEF n, S

\* One call is closed.
LEMMA CallClosed ==
  ASSUME TypeOK, NEW it, IsTable(it), NEW i \in DOMAIN tools, NEW m,
         tools[i].output = NextToolOutputIndex(i), NextToolOutputIndex(i) \in DOMAIN it,
         it[NextToolOutputIndex(i)] = Opened(CallId(tools[i]), CallSize(tools[i], FALSE), FALSE),
         Reads(Reader(TRUE, it, {}), CloseCall(tools[i]), m)
  PROVE  HasAt(m, it, {}, NextToolOutputIndex(i), Opened(CallId(tools[i]), tools[i].arguments, TRUE))
  <1> DEFINE t == tools[i]
             k == NextToolOutputIndex(i)
             more == t.arguments
             grows == t.name \in Customs
  <1>1. t \in ToolType /\ k \in Nat
    <2>1. t \in ToolType
      BY CallsValues DEF TypeOK
    <2> QED
      BY <2>1, PlacesDiffer
  <1>2. more \in Nat /\ CallId(t) \in Ids
    <2>1. CallId(t) \in Ids
      BY <1>1, CallIdsAre
    <2> QED
      BY <1>1, <2>1 DEF ToolType
  <1>3. CallSize(t, FALSE) = IF grows THEN 0 ELSE more
    BY DEF CallSize
  <1>4. CloseCall(t) = Grow(grows, k, CallId(t), more) \o CloseItem(k, CallId(t), more)
    BY DEF CloseCall, Grow, CallId
  <1>5. it[k] = Opened(CallId(t), IF grows THEN 0 ELSE more, FALSE)
    BY <1>3
  <1>6. Reads(Reader(TRUE, it, {}), Grow(grows, k, CallId(t), more) \o CloseItem(k, CallId(t), more), m)
    BY <1>4
  <1>7. grows \in BOOLEAN /\ k \in DOMAIN it
    OBVIOUS
  <1>8. HasAt(m, it, {}, k, Opened(CallId(t), more, TRUE))
    <2> HIDE DEF grows, k, more, t
    <2> QED
      BY <1>1, <1>2, <1>5, <1>6, <1>7, ReadsClosed
  <1> QED
    BY <1>8

\* What closes a call are events.
LEMMA CloseCallEvents ==
  ASSUME TypeOK, NEW i \in DOMAIN tools, tools[i].output \in Nat
  PROVE  CloseCall(tools[i]) \in Seq(Events)
  <1> DEFINE t == tools[i]
  <1>1. t \in ToolType
    BY CallsValues DEF TypeOK
  <1>2. t.arguments \in Nat /\ CallId(t) \in Ids
    <2>1. CallId(t) \in Ids
      BY <1>1, CallIdsAre
    <2> QED
      BY <1>1, <2>1 DEF ToolType
  <1>4. CloseCall(t) = Grow(t.name \in Customs, t.output, CallId(t), t.arguments) \o CloseItem(t.output, CallId(t), t.arguments)
    BY DEF CloseCall, Grow, CallId
  <1>5. Grow(t.name \in Customs, t.output, CallId(t), t.arguments) \in Seq(Events) /\ CloseItem(t.output, CallId(t), t.arguments) \in Seq(Events)
    BY <1>2, SequencesAre
  <1> QED
    BY <1>4, <1>5

\* The reader once the calls of the first k keys are closed.
Partly(m, it, k) ==
    \E jt : /\ m = Reader(TRUE, jt, {}) /\ IsTable(jt) /\ DOMAIN jt = DOMAIN it
            /\ \A j \in 1 .. k : jt[NextToolOutputIndex(Keys[j])]
                                    = Opened(CallId(tools[Keys[j]]), tools[Keys[j]].arguments, TRUE)
            /\ \A x \in DOMAIN it : (\A j \in 1 .. k : x # NextToolOutputIndex(Keys[j])) => jt[x] = it[x]

\* The calls of a table stand open in it.
CallsOpen(it) ==
    \A i \in DOMAIN tools :
       /\ tools[i].output = NextToolOutputIndex(i) /\ NextToolOutputIndex(i) \in DOMAIN it
       /\ it[NextToolOutputIndex(i)] = Opened(CallId(tools[i]), CallSize(tools[i], FALSE), FALSE)

\* Closing one more.
LEMMA PartlyMore ==
  ASSUME TypeOK, IsFiniteSet(DOMAIN tools), NEW it, CallsOpen(it), NEW k \in Nat,
         k + 1 <= Cardinality(DOMAIN tools), NEW r, Partly(r, it, k), NEW m,
         Reads(r, CloseCall(tools[Keys[k + 1]]), m)
  PROVE  Partly(m, it, k + 1)
  <1> DEFINE n == Cardinality(DOMAIN tools)
             i == Keys[k + 1]
             at(j) == NextToolOutputIndex(Keys[j])
             x(j) == Opened(CallId(tools[Keys[j]]), tools[Keys[j]].arguments, TRUE)
  <1>1. /\ n \in Nat /\ \A j \in 1 .. n : Keys[j] \in DOMAIN tools
        /\ \A j, l \in 1 .. n : Keys[j] = Keys[l] => j = l
    BY KeysFacts
  <1> HIDE DEF n
  <1>2. k + 1 \in 1 .. n /\ i \in DOMAIN tools
    BY <1>1 DEF n
  <1>3. PICK jt : /\ r = Reader(TRUE, jt, {}) /\ IsTable(jt) /\ DOMAIN jt = DOMAIN it
                  /\ \A j \in 1 .. k : jt[at(j)] = x(j)
                  /\ \A y \in DOMAIN it : (\A j \in 1 .. k : y # at(j)) => jt[y] = it[y]
    BY DEF Partly
  <1>4. \A j \in 1 .. k : at(j) # at(k + 1)
    <2> SUFFICES ASSUME NEW j \in 1 .. k PROVE at(j) # at(k + 1)
      OBVIOUS
    <2>1. j \in 1 .. n /\ j # k + 1
      <3>1. n \in Nat /\ k + 1 \in 1 .. n
        BY <1>1, <1>2
      <3> QED
        BY <3>1
    <2>2. Keys[j] # Keys[k + 1] /\ Keys[j] \in DOMAIN tools
      BY <1>1, <1>2, <2>1
    <2> QED
      BY <1>2, <2>2, PlacesDiffer
  <1>5. /\ tools[i].output = NextToolOutputIndex(i) /\ NextToolOutputIndex(i) \in DOMAIN it
        /\ it[NextToolOutputIndex(i)] = Opened(CallId(tools[i]), CallSize(tools[i], FALSE), FALSE)
    BY <1>2 DEF CallsOpen
  <1>6. jt[NextToolOutputIndex(i)] = it[NextToolOutputIndex(i)]
    BY <1>3, <1>4, <1>5
  <1>7. Reads(Reader(TRUE, jt, {}), CloseCall(tools[i]), m)
    BY <1>3
  <1>8. HasAt(m, jt, {}, NextToolOutputIndex(i), Opened(CallId(tools[i]), tools[i].arguments, TRUE))
    <2> HIDE DEF i
    <2> QED
      BY <1>2, <1>3, <1>5, <1>6, <1>7, CallClosed
  <1> HIDE DEF x
  <1>9. HasAt(m, jt, {}, at(k + 1), x(k + 1))
    BY <1>8 DEF x
  <1>10. PICK lt : m = Reader(TRUE, lt, {}) /\ Puts(lt, jt, at(k + 1), x(k + 1)) /\ IsTable(lt)
    BY <1>9 DEF HasAt
  <1>11. at(k + 1) \in DOMAIN it
    BY <1>5
  <1> HIDE DEF at, i
  <1>12. DOMAIN lt = DOMAIN it
    BY <1>3, <1>10, <1>11 DEF Puts
  <1>13. ASSUME NEW j \in 1 .. k + 1 PROVE lt[at(j)] = x(j)
    <2>1. CASE j = k + 1
      BY <1>10, <2>1 DEF Puts
    <2>2. CASE j # k + 1
      <3>1. j \in 1 .. k
        BY <2>2
      <3>2. jt[at(j)] = x(j) /\ at(j) # at(k + 1)
        BY <1>3, <1>4, <3>1
      <3>3. at(j) \in DOMAIN jt
        <4>0. n \in Nat /\ k + 1 \in 1 .. n
          BY <1>1, <1>2
        <4>1. j \in 1 .. n
          BY <3>1, <4>0
        <4>2. Keys[j] \in DOMAIN tools
          BY <1>1, <4>1
        <4> QED
          BY <1>3, <4>2 DEF CallsOpen, at
      <3> QED
        BY <1>10, <3>2, <3>3 DEF Puts
    <2> QED
      BY <2>1, <2>2
  <1>14. ASSUME NEW y \in DOMAIN it, \A j \in 1 .. k + 1 : y # at(j) PROVE lt[y] = it[y]
    <2>1. y # at(k + 1)
      BY <1>14
    <2>2. \A j \in 1 .. k : y # at(j)
      BY <1>14
    <2> QED
      BY <1>3, <1>10, <2>1, <2>2 DEF Puts
  <1> QED
    BY <1>10, <1>12, <1>13, <1>14 DEF Partly, at, x

\* Closing all of them: by induction, the first k close the calls of k keys.
LEMMA CallsClosed ==
  ASSUME TypeOK, IsFiniteSet(DOMAIN tools), NEW it, IsTable(it), CallsOpen(it), NEW m,
         Reads(Reader(TRUE, it, {}), FlattenSeq([k \in DOMAIN Keys |-> CloseCall(tools[Keys[k]])]), m)
  PROVE  Partly(m, it, Cardinality(DOMAIN tools))
  <1> DEFINE n == Cardinality(DOMAIN tools)
             b == [k \in 1 .. n |-> CloseCall(tools[Keys[k]])]
             r == Reader(TRUE, it, {})
  <1>1. /\ n \in Nat /\ DOMAIN Keys = 1 .. n /\ \A j \in 1 .. n : Keys[j] \in DOMAIN tools
    BY KeysFacts
  <1>2. Reads(r, FlattenSeq(b), m)
    BY <1>1
  <1>3. \A k \in 1 .. n : CloseCall(tools[Keys[k]]) \in Seq(Events)
    <2> SUFFICES ASSUME NEW k \in 1 .. n PROVE CloseCall(tools[Keys[k]]) \in Seq(Events)
      OBVIOUS
    <2>1. Keys[k] \in DOMAIN tools
      BY <1>1
    <2>2. tools[Keys[k]].output \in Nat
      BY <2>1, PlacesDiffer DEF CallsOpen
    <2> QED
      BY <2>1, <2>2, CloseCallEvents
  <1>4. Partly(r, it, 0)
    <2>1. 1 .. 0 = {}
      OBVIOUS
    <2> QED
      BY <2>1 DEF Partly
  <1> HIDE DEF n
  <1>5. CASE n = 0
    <2>1. b = <<>>
      BY <1>5
    <2>2. FlattenSeq(b) = <<>>
      BY <2>1 DEF FlattenSeq
    <2>3. m = r
      <3> HIDE DEF r, b
      <3> QED
        BY <1>2, <2>2, ReadsNothing
    <2> HIDE DEF r
    <2> QED
      BY <1>4, <1>5, <2>3 DEF n
  <1>6. CASE n # 0
    <2>1. b \in [1 .. n -> Seq(Events)] /\ n \in Nat \ {0}
      BY <1>1, <1>3, <1>6
    <2>2. PICK g : Joined(g, b, Events, n) /\ FlattenSeq(b) = g[n]
      <3> HIDE DEF b
      <3> QED
        BY <2>1, FlattenEquations
    <2> DEFINE S == {k \in Nat : k + 1 <= n => \A t : Reads(r, g[k + 1], t) => Partly(t, it, k + 1)}
    <2>3. 0 \in S
      <3>0. b[1] = CloseCall(tools[Keys[1]])
        BY <2>1
      <3> HIDE DEF r, b
      <3> SUFFICES ASSUME NEW t, Reads(r, g[0 + 1], t) PROVE Partly(t, it, 0 + 1)
        OBVIOUS
      <3>1. g[0 + 1] = CloseCall(tools[Keys[0 + 1]])
        BY <2>2, <3>0 DEF Joined
      <3>2. Reads(r, CloseCall(tools[Keys[0 + 1]]), t)
        BY <3>1
      <3>3. 0 + 1 <= Cardinality(DOMAIN tools) /\ 0 \in Nat
        BY <2>1 DEF n
      <3> QED
        BY <1>4, <3>2, <3>3, PartlyMore
    <2>4. ASSUME NEW k \in Nat, k \in S PROVE k + 1 \in S
      <3>0. \A l \in 1 .. n : b[l] = CloseCall(tools[Keys[l]])
        OBVIOUS
      <3> HIDE DEF r, b
      <3> SUFFICES ASSUME (k + 1) + 1 <= n, NEW t, Reads(r, g[(k + 1) + 1], t)
                   PROVE  Partly(t, it, (k + 1) + 1)
        OBVIOUS
      <3>1. k + 1 \in 1 .. n - 1 /\ k + 1 \in 1 .. n /\ (k + 1) + 1 \in 1 .. n /\ k + 1 \in Nat /\ k + 1 <= n
        BY <1>1
      <3>2. g[(k + 1) + 1] = g[k + 1] \o b[(k + 1) + 1]
        BY <2>2, <3>1 DEF Joined
      <3>3. g[k + 1] \in Seq(Events)
        BY <2>2, <3>1 DEF Joined
      <3>4. b[(k + 1) + 1] = CloseCall(tools[Keys[(k + 1) + 1]]) /\ CloseCall(tools[Keys[(k + 1) + 1]]) \in Seq(Events)
        BY <1>3, <3>0, <3>1
      <3> DEFINE last == CloseCall(tools[Keys[(k + 1) + 1]])
      <3> HIDE DEF last
      <3>5. Reads(r, g[k + 1] \o last, t) /\ last \in Seq(Events)
        BY <3>2, <3>4 DEF last
      <3>6. PICK q : Reads(r, g[k + 1], q) /\ Reads(q, last, t)
        BY <3>3, <3>5, ReadsJoin
      <3>7. Partly(q, it, k + 1)
        BY <2>4, <3>1, <3>6
      <3>8. (k + 1) + 1 <= Cardinality(DOMAIN tools)
        BY DEF n
      <3>9. Reads(q, CloseCall(tools[Keys[(k + 1) + 1]]), t)
        BY <3>6 DEF last
      <3> HIDE DEF S
      <3> QED
        BY <3>1, <3>7, <3>8, <3>9, PartlyMore
    <2>5. \A k \in Nat : k \in S
      <3> HIDE DEF S
      <3> QED
        BY <2>3, <2>4, SetInduction
    <2>6. n - 1 \in S /\ (n - 1) + 1 = n
      <3>1. n - 1 \in Nat /\ (n - 1) + 1 = n
        BY <2>1
      <3> HIDE DEF S
      <3> QED
        BY <2>5, <3>1
    <2>7. \A t : Reads(r, g[n], t) => Partly(t, it, n)
      <3> HIDE DEF r, b
      <3> QED
        BY <2>1, <2>6
    <2> HIDE DEF S, r, b
    <2> QED
      BY <1>2, <2>2, <2>7 DEF n
  <1> QED
    BY <1>5, <1>6

\* What is there of reasoning or text is closed.
CloseIf(b, k, id, size) == IF b THEN CloseItem(k, id, size) ELSE <<>>

\* The reader in which that was done.
Shut(m, it, b, k, x) ==
    \E jt : /\ m = Reader(TRUE, jt, {}) /\ IsTable(jt) /\ DOMAIN jt = DOMAIN it
            /\ b => jt[k] = x
            /\ \A y \in DOMAIN it : ~b \/ y # k => jt[y] = it[y]

\* Closing it.
LEMMA ReadsMaybeClosed ==
  ASSUME NEW it, IsTable(it), NEW b \in BOOLEAN, NEW k, NEW id, NEW size \in Nat, NEW m,
         b => k \in DOMAIN it /\ it[k] = Opened(id, size, FALSE),
         Reads(Reader(TRUE, it, {}), CloseIf(b, k, id, size), m)
  PROVE  Shut(m, it, b, k, Opened(id, size, TRUE))
  <1>1. CASE b
    <2>1. Reads(Reader(TRUE, it, {}), <<Event("done", k, id, size)>>, m)
      BY <1>1 DEF CloseIf, CloseItem
    <2>2. m = Receive(Reader(TRUE, it, {}), Event("done", k, id, size))
      BY <2>1, ReadsOne
    <2>3. k \in DOMAIN it /\ it[k] = Opened(id, size, FALSE)
      BY <1>1
    <2>4. PICK jt : /\ Receive(Reader(TRUE, it, {}), Event("done", k, id, size)) = Reader(TRUE, jt, {})
                    /\ Puts(jt, it, k, Opened(id, size, TRUE)) /\ IsTable(jt)
      BY <2>3, ReceiveDone
    <2>5. /\ DOMAIN jt = DOMAIN it /\ jt[k] = Opened(id, size, TRUE)
          /\ \A x \in DOMAIN it : x # k => jt[x] = it[x]
      BY <2>3, <2>4 DEF Puts
    <2> QED
      BY <1>1, <2>2, <2>4, <2>5 DEF Shut
  <1>2. CASE ~b
    <2>1. Reads(Reader(TRUE, it, {}), <<>>, m)
      BY <1>2 DEF CloseIf
    <2>2. m = Reader(TRUE, it, {})
      BY <2>1, ReadsNothing
    <2> QED
      BY <1>2, <2>2 DEF Shut
  <1> QED
    BY <1>1, <1>2

\* The last events of a stream.
CallsEvents == FlattenSeq([k \in DOMAIN Keys |-> CloseCall(tools[Keys[k]])])

\* What closes the calls are events.
LEMMA CallsEventsAre ==
  ASSUME TypeOK, IsFiniteSet(DOMAIN tools), \A i \in DOMAIN tools : tools[i].output \in Nat
  PROVE  CallsEvents \in Seq(Events)
  <1> DEFINE n == Cardinality(DOMAIN tools)
             b == [k \in 1 .. n |-> CloseCall(tools[Keys[k]])]
  <1>1. /\ n \in Nat /\ DOMAIN Keys = 1 .. n /\ \A j \in 1 .. n : Keys[j] \in DOMAIN tools
    BY KeysFacts
  <1>2. CallsEvents = FlattenSeq(b)
    BY <1>1 DEF CallsEvents
  <1>3. \A k \in 1 .. n : CloseCall(tools[Keys[k]]) \in Seq(Events)
    BY <1>1, CloseCallEvents
  <1> HIDE DEF n
  <1>4. CASE n = 0
    <2>1. b = <<>>
      BY <1>4
    <2>2. FlattenSeq(b) = <<>>
      BY <2>1 DEF FlattenSeq
    <2> HIDE DEF b
    <2> QED
      BY <1>2, <2>2
  <1>5. CASE n # 0
    <2>1. b \in [1 .. n -> Seq(Events)] /\ n \in Nat \ {0}
      BY <1>1, <1>3, <1>5
    <2> HIDE DEF b
    <2>2. PICK g : Joined(g, b, Events, n) /\ FlattenSeq(b) = g[n]
      BY <2>1, FlattenEquations
    <2>3. g[n] \in Seq(Events)
      BY <2>1, <2>2 DEF Joined
    <2> QED
      BY <1>2, <2>2, <2>3
  <1> QED
    BY <1>4, <1>5

\* The end of a stream closes every item.
LEMMA CompleteKeeps ==
  ASSUME IInv, StreamInv, ~completed, Complete
  PROVE  StreamInv'
  <1>1. TypeOK /\ reasoning \in Nat /\ text \in Nat /\ responseID \in ChatIds \cup {Compat}
    BY DEF IInv, TypeOK
  <1>2. ~Closed /\ Closed'
    <2>1. terminals = <<>> /\ terminals' = Append(terminals, "completed")
      BY DEF IInv, Counted, Complete
    <2> QED
      BY <2>1 DEF Closed
  <1>3. UNCHANGED <<responseID, text, reasoning, tools, orderly>> /\ Write(FinishEvents)
    BY DEF Complete
  <1>4. IsFiniteSet(DOMAIN tools) /\ IsFiniteSet(DOMAIN tools)'
    BY <1>3 DEF StreamInv
  <1> SUFFICES ASSUME orderly PROVE complaints' = {} /\ Assembled(items, TRUE)'
    BY <1>2, <1>3, <1>4 DEF StreamInv
  <1>5. complaints = {} /\ Assembled(items, FALSE)
    BY <1>2 DEF StreamInv
  <1> DEFINE A == IF ReasoningAdded THEN CloseItem(0, ReasoningId(responseID), reasoning) ELSE <<>>
             B == IF TextAdded THEN CloseItem(TextIndex, TextId(responseID), text) ELSE <<>>
  <1>6. TextIndex \in Nat
    BY DEF TextIndex, Flag
  <1>7. EnsureStarted \in Seq(Events) /\ A \in Seq(Events) /\ B \in Seq(Events) /\ CallsEvents \in Seq(Events)
    <2>1. ReasoningId(responseID) \in Ids /\ TextId(responseID) \in Ids
      BY <1>1, IdsAre
    <2>2. /\ EnsureStarted \in Seq(Events) /\ CloseItem(0, ReasoningId(responseID), reasoning) \in Seq(Events)
          /\ CloseItem(TextIndex, TextId(responseID), text) \in Seq(Events)
      BY <1>1, <1>6, <2>1, SequencesAre
    <2>3. <<>> \in Seq(Events)
      OBVIOUS
    <2>4. A \in Seq(Events) /\ B \in Seq(Events)
      BY <2>2, <2>3
    <2>5. \A i \in DOMAIN tools : tools[i].output \in Nat
      BY <1>1, <1>5, PlacesDiffer DEF Assembled
    <2>6. CallsEvents \in Seq(Events)
      BY <1>1, <1>4, <2>5, CallsEventsAre
    <2> QED
      BY <2>2, <2>4, <2>6
  <1>8. FinishEvents = ((EnsureStarted \o A) \o B) \o CallsEvents
    BY DEF FinishEvents, CallsEvents
  <1> HIDE DEF A, B
  <1>9. /\ FinishEvents = EnsureStarted \o (A \o (B \o CallsEvents))
        /\ A \o (B \o CallsEvents) \in Seq(Events) /\ B \o CallsEvents \in Seq(Events)
    <2>1. B \o CallsEvents \in Seq(Events) /\ A \o (B \o CallsEvents) \in Seq(Events)
      BY <1>7
    <2>2. ((EnsureStarted \o A) \o B) \o CallsEvents = EnsureStarted \o (A \o (B \o CallsEvents))
      BY <1>7, SMTT(30)
    <2> QED
      BY <1>8, <2>1, <2>2
  <1>10. PICK t : Reads(Reader(TRUE, items, complaints), A \o (B \o CallsEvents), t)
                  /\ items' = t.items /\ complaints' = t.complaints
    <2>1. Write(EnsureStarted \o (A \o (B \o CallsEvents)))
      BY <1>3, <1>9
    <2> QED
      BY <1>1, <1>9, <2>1, Writes
  <1>11. PICK m : Reads(Reader(TRUE, items, {}), A, m) /\ Reads(m, B \o CallsEvents, t)
    BY <1>5, <1>7, <1>9, <1>10, ReadsJoin
  <1>12. PICK l : Reads(m, B, l) /\ Reads(l, CallsEvents, t)
    BY <1>7, <1>11, ReadsJoin
  <1>a. Shut(m, items, ReasoningAdded, 0, Opened(ReasoningId(responseID), reasoning, TRUE))
    <2>1. ReasoningAdded \in BOOLEAN
      BY DEF ReasoningAdded
    <2>2. IsTable(items) /\ (ReasoningAdded => 0 \in DOMAIN items /\ items[0] = Opened(ReasoningId(responseID), reasoning, FALSE))
      BY <1>5 DEF Assembled, Places
    <2>3. Reads(Reader(TRUE, items, {}), CloseIf(ReasoningAdded, 0, ReasoningId(responseID), reasoning), m)
      BY <1>11 DEF A, CloseIf
    <2> QED
      BY <1>1, <2>1, <2>2, <2>3, ReadsMaybeClosed, Zenon
  <1>13. PICK it : /\ m = Reader(TRUE, it, {}) /\ IsTable(it) /\ DOMAIN it = DOMAIN items
                   /\ ReasoningAdded => it[0] = Opened(ReasoningId(responseID), reasoning, TRUE)
                   /\ \A x \in DOMAIN items : ~ReasoningAdded \/ x # 0 => it[x] = items[x]
    BY <1>a DEF Shut
  <1>b. Shut(l, it, TextAdded, TextIndex, Opened(TextId(responseID), text, TRUE))
    <2>1. TextAdded \in BOOLEAN
      BY DEF TextAdded
    <2>2. TextAdded => TextIndex \in DOMAIN it /\ it[TextIndex] = Opened(TextId(responseID), text, FALSE)
      <3> SUFFICES ASSUME TextAdded
                   PROVE  TextIndex \in DOMAIN it /\ it[TextIndex] = Opened(TextId(responseID), text, FALSE)
        OBVIOUS
      <3>1. TextIndex \in DOMAIN items /\ items[TextIndex] = Opened(TextId(responseID), text, FALSE)
        BY <1>5 DEF Assembled, Places
      <3>2. ReasoningAdded => TextIndex # 0
        BY <1>1, PlacesDiffer
      <3> QED
        BY <1>13, <3>1, <3>2
    <2>3. Reads(Reader(TRUE, it, {}), CloseIf(TextAdded, TextIndex, TextId(responseID), text), l)
      BY <1>12, <1>13 DEF B, CloseIf
    <2> QED
      BY <1>1, <1>13, <2>1, <2>2, <2>3, ReadsMaybeClosed, Zenon
  <1>14. PICK jt : /\ l = Reader(TRUE, jt, {}) /\ IsTable(jt) /\ DOMAIN jt = DOMAIN it
                   /\ TextAdded => jt[TextIndex] = Opened(TextId(responseID), text, TRUE)
                   /\ \A x \in DOMAIN it : ~TextAdded \/ x # TextIndex => jt[x] = it[x]
    BY <1>b DEF Shut
  <1>15. CallsOpen(jt)
    <2> SUFFICES ASSUME NEW i \in DOMAIN tools
                 PROVE  /\ tools[i].output = NextToolOutputIndex(i) /\ NextToolOutputIndex(i) \in DOMAIN jt
                        /\ jt[NextToolOutputIndex(i)] = Opened(CallId(tools[i]), CallSize(tools[i], FALSE), FALSE)
      BY DEF CallsOpen
    <2>1. /\ tools[i].output = NextToolOutputIndex(i) /\ NextToolOutputIndex(i) \in DOMAIN items
          /\ items[NextToolOutputIndex(i)] = Opened(CallId(tools[i]), CallSize(tools[i], FALSE), FALSE)
      BY <1>5 DEF Assembled, Places
    <2>2. (ReasoningAdded => NextToolOutputIndex(i) # 0) /\ (TextAdded => NextToolOutputIndex(i) # TextIndex)
      BY <1>1, PlacesDiffer
    <2> QED
      BY <1>13, <1>14, <2>1, <2>2
  <1>16. Partly(t, jt, Cardinality(DOMAIN tools))
    BY <1>1, <1>4, <1>12, <1>14, <1>15, CallsClosed DEF CallsEvents
  <1> DEFINE n == Cardinality(DOMAIN tools)
  <1>17. PICK lt : /\ t = Reader(TRUE, lt, {}) /\ IsTable(lt) /\ DOMAIN lt = DOMAIN jt
                   /\ \A j \in 1 .. n : lt[NextToolOutputIndex(Keys[j])]
                                    = Opened(CallId(tools[Keys[j]]), tools[Keys[j]].arguments, TRUE)
                   /\ \A x \in DOMAIN jt : (\A j \in 1 .. n : x # NextToolOutputIndex(Keys[j])) => lt[x] = jt[x]
    BY <1>16 DEF Partly
  <1>18. /\ n \in Nat /\ \A j \in 1 .. n : Keys[j] \in DOMAIN tools
         /\ \A i \in DOMAIN tools : \E k \in 1 .. n : Keys[k] = i
    BY <1>1, <1>4, KeysFacts
  <1> HIDE DEF n
  <1>19. items' = lt /\ complaints' = {}
    BY <1>10, <1>17 DEF Reader
  <1>20. DOMAIN lt = Places
    BY <1>5, <1>13, <1>14, <1>17 DEF Assembled
  <1>21. ReasoningAdded => lt[0] = Opened(ReasoningId(responseID), reasoning, TRUE)
    <2> SUFFICES ASSUME ReasoningAdded PROVE lt[0] = Opened(ReasoningId(responseID), reasoning, TRUE)
      OBVIOUS
    <2>1. \A j \in 1 .. n : 0 # NextToolOutputIndex(Keys[j])
      BY <1>1, <1>18, PlacesDiffer
    <2>2. 0 \in DOMAIN jt
      BY <1>17, <1>20 DEF Places
    <2>3. TextAdded => TextIndex # 0
      BY <1>1, PlacesDiffer
    <2> QED
      BY <1>13, <1>14, <1>17, <2>1, <2>2, <2>3
  <1>22. TextAdded => lt[TextIndex] = Opened(TextId(responseID), text, TRUE)
    <2> SUFFICES ASSUME TextAdded PROVE lt[TextIndex] = Opened(TextId(responseID), text, TRUE)
      OBVIOUS
    <2>1. \A j \in 1 .. n : TextIndex # NextToolOutputIndex(Keys[j])
      BY <1>1, <1>18, PlacesDiffer
    <2>2. TextIndex \in DOMAIN jt
      BY <1>17, <1>20 DEF Places
    <2> QED
      BY <1>14, <1>17, <2>1, <2>2
  <1>23. ASSUME NEW i \in DOMAIN tools
         PROVE  /\ tools[i].output = NextToolOutputIndex(i)
                /\ lt[NextToolOutputIndex(i)] = Opened(CallId(tools[i]), CallSize(tools[i], TRUE), TRUE)
    <2>1. PICK k \in 1 .. n : Keys[k] = i
      BY <1>18
    <2>2. lt[NextToolOutputIndex(i)] = Opened(CallId(tools[i]), tools[i].arguments, TRUE)
      BY <1>17, <2>1
    <2>3. CallSize(tools[i], TRUE) = tools[i].arguments
      BY DEF CallSize
    <2> QED
      BY <1>5, <2>2, <2>3 DEF Assembled
  <1>24. /\ Places' = Places /\ (ReasoningAdded' <=> ReasoningAdded) /\ (TextAdded' <=> TextAdded)
         /\ TextIndex' = TextIndex /\ \A i : NextToolOutputIndex(i)' = NextToolOutputIndex(i)
    BY <1>3 DEF Places, ReasoningAdded, TextAdded, TextIndex, NextToolOutputIndex
  <1> QED
    BY <1>3, <1>17, <1>19, <1>20, <1>21, <1>22, <1>23, <1>24 DEF Assembled

\* A step that touches nothing of it keeps it,
LEMMA SameKeeps ==
  ASSUME StreamInv, UNCHANGED <<responseID, text, reasoning, tools, orderly, items, complaints>>,
         Closed' <=> Closed
  PROVE  StreamInv'
  BY DEF StreamInv, Assembled, Places, ReasoningAdded, TextAdded, TextIndex, NextToolOutputIndex

\* so does every end of a stream,
LEMMA EndKeeps ==
  ASSUME IInv, StreamInv, Ending
  PROVE  StreamInv'
  <1>1. CASE Done \/ Eof
    <2>1. (completed /\ Keep) \/ (~completed /\ Complete)
      BY <1>1 DEF Done, Eof, FinishOnce
    <2>2. CASE Keep
      BY <2>2, SameKeeps DEF Keep, converter, reader, Closed
    <2> QED
      BY <2>1, <2>2, CompleteKeeps
  <1>2. CASE Broken \/ ReaderGone
    BY <1>2, SameKeeps DEF Broken, ReaderGone, Keep, converter, reader, Closed
  <1>3. CASE ErrorBlock
    <2>1. TypeOK
      BY DEF IInv
    <2>2. items' = items /\ complaints' = complaints
      BY <1>3, <2>1, StartWritten DEF ErrorBlock
    <2>3. Closed' <=> Closed
      <3>1. terminals \in Seq({"completed", "failed"}) /\ terminals' = Append(terminals, "failed")
        BY <1>3, <2>1 DEF ErrorBlock, TypeOK
      <3> QED
        BY <3>1, OneMoreEvent DEF Closed
    <2> QED
      BY <1>3, <2>2, <2>3, SameKeeps DEF ErrorBlock
  <1> QED
    BY <1>1, <1>2, <1>3 DEF Ending

\* Initially nothing is assembled.
LEMMA InitStream == Init => StreamInv
  <1> SUFFICES ASSUME Init PROVE StreamInv
    OBVIOUS
  <1>1. DOMAIN tools = {} /\ DOMAIN items = {} /\ items = <<>>
    BY EmptyCalls DEF Init
  <1>2. IsTable(items)
    BY <1>1 DEF IsTable
  <1>3. ~Closed
    BY DEF Init, Closed
  <1>4. ~ReasoningAdded /\ ~TextAdded
    BY DEF Init, ReasoningAdded, TextAdded
  <1>5. Assembled(items, FALSE)
    BY <1>1, <1>2, <1>4 DEF Assembled, Places
  <1> QED
    BY <1>1, <1>3, <1>5, FS_EmptySet DEF Init, StreamInv

\* and so does every step.
LEMMA NextStream == IInv /\ StreamInv /\ [Next]_vars => StreamInv'
  <1> SUFFICES ASSUME IInv, StreamInv, [Next]_vars PROVE StreamInv'
    OBVIOUS
  <1>1. CASE Delta
    BY <1>1, ReasoningKeeps, TextKeeps, ThinkKeeps, ToolKeeps, QuietKeeps DEF Delta
  <1>2. CASE Ending
    BY <1>2, EndKeeps
  <1>3. CASE UNCHANGED vars
    BY <1>3, SameKeeps DEF vars, converter, reader, Closed
  <1> QED
    BY <1>1, <1>2, <1>3 DEF Next

\* The indexes of a list are an interval.
LEMMA ListIsInterval ==
  ASSUME TypeOK, Listed, IsFiniteSet(DOMAIN tools)
  PROVE  Cardinality(DOMAIN tools) \in Nat /\ DOMAIN tools = 0 .. Cardinality(DOMAIN tools) - 1
  <1> DEFINE S == DOMAIN tools
  <1>1. S \in SUBSET Nat
    BY CallsValues, ConstantsAssumption DEF TypeOK
  <1>2. \A i \in S : Rank(i, S) = i
    BY RankInList
  <1>3. IsFiniteSet(S)
    OBVIOUS
  <1> HIDE DEF S
  <1>4. /\ Cardinality(S) \in Nat /\ \A i \in S : Rank(i, S) \in 0 .. Cardinality(S) - 1
        /\ \A k \in 0 .. Cardinality(S) - 1 : \E i \in S : Rank(i, S) = k
    BY <1>1, <1>3, RanksCover
  <1>5. S = 0 .. Cardinality(S) - 1
    BY <1>2, <1>4
  <1> QED
    BY <1>4, <1>5 DEF S

\* Whatever the order of the deltas, as long as it is the protocol's, the reader
\* can follow every event, and finds all items closed and where the final response has them.
THEOREM StreamsAreWellFormed == Spec => []WellFormed
  <1>1. Spec => []StreamInv
    BY Invariant, InitStream, NextStream, PTL DEF Spec
  <1>2. IInv /\ StreamInv => WellFormed
    <2> SUFFICES ASSUME IInv, StreamInv PROVE WellFormed
      OBVIOUS
    <2>1. orderly => complaints = {}
      BY DEF StreamInv
    <2>2. ASSUME orderly, Listed, "completed" \in ToSet(terminals)
          PROVE  /\ DOMAIN items = 0 .. Cardinality(DOMAIN items) - 1
                 /\ \A k \in DOMAIN items : items[k].done
                 /\ \A i \in DOMAIN tools : items[Position(i)].id = answer.calls[i].id
      <3>1. Closed /\ answer = Final
        BY <2>2 DEF IInv, Counted, NamedInOrder, ToSet
      <3>2. TypeOK /\ IsFiniteSet(DOMAIN tools) /\ Assembled(items, TRUE)
        BY <2>2, <3>1 DEF IInv, StreamInv
      <3> DEFINE n == Cardinality(DOMAIN tools)
                 before == Flag(ReasoningAdded) + Flag(TextAdded)
      <3>3. n \in Nat /\ DOMAIN tools = 0 .. n - 1
        BY <2>2, <3>2, ListIsInterval
      <3> HIDE DEF n
      <3>4. before \in Nat
        BY DEF Flag
      <3>5. DOMAIN items = 0 .. before + n - 1
        <4>1. \A i \in DOMAIN tools : NextToolOutputIndex(i) = before + i
          BY <3>3 DEF NextToolOutputIndex
        <4>2. \A x : x \in DOMAIN items <=>
                       \/ ReasoningAdded /\ x = 0
                       \/ TextAdded /\ x = TextIndex
                       \/ \E i \in DOMAIN tools : x = before + i
          <5>1. DOMAIN items = Places
            BY <3>2 DEF Assembled
          <5> HIDE DEF before
          <5>2. \A x : (\E i \in DOMAIN tools : x = before + i) <=> (\E i \in DOMAIN tools : x = NextToolOutputIndex(i))
            BY <4>1
          <5> QED
            BY <5>1, <5>2, PlacesAre, Zenon
        <4>3. \A x : (\E i \in DOMAIN tools : x = before + i) <=> x \in before .. before + n - 1
          <5> HIDE DEF before
          <5> SUFFICES ASSUME NEW x PROVE (\E i \in DOMAIN tools : x = before + i) <=> x \in before .. before + n - 1
            OBVIOUS
          <5>1. ASSUME NEW i \in DOMAIN tools, x = before + i PROVE x \in before .. before + n - 1
            BY <3>3, <3>4, <5>1
          <5>2. ASSUME x \in before .. before + n - 1 PROVE \E i \in DOMAIN tools : x = before + i
            <6>1. x - before \in DOMAIN tools /\ x = before + (x - before)
              BY <3>3, <3>4, <5>2
            <6> QED
              BY <6>1
          <5> QED
            BY <5>1, <5>2
        <4>4. \A x : (ReasoningAdded /\ x = 0) \/ (TextAdded /\ x = TextIndex) <=> x \in 0 .. before - 1
          BY DEF TextIndex, Flag
        <4> HIDE DEF before
        <4>5. \A x : x \in DOMAIN items <=> x \in 0 .. before - 1 \/ x \in before .. before + n - 1
          <5> SUFFICES ASSUME NEW x
                       PROVE  x \in DOMAIN items <=> x \in 0 .. before - 1 \/ x \in before .. before + n - 1
            OBVIOUS
          <5>1. x \in DOMAIN items <=> \/ ReasoningAdded /\ x = 0
                                       \/ TextAdded /\ x = TextIndex
                                       \/ \E i \in DOMAIN tools : x = before + i
            BY <4>2
          <5>2. (\E i \in DOMAIN tools : x = before + i) <=> x \in before .. before + n - 1
            BY <4>3
          <5>3. (ReasoningAdded /\ x = 0) \/ (TextAdded /\ x = TextIndex) <=> x \in 0 .. before - 1
            BY <4>4
          <5> QED
            BY <5>1, <5>2, <5>3, Zenon
        <4>6. \A x : x \in 0 .. before - 1 \/ x \in before .. before + n - 1 <=> x \in 0 .. before + n - 1
          BY <3>3, <3>4
        <4> QED
          BY <4>5, <4>6
      <3>6. Cardinality(DOMAIN items) = before + n
        <4> HIDE DEF before
        <4>1. 0 \in Int /\ before + n - 1 \in Int
          BY <3>3, <3>4
        <4>2. Cardinality(0 .. before + n - 1) = IF 0 > before + n - 1 THEN 0 ELSE (before + n - 1) - 0 + 1
          BY <4>1, FS_Interval
        <4> QED
          BY <3>3, <3>4, <3>5, <4>2
      <3>7. ASSUME NEW k \in DOMAIN items PROVE items[k].done
        <4>1. \/ ReasoningAdded /\ k = 0
              \/ TextAdded /\ k = TextIndex
              \/ \E i \in DOMAIN tools : k = NextToolOutputIndex(i)
          <5>1. k \in Places
            BY <3>2 DEF Assembled
          <5> QED
            BY <5>1, PlacesAre
        <4>2. \E id, size : items[k] = Opened(id, size, TRUE)
          BY <3>2, <4>1 DEF Assembled
        <4> QED
          BY <4>2 DEF Opened
      <3>8. ASSUME NEW i \in DOMAIN tools PROVE items[Position(i)].id = answer.calls[i].id
        <4>1. Position(i) = NextToolOutputIndex(i)
          BY <2>2, <3>2, RankInList DEF Position
        <4>2. items[NextToolOutputIndex(i)].id = CallId(tools[i])
          <5>1. items[NextToolOutputIndex(i)] = Opened(CallId(tools[i]), CallSize(tools[i], TRUE), TRUE)
            BY <3>2 DEF Assembled
          <5>2. \A id, size : Opened(id, size, TRUE).id = id
            BY DEF Opened
          <5> QED
            BY <5>1, <5>2
        <4>3. answer.calls[i].id = CallId(tools[i])
          BY <3>1 DEF Final, CallItems, CallItem, CallId
        <4> QED
          BY <4>1, <4>2, <4>3
      <3> HIDE DEF before
      <3>9. DOMAIN items = 0 .. Cardinality(DOMAIN items) - 1
        BY <3>3, <3>4, <3>5, <3>6
      <3> QED
        BY <3>7, <3>8, <3>9
    <2> QED
      BY <2>1, <2>2 DEF WellFormed
  <1> QED
    BY <1>1, <1>2, Invariant, PTL

-----------------------------------------------------------------------------
\* ToolNames, for any tools a request may declare and any kinds of edit.
USE ToolsAssumption

\* The entries noted under a name.
LEMMA NotedOnes ==
  ASSUME NEW table, NEW c
  PROVE  /\ \A e : e \in Noted(table, c) <=> e \in table /\ e.chat = c
         /\ Noted(table, c) # {} <=> \E e \in table : e.chat = c
  BY DEF Noted

\* A tool is noted under every name it may be offered under, and in one way
\* for each name: as it was declared.
LEMMA NoteEffects ==
  ASSUME NEW d \in Declarations, Note(d),
         \A e \in custom \cup function : e = Entry(e.chat, e.tool)
  PROVE  /\ \A e \in custom' \cup function' :
              \/ e \in custom \cup function
              \/ /\ e = Entry(e.chat, e.tool) /\ e.chat \in NotedUnder(d)
                 /\ e.tool = ToolOf(d)
         /\ \A c : Noted(custom, c) # {} => Noted(custom', c) # {}
         /\ \A c : Noted(function, c) # {} => Noted(function', c) # {}
         /\ \A c \in NotedUnder(d) : Noted(custom', c) # {} \/ Noted(function', c) # {}
         /\ \A c : Kept(c) => Kept(c)'
         /\ Plain(d) => Kept(d.name)'
<1> DEFINE new == ToolOf(d)
<1>1. CASE d.type = "function"
  <2> PICK added : added = Entry(d.name, new)
    OBVIOUS
  <2>1. added.chat = d.name /\ added.tool = new /\ new.space = NoNamespace
    BY <1>1 DEF Entry, Tool, ToolOf
  <2>2. /\ function' = (function \ Noted(function, d.name)) \cup {added}
        /\ custom' = custom /\ NotedUnder(d) = {d.name}
    BY <1>1 DEF Note, Put, Entry, ChatNames, NotedUnder
  <2> HIDE DEF new
  <2>3. /\ added \in function'
        /\ \A e \in function : e.chat # d.name => e \in function'
        /\ \A e \in function' : e \in function \/ e = added
    BY <2>2, NotedOnes
  <2>4. \A e \in custom' \cup function' :
            \/ e \in custom \cup function
            \/ e = Entry(e.chat, e.tool) /\ e.chat \in NotedUnder(d) /\ e.tool = new
    BY <2>1, <2>2, <2>3
  <2>5. \A c : Noted(custom, c) # {} => Noted(custom', c) # {}
    BY <2>1, <2>2, <2>3, NotedOnes
  <2>6. \A c : Noted(function, c) # {} => Noted(function', c) # {}
    BY <2>1, <2>2, <2>3, NotedOnes
  <2>7. \A c \in NotedUnder(d) : Noted(custom', c) # {} \/ Noted(function', c) # {}
    BY <2>1, <2>2, <2>3, NotedOnes
  <2>8. \A c : Kept(c) => Kept(c)'
    BY <2>1, <2>2, <2>3, NotedOnes DEF Kept
  <2>9. Plain(d) => Kept(d.name)'
    BY <2>1, <2>3, NotedOnes DEF Kept
  <2>10. QED
    BY <2>1, <2>2, <2>3, <2>4, <2>5, <2>6, <2>7, <2>8, <2>9 DEF new
<1>2. CASE d.type \in {"custom", "string"}
  <2>1. /\ custom' = {e \in custom : e.chat \notin NotedUnder(d)}
                     \cup {Entry(c, new) : c \in NotedUnder(d)}
        /\ function' = function
    BY <1>2 DEF Note
  <2> HIDE DEF new
  <2>2. \A c : Entry(c, new).chat = c /\ Entry(c, new).tool = new
    BY DEF Entry
  <2>3. /\ \A c \in NotedUnder(d) : \E e \in custom' : e.chat = c
        /\ \A e \in custom : e.chat \notin NotedUnder(d) => e \in custom'
        /\ \A e \in custom' : e \in custom \/ \E c \in NotedUnder(d) : e = Entry(c, new)
    BY <2>1, <2>2
  <2>4. \A e \in custom' \cup function' :
            \/ e \in custom \cup function
            \/ e = Entry(e.chat, e.tool) /\ e.chat \in NotedUnder(d) /\ e.tool = new
    BY <2>1, <2>2, <2>3
  <2>5. \A c : Noted(custom, c) # {} => Noted(custom', c) # {}
    BY <2>3, NotedOnes
  <2>6. \A c : Noted(function, c) # {} => Noted(function', c) # {}
    BY <2>1, <2>3, NotedOnes
  <2>7. \A c \in NotedUnder(d) : Noted(custom', c) # {} \/ Noted(function', c) # {}
    BY <2>3, NotedOnes
  <2>8. \A c : Kept(c) => Kept(c)'
    BY <2>1, <2>3, NotedOnes DEF Kept
  <2>9. Plain(d) => Kept(d.name)'
    BY <1>2 DEF Plain
  <2>10. QED
    BY <2>1, <2>2, <2>3, <2>4, <2>5, <2>6, <2>7, <2>8, <2>9 DEF new
<1>3. CASE d.type = "namespace"
  <2> PICK flat : flat = Flatten(d.space, d.name)
    OBVIOUS
  <2> PICK added : added = Entry(flat, new)
    OBVIOUS
  <2>1. added.chat = flat /\ added.tool = new
    BY DEF Entry
  <2>2. /\ function' = IF Kept(flat) THEN function
                       ELSE (function \ Noted(function, flat)) \cup {added}
        /\ custom' = custom /\ NotedUnder(d) = {flat}
        /\ Plain(d) => d.space = NoNamespace /\ flat = d.name /\ new.space = NoNamespace
    BY <1>3 DEF Note, Put, Entry, Tool, ChatNames, NotedUnder, Plain, ToolOf, Flatten
  <2> HIDE DEF new
  <2>3. /\ \E e \in function' : e.chat = flat
        /\ \A e \in function : e.chat # flat \/ Kept(flat) => e \in function'
        /\ \A e \in function' : e \in function \/ e = added
    BY <2>1, <2>2, NotedOnes DEF Kept
  <2>4. \A e \in custom' \cup function' :
            \/ e \in custom \cup function
            \/ e = Entry(e.chat, e.tool) /\ e.chat \in NotedUnder(d) /\ e.tool = new
    BY <2>1, <2>2, <2>3
  <2>5. \A c : Noted(custom, c) # {} => Noted(custom', c) # {}
    BY <2>2, <2>3, NotedOnes
  <2>6. \A c : Noted(function, c) # {} => Noted(function', c) # {}
    BY <2>2, <2>3, NotedOnes
  <2>7. \A c \in NotedUnder(d) : Noted(custom', c) # {} \/ Noted(function', c) # {}
    BY <2>2, <2>3, NotedOnes
  <2>8. \A c : Kept(c) => Kept(c)'
    BY <2>2, <2>3, NotedOnes DEF Kept
  <2>9. Plain(d) => Kept(d.name)'
    <3> SUFFICES ASSUME Plain(d) PROVE Kept(flat)'
      BY <2>2
    <3>1. CASE Kept(flat)
      BY <3>1, <2>8
    <3>2. CASE ~Kept(flat)
      <4>1. added \in function' /\ added.chat = flat /\ added.tool.space = NoNamespace
        BY <3>2, <2>1, <2>2
      <4> QED
        BY <4>1, NotedOnes DEF Kept
    <3> QED
      BY <3>1, <3>2
  <2>10. QED
    BY <2>1, <2>2, <2>3, <2>4, <2>5, <2>6, <2>7, <2>8, <2>9 DEF new
<1>4. CASE d.type = "unnoted"
  <2>1. custom' = custom /\ function' = function /\ NotedUnder(d) = {} /\ ~Plain(d)
    BY <1>4 DEF Note, NotedUnder, Plain
  <2> QED
    BY <2>1 DEF Kept
<1>5. QED
  BY <1>1, <1>2, <1>3, <1>4, ToolsAssumption

\* Nothing is noted at the start.
LEMMA NamesInitial == NamesInit => NamesIInv
  BY DEF NamesInit, NamesIInv, NamesTypeOK, NotesAreTrue, NamesAreNoted, OffersAreDeclared

\* A tool that is noted and tools that are offered leave the notes true.
LEMMA NamesStep == NamesIInv /\ [NamesNext]_nameVars => NamesIInv'
<1> SUFFICES ASSUME NamesIInv, [NamesNext]_nameVars PROVE NamesIInv'
  OBVIOUS
<1>1. ASSUME NEW d \in Declarations, Declare(d) PROVE NamesIInv'
  <2>1. /\ declared \in Seq(Declarations) /\ declared' = Append(declared, d)
        /\ Note(d) /\ offered' = {} /\ \A e \in custom \cup function : e = Entry(e.chat, e.tool)
    BY <1>1 DEF NamesIInv, NamesTypeOK, Declare
  <2> PICK n : n = Len(declared) + 1
    OBVIOUS
  <2>2. /\ declared' \in Seq(Declarations)
        /\ n \in DOMAIN declared' /\ declared'[n] = d
        /\ \A k \in DOMAIN declared : k \in DOMAIN declared' /\ declared'[k] = declared[k]
        /\ \A k \in DOMAIN declared' : k \in DOMAIN declared \/ k = n
    BY <2>1
  <2>3. \A k \in DOMAIN declared : k \in DOMAIN declared' /\ Declared(k)' = Declared(k)
    BY <2>2 DEF Declared
  <2>4. Declared(n)' = ToolOf(d)
    BY <2>2 DEF Declared
  <2> DEFINE note == ToolOf(d)
  <2>6. /\ \A e \in custom' \cup function' :
             \/ e \in custom \cup function
             \/ e = Entry(e.chat, e.tool) /\ e.chat \in NotedUnder(d) /\ e.tool = note
        /\ \A c : Noted(custom, c) # {} => Noted(custom', c) # {}
        /\ \A c : Noted(function, c) # {} => Noted(function', c) # {}
        /\ \A c \in NotedUnder(d) : Noted(custom', c) # {} \/ Noted(function', c) # {}
        /\ \A c : Kept(c) => Kept(c)'
        /\ Plain(d) => Kept(d.name)'
    BY <2>1, NoteEffects
  <2> HIDE DEF note
  <2>7. NamesTypeOK'
    <3>1. \A e \in custom' \cup function' : e = Entry(e.chat, e.tool)
      BY <2>1, <2>6
    <3>2. QED
      BY <2>2, <3>1 DEF NamesTypeOK, Entry
  <2>8. NotesAreTrue'
    <3> SUFFICES ASSUME NEW e \in custom' \cup function'
                 PROVE  \E k \in DOMAIN declared' :
                           e.chat \in NotedUnder(declared'[k]) /\ e.tool = Declared(k)'
      BY DEF NotesAreTrue
    <3>1. CASE e \in custom \cup function
      BY <3>1, <2>2, <2>3 DEF NamesIInv, NotesAreTrue
    <3>2. CASE e.chat \in NotedUnder(d) /\ e.tool = note
      BY <3>2, <2>2, <2>4 DEF note
    <3>3. QED
      BY <3>1, <3>2, <2>6
  <2>9. NamesAreNoted'
    <3> SUFFICES ASSUME NEW k \in DOMAIN declared'
                 PROVE  /\ \A c \in NotedUnder(declared'[k]) :
                             Noted(custom', c) # {} \/ Noted(function', c) # {}
                        /\ Plain(declared'[k]) => Kept(declared[k].name)'
      BY DEF NamesAreNoted
    <3>1. CASE k \in DOMAIN declared
      BY <3>1, <2>2, <2>6 DEF NamesIInv, NamesAreNoted
    <3>2. CASE k = n
      BY <3>2, <2>2, <2>6
    <3>3. QED
      BY <3>1, <3>2, <2>2
  <2>10. OffersAreDeclared'
    BY <2>1 DEF OffersAreDeclared
  <2>11. QED
    BY <2>7, <2>8, <2>9, <2>10 DEF NamesIInv
<1>2. CASE Offer
  <2>1. /\ declared' = declared /\ custom' = custom /\ function' = function
        /\ offered' = UNION {{[chat |-> c, by |-> k] : c \in OfferedBy(declared[k])}
                                : k \in DOMAIN declared}
    BY <1>2 DEF Offer
  <2>2. \A k : OfferedBy(declared[k])' = OfferedBy(declared[k])
    BY <2>1 DEF OfferedBy, Kept
  <2>3. OffersAreDeclared'
    BY <2>1, <2>2 DEF OffersAreDeclared
  <2>4. NamesTypeOK' /\ NotesAreTrue' /\ NamesAreNoted'
    BY <2>1 DEF NamesIInv, NamesTypeOK, NotesAreTrue, NamesAreNoted, Kept, Declared
  <2>5. QED
    BY <2>3, <2>4 DEF NamesIInv
<1>3. CASE UNCHANGED nameVars
  BY <1>3 DEF nameVars, NamesIInv, NamesTypeOK, NotesAreTrue, NamesAreNoted,
              OffersAreDeclared, OfferedBy, Kept, Declared
<1>4. QED
  BY <1>1, <1>2, <1>3 DEF NamesNext

\* Notes that are true and complete bring every call back.
LEMMA NamesReach == NamesIInv => CallsReachTheirTool
<1> SUFFICES ASSUME NamesIInv PROVE CallsReachTheirTool
  OBVIOUS
<1>1. CallsComeBack
  <2> SUFFICES ASSUME NEW o \in offered,
                      \A k \in DOMAIN declared :
                         o.chat \in NotedUnder(declared[k]) => Declared(k) = Declared(o.by)
               PROVE  Resolve(o.chat) = {Declared(o.by)}
    BY DEF CallsComeBack
  <2>1. o.by \in DOMAIN declared /\ o.chat \in ChatNames(declared[o.by])
    BY DEF NamesIInv, OffersAreDeclared, OfferedBy
  <2>2. \/ Noted(custom, o.chat) # {} \/ Noted(function, o.chat) # {}
        \/ Declared(o.by) = Tool(NoNamespace, o.chat)
    <3>1. CASE declared[o.by].type = "unnoted"
      BY <2>1, <3>1 DEF ChatNames, Declared, ToolOf
    <3>2. CASE declared[o.by].type # "unnoted"
      BY <2>1, <3>2 DEF NamesIInv, NamesAreNoted, NotedUnder
    <3> QED
      BY <3>1, <3>2
  <2>3. \A e \in Noted(custom, o.chat) \cup Noted(function, o.chat) : e.tool = Declared(o.by)
    BY DEF NamesIInv, NotesAreTrue, Noted
  <2>4. QED
    BY <2>2, <2>3 DEF Resolve
<1>2. FunctionsWin
  <2> SUFFICES ASSUME NEW o \in offered, Declared(o.by).space # NoNamespace,
                      NEW k \in DOMAIN declared, Plain(declared[k]),
                      declared[k].name = o.chat
               PROVE  FALSE
    BY DEF FunctionsWin
  <2>1. ~Kept(o.chat)
    <3>1. declared[o.by].type = "namespace" /\ declared[o.by].space # NoNamespace
      BY DEF Declared, ToolOf, Tool
    <3> QED
      BY <3>1 DEF NamesIInv, OffersAreDeclared, OfferedBy, ChatNames
  <2>2. Kept(o.chat)
    BY DEF NamesIInv, NamesAreNoted
  <2>3. QED
    BY <2>1, <2>2
<1>3. QED
  BY <1>1, <1>2 DEF CallsReachTheirTool

\* In whatever order tools are declared, a call of the supplier is for the tool
\* that was offered under its name, unless another one is noted under it too;
\* a function is never shadowed by a tool of a namespace
\* (buildProtocolToolContext, protocolResponseToolCall).
THEOREM CallsReach == NamesSpec => []CallsReachTheirTool
  BY NamesInitial, NamesStep, NamesReach, PTL DEF NamesSpec

(***************************************************************************)
(* ChatInput.  Lemmas about lists of messages; what one item does to them; *)
(* each action; and that the messages keep it all when the systems' words  *)
(* go in front.                                                            *)
(***************************************************************************)
HIDE ConstantsAssumption

\* A list of messages and one more.
Longer(messages, message, longer) ==
    /\ Len(longer) = Len(messages) + 1
    /\ \A k \in 1 .. Len(messages) : longer[k] = messages[k]
    /\ longer[Len(messages) + 1] = message

\* What Append makes of a list of messages.
LEMMA AppendIsLonger ==
  ASSUME NEW messages \in Seq(MessageType), NEW message \in MessageType
  PROVE  /\ Append(messages, message) \in Seq(MessageType)
         /\ Longer(messages, message, Append(messages, message))
  BY DEF Longer

\* What a message is made of.
LEMMA MessageIsTyped ==
  ASSUME NEW role \in Speakers \cup {"tool"}, NEW of \in Seq(Nat), NEW reasons \in Seq(Nat)
  PROVE  /\ Message(role, of, reasons) \in MessageType
         /\ Message(role, of, reasons).role = role
         /\ Message(role, of, reasons).of = of
         /\ Message(role, of, reasons).reasoning = reasons
  BY DEF Message, MessageType

\* The fields of a message, and the positions in it.
LEMMA MessageFields ==
  ASSUME NEW m \in MessageType
  PROVE  /\ m.role \in {"user", "assistant", "system", "tool"}
         /\ m.of \in Seq(Nat) /\ m.reasoning \in Seq(Nat)
         /\ DOMAIN m.of = 1 .. Len(m.of) /\ DOMAIN m.reasoning = 1 .. Len(m.reasoning)
         /\ Len(m.of) \in Nat /\ Len(m.reasoning) \in Nat
         /\ \A a \in DOMAIN m.of : m.of[a] \in Nat
         /\ \A a \in DOMAIN m.reasoning : m.reasoning[a] \in Nat
  BY DEF MessageType, Speakers

\* A list of messages, by its positions.
LEMMA EachIsTyped ==
  ASSUME NEW messages \in Seq(MessageType)
  PROVE  /\ Len(messages) \in Nat /\ DOMAIN messages = 1 .. Len(messages)
         /\ \A k \in DOMAIN messages : messages[k] \in MessageType
  OBVIOUS

\* One position more at the end of a list of positions.
LEMMA PositionAppended ==
  ASSUME NEW s \in Seq(Nat), NEW p \in Nat, NEW t, t = Append(s, p)
  PROVE  /\ t \in Seq(Nat) /\ DOMAIN s = 1 .. Len(s) /\ DOMAIN t = 1 .. Len(s) + 1
         /\ Len(s) \in Nat /\ Len(t) = Len(s) + 1
         /\ \A a \in DOMAIN s : a \in DOMAIN t /\ t[a] = s[a] /\ a < Len(s) + 1
         /\ t[Len(s) + 1] = p /\ Len(s) + 1 \in DOMAIN t
         /\ \A a \in DOMAIN t : a \in DOMAIN s \/ a = Len(s) + 1
  OBVIOUS

\* An empty message more takes nothing away.
LEMMA EmptyAdded ==
  ASSUME NEW history \in Seq(ItemKinds), NEW messages \in Seq(MessageType),
         NEW m \in MessageType, NEW longer \in Seq(MessageType), Longer(messages, m, longer),
         m.role = "assistant", m.of = <<>>, m.reasoning = <<>>,
         ItemsAreThere(history, messages)
  PROVE  ItemsAreThere(history, longer)
  <1> DEFINE n == Len(messages)
  <1>0. /\ n \in Nat /\ DOMAIN messages = 1 .. n /\ DOMAIN longer = 1 .. n + 1
        /\ \A k \in 1 .. n : longer[k] = messages[k]
        /\ longer[n + 1] = m /\ DOMAIN m.of = {} /\ DOMAIN m.reasoning = {}
    BY EachIsTyped DEF Longer
  <1> HIDE DEF n
  <1>1. \A k \in DOMAIN longer : Fits(history, longer[k])
    BY <1>0 DEF ItemsAreThere, Fits
  <1>2. ASSUME NEW p \in DOMAIN history, history[p].kind # "contentless"
        PROVE  \E k \in DOMAIN longer : Has(longer[k], p)
    <2>1. PICK k \in DOMAIN messages : Has(messages[k], p)
      BY <1>2 DEF ItemsAreThere
    <2> QED
      BY <2>1, <1>0
  <1>3. ASSUME NEW j \in DOMAIN longer, NEW k \in DOMAIN longer PROVE InOrder(longer, j, k)
    <2>1. CASE j = n + 1 \/ k = n + 1
      BY <2>1, <1>0 DEF InOrder
    <2>2. CASE j \in 1 .. n /\ k \in 1 .. n
      <3>1. InOrder(messages, j, k)
        BY <2>2, <1>0 DEF ItemsAreThere
      <3> QED
        BY <3>1, <2>2, <1>0 DEF InOrder
    <2> QED
      BY <2>1, <2>2, <1>0
  <1>4. ASSUME NEW k \in DOMAIN longer, IsSystem(longer[k]) \/ IsAnswer(longer[k])
        PROVE  Len(longer[k].of) = 1
    BY <1>4, <1>0 DEF ItemsAreThere, IsSystem, IsAnswer
  <1> QED
    BY <1>1, <1>2, <1>3, <1>4 DEF ItemsAreThere

\* With one item more
LEMMA ItemAppended ==
  ASSUME NEW history \in Seq(ItemKinds), NEW item \in ItemKinds
  PROVE  LET more == Append(history, item)
             p == Len(history) + 1 IN
         /\ more \in Seq(ItemKinds) /\ p \in Nat /\ Len(history) \in Nat
         /\ DOMAIN history = 1 .. Len(history) /\ DOMAIN more = 1 .. p
         /\ \A q \in DOMAIN history : more[q] = history[q] /\ q < p
         /\ more[p] = item
  OBVIOUS

\* the messages keep what they have,
LEMMA MoreFits ==
  ASSUME NEW history \in Seq(ItemKinds), NEW item \in ItemKinds, NEW m \in MessageType,
         Fits(history, m)
  PROVE  Fits(Append(history, item), m)
  BY ItemAppended DEF Fits

\* and the last one, or one more, has the item.
LEMMA ItemAdded ==
  ASSUME NEW history \in Seq(ItemKinds), NEW item \in ItemKinds, NEW messages \in Seq(MessageType),
         NEW before \in MessageType, NEW all \in Seq(MessageType), Longer(messages, before, all),
         NEW after \in MessageType, NEW now \in Seq(MessageType), Longer(messages, after, now),
         ItemsAreThere(history, all), before.role = "assistant",
         \/ /\ after.of = Append(before.of, Len(history) + 1) /\ after.reasoning = before.reasoning
            /\ item.kind \in KindsFor(after.role)
         \/ /\ after.reasoning = Append(before.reasoning, Len(history) + 1) /\ after.of = before.of
            /\ item.kind = "reasoning" /\ after.role = "assistant",
         after.role # "assistant" => before.of = <<>> /\ before.reasoning = <<>>
  PROVE  ItemsAreThere(Append(history, item), now)
  <1> DEFINE n == Len(messages)
             p == Len(history) + 1
             more == Append(history, item)
  <1>0. /\ n \in Nat /\ DOMAIN messages = 1 .. n /\ DOMAIN all = 1 .. n + 1 /\ DOMAIN now = 1 .. n + 1
        /\ \A k \in 1 .. n : now[k] = messages[k] /\ all[k] = messages[k]
        /\ all[n + 1] = before /\ now[n + 1] = after
    BY EachIsTyped DEF Longer
  <1>p. /\ more \in Seq(ItemKinds) /\ p \in Nat
        /\ \A q \in DOMAIN history : more[q] = history[q] /\ q < p /\ q \in DOMAIN more /\ q \in Nat
        /\ more[p] = item /\ p \in DOMAIN more
        /\ \A q \in DOMAIN more : q \in DOMAIN history \/ q = p
    BY ItemAppended
  <1>m. /\ \A k \in DOMAIN all : all[k] \in MessageType /\ Fits(history, all[k])
        /\ \A k \in DOMAIN now : now[k] \in MessageType
    BY EachIsTyped DEF ItemsAreThere
  <1>f. /\ before.of \in Seq(Nat) /\ before.reasoning \in Seq(Nat) /\ p \in Nat
        /\ Len(history) + 1 = p
    BY MessageFields, <1>p
  <1> HIDE DEF n, p, more
  <1>a. \A a \in DOMAIN after.of :
           \/ a \in DOMAIN before.of /\ after.of[a] = before.of[a]
           \/ /\ a = Len(before.of) + 1 /\ after.of[a] = p
              /\ item.kind \in KindsFor(after.role)
    <2>1. CASE after.of = before.of
      BY <2>1
    <2>2. CASE after.of = Append(before.of, p) /\ item.kind \in KindsFor(after.role)
      BY <2>2, <1>f, PositionAppended
    <2> QED
      BY <2>1, <2>2, <1>f
  <1>b. \A a \in DOMAIN after.reasoning :
           \/ a \in DOMAIN before.reasoning /\ after.reasoning[a] = before.reasoning[a]
           \/ /\ a = Len(before.reasoning) + 1 /\ after.reasoning[a] = p
              /\ item.kind = "reasoning" /\ after.role = "assistant"
    <2>1. CASE after.reasoning = before.reasoning
      BY <2>1
    <2>2. CASE after.reasoning = Append(before.reasoning, p) /\ item.kind = "reasoning"
               /\ after.role = "assistant"
      BY <2>2, <1>f, PositionAppended, SMTT(30)
    <2> QED
      BY <2>1, <2>2, <1>f
  <1>c. /\ \A a \in DOMAIN before.of : a \in DOMAIN after.of /\ after.of[a] = before.of[a]
        /\ \A a \in DOMAIN before.reasoning :
              a \in DOMAIN after.reasoning /\ after.reasoning[a] = before.reasoning[a]
        /\ \/ \E a \in DOMAIN after.of : after.of[a] = p
           \/ \E a \in DOMAIN after.reasoning : after.reasoning[a] = p
    <2>1. CASE after.of = Append(before.of, p) /\ after.reasoning = before.reasoning
      <3>1. Len(before.of) + 1 \in DOMAIN after.of /\ after.of[Len(before.of) + 1] = p
        BY <2>1, <1>f, PositionAppended, SMTT(30)
      <3>2. \A a \in DOMAIN before.of : a \in DOMAIN after.of /\ after.of[a] = before.of[a]
        BY <2>1, <1>f, PositionAppended, SMTT(30)
      <3> QED
        BY <2>1, <3>1, <3>2
    <2>2. CASE after.reasoning = Append(before.reasoning, p) /\ after.of = before.of
      <3>1. Len(before.reasoning) + 1 \in DOMAIN after.reasoning /\ after.reasoning[Len(before.reasoning) + 1] = p
        BY <2>2, <1>f, PositionAppended, SMTT(30)
      <3>2. \A a \in DOMAIN before.reasoning : a \in DOMAIN after.reasoning /\ after.reasoning[a] = before.reasoning[a]
        BY <2>2, <1>f, PositionAppended, SMTT(30)
      <3> QED
        BY <2>2, <3>1, <3>2
    <2> QED
      BY <2>1, <2>2, <1>f
  <1>l. /\ after.role # "assistant" => Len(after.of) = 1
        /\ after.role # "assistant" => DOMAIN before.of = {} /\ DOMAIN before.reasoning = {}
    <2>1. CASE after.role = "assistant"
      BY <2>1
    <2>2. CASE after.role # "assistant"
      <3>1. before.of = <<>> /\ before.reasoning = <<>> /\ after.of = Append(before.of, p)
        BY <2>2, <1>f
      <3>2. DOMAIN before.of = {} /\ DOMAIN before.reasoning = {} /\ Len(before.of) = 0
        BY <3>1
      <3> QED
        BY <3>1, <3>2, <1>f, PositionAppended
    <2> QED
      BY <2>1, <2>2
  <1>1. ASSUME NEW k \in DOMAIN now PROVE Fits(more, now[k])
    <2>1. CASE k \in 1 .. n
      BY <2>1, <1>0, <1>m, MoreFits DEF more
    <2>2. CASE k = n + 1
      <3>1. Fits(history, before)
        BY <1>0, <1>m
      <3>2. ASSUME NEW a \in DOMAIN after.of
            PROVE  after.of[a] \in DOMAIN more /\ more[after.of[a]].kind \in KindsFor(after.role)
        BY <3>1, <1>a, <1>l, <1>p DEF Fits
      <3>3. ASSUME NEW a \in DOMAIN after.reasoning
            PROVE  /\ after.reasoning[a] \in DOMAIN more
                   /\ more[after.reasoning[a]].kind = "reasoning" /\ after.role = "assistant"
        BY <3>1, <1>b, <1>l, <1>p DEF Fits
      <3> QED
        BY <3>2, <3>3, <2>2, <1>0 DEF Fits
    <2> QED
      BY <2>1, <2>2, <1>0
  <1>2. ASSUME NEW q \in DOMAIN more, more[q].kind # "contentless"
        PROVE  \E k \in DOMAIN now : Has(now[k], q)
    <2>1. CASE q = p
      <3>1. Has(now[n + 1], p) /\ n + 1 \in DOMAIN now
        BY <1>0, <1>c DEF Has
      <3> QED
        BY <3>1, <2>1
    <2>2. CASE q \in DOMAIN history
      <3>1. PICK k \in DOMAIN all : Has(all[k], q)
        BY <1>2, <2>2, <1>p DEF ItemsAreThere
      <3>2. CASE k \in 1 .. n
        BY <3>1, <3>2, <1>0
      <3>3. CASE k = n + 1
        <4>1. Has(after, q)
          BY <3>1, <3>3, <1>0, <1>c DEF Has
        <4> QED
          BY <4>1, <1>0
      <3> QED
        BY <3>2, <3>3, <1>0
    <2> QED
      BY <2>1, <2>2, <1>p
  <1>3. ASSUME NEW j \in DOMAIN now, NEW k \in DOMAIN now PROVE InOrder(now, j, k)
    <2>0. InOrder(all, j, k)
      BY <1>0 DEF ItemsAreThere
    <2>f. /\ \A a \in DOMAIN all[j].of : all[j].of[a] < p
          /\ \A a \in DOMAIN all[j].reasoning : all[j].reasoning[a] < p
      BY <1>0, <1>m, <1>p DEF Fits
    <2>1. ASSUME NEW a \in DOMAIN now[j].of, NEW b \in DOMAIN now[k].of,
                 j < k \/ (j = k /\ a < b)
          PROVE  now[j].of[a] < now[k].of[b]
      <3>1. CASE k \in 1 .. n
        BY <2>0, <2>1, <3>1, <1>0 DEF InOrder
      <3>2. CASE k = n + 1 /\ j \in 1 .. n
        BY <2>0, <2>f, <2>1, <3>2, <1>0, <1>a, ZenonT(60) DEF InOrder
      <3>3. CASE k = n + 1 /\ j = n + 1
        <4>1. a < b /\ a \in DOMAIN after.of /\ b \in DOMAIN after.of /\ now[j].of = after.of
              /\ now[k].of = after.of /\ all[j].of = before.of
          BY <2>1, <3>3, <1>0
        <4>2. DOMAIN before.of = 1 .. Len(before.of) /\ Len(before.of) \in Nat
          BY <1>f
        <4>3. a \in DOMAIN before.of
          BY <4>1, <4>2, <1>a, SMTT(30)
        <4>4. CASE b \in DOMAIN before.of
          <5>1. before.of[a] < before.of[b]
            BY <2>0, <3>3, <4>1, <4>3, <4>4, <1>0 DEF InOrder
          <5> QED
            BY <4>1, <4>3, <4>4, <5>1, <1>c
        <4>5. CASE b \notin DOMAIN before.of
          <5>1. before.of[a] < p
            BY <2>f, <4>1, <4>3
          <5> QED
            BY <4>1, <4>3, <4>5, <5>1, <1>c, <1>a
        <4> QED
          BY <4>4, <4>5
      <3> QED
        BY <3>1, <3>2, <3>3, <1>0
    <2>2. ASSUME NEW a \in DOMAIN now[j].reasoning, NEW b \in DOMAIN now[k].reasoning,
                 j < k \/ (j = k /\ a < b)
          PROVE  now[j].reasoning[a] < now[k].reasoning[b]
      <3>1. CASE k \in 1 .. n
        BY <2>0, <2>2, <3>1, <1>0 DEF InOrder
      <3>2. CASE k = n + 1 /\ j \in 1 .. n
        BY <2>0, <2>f, <2>2, <3>2, <1>0, <1>b DEF InOrder
      <3>3. CASE k = n + 1 /\ j = n + 1
        <4>1. a < b /\ a \in DOMAIN after.reasoning /\ b \in DOMAIN after.reasoning /\ now[j].reasoning = after.reasoning
              /\ now[k].reasoning = after.reasoning /\ all[j].reasoning = before.reasoning
          BY <2>2, <3>3, <1>0
        <4>2. DOMAIN before.reasoning = 1 .. Len(before.reasoning) /\ Len(before.reasoning) \in Nat
          BY <1>f, SMTT(30)
        <4>3. a \in DOMAIN before.reasoning
          BY <4>1, <4>2, <1>b, SMTT(30)
        <4>4. CASE b \in DOMAIN before.reasoning
          <5>1. before.reasoning[a] < before.reasoning[b]
            BY <2>0, <3>3, <4>1, <4>3, <4>4, <1>0 DEF InOrder
          <5> QED
            BY <4>1, <4>3, <4>4, <5>1, <1>c
        <4>5. CASE b \notin DOMAIN before.reasoning
          <5>1. before.reasoning[a] < p
            BY <2>f, <4>1, <4>3
          <5> QED
            BY <4>1, <4>3, <4>5, <5>1, <1>c, <1>b
        <4> QED
          BY <4>4, <4>5
      <3> QED
        BY <3>1, <3>2, <3>3, <1>0
    <2> QED
      BY <2>1, <2>2 DEF InOrder
  <1>4. ASSUME NEW k \in DOMAIN now, IsSystem(now[k]) \/ IsAnswer(now[k])
        PROVE  Len(now[k].of) = 1
    <2>1. CASE k \in 1 .. n
      BY <1>4, <2>1, <1>0 DEF ItemsAreThere
    <2>2. CASE k = n + 1
      BY <1>4, <2>2, <1>0, <1>l DEF IsSystem, IsAnswer
    <2> QED
      BY <2>1, <2>2, <1>0
  <1> QED
    BY <1>1, <1>2, <1>3, <1>4 DEF ItemsAreThere, more

\* An answer goes before the reasoning that is pending.
LEMMA AnswerAdded ==
  ASSUME NEW history \in Seq(ItemKinds), NEW item \in ItemKinds, item.kind = "output",
         NEW messages \in Seq(MessageType), NEW pending \in MessageType,
         pending.role = "assistant", pending.of = <<>>,
         NEW all \in Seq(MessageType), Longer(messages, pending, all),
         NEW reply \in MessageType, reply.role = "tool", reply.of = <<Len(history) + 1>>,
         reply.reasoning = <<>>,
         NEW answered \in Seq(MessageType), Longer(messages, reply, answered),
         NEW now \in Seq(MessageType), Longer(answered, pending, now),
         ItemsAreThere(history, all)
  PROVE  ItemsAreThere(Append(history, item), now)
  <1> DEFINE n == Len(messages)
             p == Len(history) + 1
             more == Append(history, item)
  <1>0. /\ n \in Nat /\ DOMAIN messages = 1 .. n /\ DOMAIN all = 1 .. n + 1 /\ DOMAIN now = 1 .. n + 2
        /\ \A k \in 1 .. n : now[k] = messages[k] /\ all[k] = messages[k]
        /\ all[n + 1] = pending /\ now[n + 1] = reply /\ now[n + 2] = pending
        /\ DOMAIN pending.of = {} /\ DOMAIN reply.reasoning = {}
    BY EachIsTyped, SMTT(30) DEF Longer
  <1>p. /\ more \in Seq(ItemKinds) /\ p \in Nat
        /\ \A q \in DOMAIN history : more[q] = history[q] /\ q < p /\ q \in DOMAIN more /\ q \in Nat
        /\ more[p] = item /\ p \in DOMAIN more
        /\ \A q \in DOMAIN more : q \in DOMAIN history \/ q = p
    BY ItemAppended
  <1>q. DOMAIN reply.of = {1} /\ reply.of[1] = p /\ Len(reply.of) = 1
    BY <1>p
  <1>m. /\ \A k \in DOMAIN all : all[k] \in MessageType /\ Fits(history, all[k])
        /\ \A k \in DOMAIN now : now[k] \in MessageType
    BY EachIsTyped DEF ItemsAreThere
  <1> HIDE DEF n, p, more
  <1>1. ASSUME NEW k \in DOMAIN now PROVE Fits(more, now[k])
    <2>1. CASE k \in 1 .. n
      BY <2>1, <1>0, <1>m, MoreFits DEF more
    <2>2. CASE k = n + 1
      BY <2>2, <1>0, <1>p, <1>q DEF Fits, KindsFor
    <2>3. CASE k = n + 2
      BY <2>3, <1>0, <1>m, MoreFits DEF more
    <2> QED
      BY <2>1, <2>2, <2>3, <1>0
  <1>2. ASSUME NEW q \in DOMAIN more, more[q].kind # "contentless"
        PROVE  \E k \in DOMAIN now : Has(now[k], q)
    <2>1. CASE q = p
      <3>1. Has(now[n + 1], p) /\ n + 1 \in DOMAIN now
        <4>1. 1 \in DOMAIN reply.of /\ reply.of[1] = p /\ now[n + 1] = reply
          BY <1>0, <1>q
        <4>2. Has(reply, p)
          BY <4>1 DEF Has
        <4> QED
          BY <4>1, <4>2, <1>0
      <3> QED
        BY <2>1, <3>1
    <2>2. CASE q \in DOMAIN history
      <3>1. PICK k \in DOMAIN all : Has(all[k], q)
        BY <1>2, <2>2, <1>p DEF ItemsAreThere
      <3>2. CASE k \in 1 .. n
        BY <3>1, <3>2, <1>0
      <3>3. CASE k = n + 1
        <4>1. Has(now[n + 2], q) /\ n + 2 \in DOMAIN now
          BY <3>1, <3>3, <1>0
        <4> QED
          BY <4>1
      <3> QED
        BY <3>2, <3>3, <1>0
    <2> QED
      BY <2>1, <2>2, <1>p
  <1>3. ASSUME NEW j \in DOMAIN now, NEW k \in DOMAIN now PROVE InOrder(now, j, k)
    <2>0. \A i, l \in DOMAIN all : InOrder(all, i, l)
      BY DEF ItemsAreThere
    <2>1. CASE j # n + 1 /\ k # n + 1
      <3>1. PICK i \in DOMAIN all :
               now[j] = all[i] /\ ((j \in 1 .. n /\ i = j) \/ (j = n + 2 /\ i = n + 1))
        <4>1. CASE j \in 1 .. n
          <5>1. j \in DOMAIN all /\ now[j] = all[j]
            BY <4>1, <1>0
          <5> QED
            BY <4>1, <5>1
        <4>2. CASE j = n + 2
          <5>1. n + 1 \in DOMAIN all /\ now[j] = all[n + 1]
            BY <4>2, <1>0
          <5> QED
            BY <4>2, <5>1
        <4> QED
          BY <4>1, <4>2, <2>1, <1>0
      <3>2. PICK l \in DOMAIN all :
               now[k] = all[l] /\ ((k \in 1 .. n /\ l = k) \/ (k = n + 2 /\ l = n + 1))
        <4>1. CASE k \in 1 .. n
          <5>1. k \in DOMAIN all /\ now[k] = all[k]
            BY <4>1, <1>0
          <5> QED
            BY <4>1, <5>1
        <4>2. CASE k = n + 2
          <5>1. n + 1 \in DOMAIN all /\ now[k] = all[n + 1]
            BY <4>2, <1>0
          <5> QED
            BY <4>2, <5>1
        <4> QED
          BY <4>1, <4>2, <2>1, <1>0
      <3>3. (i < l <=> j < k) /\ (i = l <=> j = k)
        BY <3>1, <3>2, <1>0
      <3> QED
        BY <2>0, <3>1, <3>2, <3>3 DEF InOrder
    <2>2. CASE j = n + 1
      BY <2>2, <1>0, <1>q DEF InOrder
    <2>3. CASE k = n + 1 /\ j # n + 1
      <3>1. ASSUME NEW a \in DOMAIN now[j].of, j < k PROVE now[j].of[a] < p
        <4>1. j \in 1 .. n /\ Fits(history, now[j])
          BY <3>1, <2>3, <1>0, <1>m
        <4> QED
          BY <4>1, <1>p DEF Fits
      <3> QED
        BY <3>1, <2>3, <1>0, <1>q DEF InOrder
    <2> QED
      BY <2>1, <2>2, <2>3
  <1>4. ASSUME NEW k \in DOMAIN now, IsSystem(now[k]) \/ IsAnswer(now[k])
        PROVE  Len(now[k].of) = 1
    <2>1. CASE k \in 1 .. n
      BY <1>4, <2>1, <1>0 DEF ItemsAreThere
    <2>2. CASE k = n + 1
      BY <1>4, <2>2, <1>0, <1>q
    <2>3. CASE k = n + 2
      BY <1>4, <2>3, <1>0 DEF IsSystem, IsAnswer
    <2> QED
      BY <2>1, <2>2, <2>3, <1>0
  <1> QED
    BY <1>1, <1>2, <1>3, <1>4 DEF ItemsAreThere, more

\* An item without content is nowhere.
LEMMA ContentlessPassed ==
  ASSUME NEW history \in Seq(ItemKinds), NEW item \in ItemKinds, item.kind = "contentless",
         NEW messages \in Seq(MessageType), ItemsAreThere(history, messages)
  PROVE  ItemsAreThere(Append(history, item), messages)
  <1>1. \A k \in DOMAIN messages : Fits(Append(history, item), messages[k])
    BY EachIsTyped, MoreFits DEF ItemsAreThere
  <1> QED
    BY <1>1, ItemAppended DEF ItemsAreThere

\* The fields of a conversion.
LEMMA Fields ==
  ASSUME NEW c \in ConversionType
  PROVE  c.messages \in Seq(MessageType) /\ c.calls \in Seq(Nat) /\ c.reasoning \in Seq(Nat)
  BY DEF ConversionType

\* One message more leaves what is pending.
LEMMA MessageAdded ==
  ASSUME NEW c \in ConversionType, NEW m \in MessageType
  PROVE  /\ Add(c, m) \in ConversionType /\ Add(c, m).messages = Append(c.messages, m)
         /\ Add(c, m).calls = c.calls /\ Add(c, m).reasoning = c.reasoning
  <1>1. Append(c.messages, m) \in Seq(MessageType)
    BY Fields
  <1> QED
    BY <1>1 DEF ConversionType, Add

Pending(c) == Message("assistant", c.calls, c.reasoning)

\* What is pending, as the last message.
LEMMA PendingIsLast ==
  ASSUME NEW c \in ConversionType
  PROVE  /\ Pending(c) \in MessageType /\ Pending(c).role = "assistant"
         /\ Pending(c).of = c.calls /\ Pending(c).reasoning = c.reasoning
         /\ WithPending(c) \in Seq(MessageType) /\ Longer(c.messages, Pending(c), WithPending(c))
         /\ Message("assistant", c.calls, c.reasoning) = Pending(c)
  <1>1. c.messages \in Seq(MessageType) /\ c.calls \in Seq(Nat) /\ c.reasoning \in Seq(Nat)
    BY Fields
  <1>2. "assistant" \in Speakers \cup {"tool"}
    BY DEF Speakers
  <1> QED
    BY <1>1, <1>2, MessageIsTyped, AppendIsLonger DEF Pending, WithPending

\* What is pending becomes the last message, and nothing is pending.
AllFlushed(c, d) ==
    /\ d \in ConversionType /\ d.messages = WithPending(c) /\ d.calls = <<>> /\ d.reasoning = <<>>

\* flushCalls and flushReasoning: nothing, or all that is pending.
LEMMA CallsFlushed ==
  ASSUME NEW c \in ConversionType
  PROVE  IF c.calls = <<>> THEN FlushCalls(c) = c ELSE AllFlushed(c, FlushCalls(c))
  BY PendingIsLast DEF FlushCalls, AllFlushed, ConversionType

\* With no calls pending, flushReasoning does the same for reasoning.
LEMMA ReasoningFlushed ==
  ASSUME NEW c \in ConversionType, c.calls = <<>>
  PROVE  IF c.reasoning = <<>> THEN FlushReasoning(c) = c ELSE AllFlushed(c, FlushReasoning(c))
  BY PendingIsLast DEF FlushReasoning, AllFlushed, ConversionType

\* No item is lost or said twice by a flush.
LEMMA FlushKeeps ==
  ASSUME NEW history \in Seq(ItemKinds), NEW c \in ConversionType, NEW d, AllFlushed(c, d),
         ItemsAreThere(history, WithPending(c))
  PROVE  ItemsAreThere(history, WithPending(d))
  <1>1. /\ WithPending(d) \in Seq(MessageType) /\ Longer(WithPending(c), Pending(d), WithPending(d))
        /\ Pending(d) \in MessageType /\ Pending(d).role = "assistant"
        /\ Pending(d).of = <<>> /\ Pending(d).reasoning = <<>>
    BY PendingIsLast DEF AllFlushed
  <1> QED
    BY <1>1, PendingIsLast, EmptyAdded

\* Two lists say the same as far as the first one goes.
Alike(history, messages, more, now) ==
    \A k \in DOMAIN messages :
       /\ IsAnswer(now[k]) <=> IsAnswer(messages[k])
       /\ \A id \in Called :
             /\ Calls(more, now[k], id) <=> Calls(history, messages[k], id)
             /\ Answers(more, now[k], id) <=> Answers(history, messages[k], id)

\* The answers directly after a message, by their positions.
LEMMA AfterWhich ==
  ASSUME NEW messages \in Seq(MessageType), NEW k \in DOMAIN messages, NEW j
  PROVE  j \in AnswersAfter(messages, k) <=>
           /\ j \in DOMAIN messages /\ k < j
           /\ \A i \in DOMAIN messages : k < i /\ i <= j => IsAnswer(messages[i])
  BY EachIsTyped DEF AnswersAfter

\* What was true of the messages is true of them still.
StillTrue(history, messages, more, now) ==
    /\ AnswersFollow(history, messages) => AnswersFollow(more, now)
    /\ Directly(history, messages) => Directly(more, now)
    /\ \A k \in DOMAIN messages :
          /\ AnswersAfter(now, k) = AnswersAfter(messages, k)
          /\ IsCaller(history, messages[k]) <=> IsCaller(more, now[k])
          /\ OnlyItsOwn(history, messages, k) => OnlyItsOwn(more, now, k)
          /\ \A id \in Called :
                Waiting(history, messages, k, id) <=> Waiting(more, now, k, id)
    /\ \A k \in DOMAIN now \ DOMAIN messages :
          /\ OnlyItsOwn(more, now, k)
          /\ \A id \in Called : Waiting(more, now, k, id) <=> Calls(more, now[k], id)

\* Nothing changes when a message is added that answers nothing.
LEMMA NoAnswerAdded ==
  ASSUME NEW history \in Seq(ItemKinds), NEW messages \in Seq(MessageType),
         NEW more \in Seq(ItemKinds), NEW now \in Seq(MessageType),
         Alike(history, messages, more, now),
         Len(now) = Len(messages)
         \/ (Len(now) = Len(messages) + 1 /\ ~IsAnswer(now[Len(messages) + 1]))
  PROVE  StillTrue(history, messages, more, now)
  <1> DEFINE n == Len(messages)
             m == Len(now)
  <1>0. /\ n \in Nat /\ DOMAIN messages = 1 .. n /\ m \in Nat /\ DOMAIN now = 1 .. m
        /\ m = n \/ (m = n + 1 /\ ~IsAnswer(now[n + 1]))
    BY EachIsTyped
  <1> HIDE DEF n, m
  <1>d. DOMAIN messages \subseteq DOMAIN now
    BY <1>0
  <1>1. ASSUME AnswersFollow(history, messages) PROVE AnswersFollow(more, now)
    <2> SUFFICES ASSUME NEW k \in DOMAIN now, IsAnswer(now[k])
                 PROVE  \E id \in Called, j \in 1 .. k - 1 :
                           Calls(more, now[j], id) /\ Answers(more, now[k], id)
      BY DEF AnswersFollow
    <2>1. k \in DOMAIN messages /\ IsAnswer(messages[k])
      BY <1>0 DEF Alike
    <2>2. PICK id \in Called, j \in 1 .. k - 1 :
             Calls(history, messages[j], id) /\ Answers(history, messages[k], id)
      BY <1>1, <2>1 DEF AnswersFollow
    <2>3. j \in DOMAIN messages
      BY <2>1, <1>0
    <2> QED
      BY <2>1, <2>2, <2>3 DEF Alike
  <1>2. \A k \in DOMAIN messages : IsCaller(history, messages[k]) <=> IsCaller(more, now[k])
    BY DEF Alike, IsCaller
  <1>3. ASSUME Directly(history, messages) PROVE Directly(more, now)
    <2> SUFFICES ASSUME NEW k \in DOMAIN now, IsAnswer(now[k])
                 PROVE  \E j \in 1 .. k - 1 :
                           /\ IsCaller(more, now[j])
                           /\ \A i \in j + 1 .. k - 1 : IsAnswer(now[i])
      BY DEF Directly
    <2>1. k \in DOMAIN messages /\ IsAnswer(messages[k])
      BY <1>0 DEF Alike
    <2>2. PICK j \in 1 .. k - 1 :
             /\ IsCaller(history, messages[j])
             /\ \A i \in j + 1 .. k - 1 : IsAnswer(messages[i])
      BY <1>3, <2>1 DEF Directly
    <2>3. j \in DOMAIN messages /\ \A i \in j + 1 .. k - 1 : i \in DOMAIN messages
      BY <2>1, <1>0
    <2> QED
      BY <2>2, <2>3, <1>2 DEF Alike
  <1>4. ASSUME NEW k \in DOMAIN messages PROVE AnswersAfter(now, k) = AnswersAfter(messages, k)
    <2>1. ASSUME NEW j PROVE j \in AnswersAfter(now, k) <=> j \in AnswersAfter(messages, k)
      <3>1. CASE j \in DOMAIN messages
        <4>1. \A i \in DOMAIN now : i <= j => i \in DOMAIN messages
          BY <3>1, <1>0
        <4> QED
          BY <3>1, <4>1, <1>d, AfterWhich DEF Alike
      <3>2. CASE j \notin DOMAIN messages
        <4>1. ASSUME j \in AnswersAfter(now, k) PROVE FALSE
          <5>1. j \in DOMAIN now /\ k < j
            BY <4>1, <1>d, AfterWhich
          <5>2. j <= j
            BY <5>1, <1>0
          <5>3. IsAnswer(now[j])
            BY <4>1, <5>1, <5>2, <1>d, AfterWhich
          <5> QED
            BY <5>1, <5>3, <3>2, <1>0
        <4> QED
          BY <3>2, <4>1, AfterWhich
      <3> QED
        BY <3>1, <3>2
    <2> QED
      BY <2>1
  <1>5. ASSUME NEW k \in DOMAIN messages
        PROVE  /\ OnlyItsOwn(history, messages, k) => OnlyItsOwn(more, now, k)
               /\ \A id \in Called : Waiting(history, messages, k, id) <=> Waiting(more, now, k, id)
    <2>1. \A j \in AnswersAfter(messages, k) : j \in DOMAIN messages
      BY AfterWhich
    <2> QED
      BY <2>1, <1>2, <1>4 DEF Alike, OnlyItsOwn, Waiting
  <1>6. ASSUME NEW k \in DOMAIN now \ DOMAIN messages
        PROVE  /\ OnlyItsOwn(more, now, k)
               /\ \A id \in Called : Waiting(more, now, k, id) <=> Calls(more, now[k], id)
    <2>1. AnswersAfter(now, k) = {}
      BY <1>0, AfterWhich
    <2> QED
      BY <2>1 DEF OnlyItsOwn, Waiting
  <1> QED
    BY <1>1, <1>2, <1>3, <1>4, <1>5, <1>6 DEF StillTrue

\* An answer to what is open leaves the rest open.
LEMMA AnswerComes ==
  ASSUME NEW history \in Seq(ItemKinds), NEW messages \in Seq(MessageType),
         NEW more \in Seq(ItemKinds), NEW now \in Seq(MessageType),
         Alike(history, messages, more, now),
         Len(now) = Len(messages) + 1, IsAnswer(now[Len(messages) + 1]),
         NEW to \in Called,
         \A id \in Called : Answers(more, now[Len(messages) + 1], id) <=> id = to,
         \A k \in DOMAIN messages : IsAnswer(messages[k]) => ~IsCaller(history, messages[k]),
         NEW ids \in SUBSET Called, to \in ids,
         Directly(history, messages),
         \E k \in DOMAIN messages : IsOpen(history, messages, k, ids),
         \A k \in DOMAIN messages :
            /\ OnlyItsOwn(history, messages, k)
            /\ \A id \in Called :
                  Waiting(history, messages, k, id) => IsOpen(history, messages, k, ids),
         ~IsCaller(more, now[Len(messages) + 1])
  PROVE  /\ Directly(more, now)
         /\ \E k \in DOMAIN now : IsOpen(more, now, k, ids \ {to})
         /\ \A k \in DOMAIN now :
               /\ OnlyItsOwn(more, now, k)
               /\ \A id \in Called :
                     Waiting(more, now, k, id) => IsOpen(more, now, k, ids \ {to})
  <1> DEFINE n == Len(messages)
             m == Len(now)
             less == ids \ {to}
  <1>l. \A id \in Called : id \in less <=> id \in ids /\ id # to
    OBVIOUS
  <1> HIDE DEF less
  <1>0. /\ n \in Nat /\ DOMAIN messages = 1 .. n /\ m \in Nat /\ DOMAIN now = 1 .. m
        /\ m = n + 1 /\ IsAnswer(now[n + 1]) /\ ~IsCaller(more, now[n + 1])
        /\ \A id \in Called : Answers(more, now[n + 1], id) <=> id = to
    BY EachIsTyped
  <1>w. \A k \in DOMAIN messages :
           IsOpen(history, messages, k, ids) =>
              /\ IsCaller(history, messages[k])
              /\ \A j \in DOMAIN messages : k < j => IsAnswer(messages[j])
              /\ \A id \in Called : id \in ids <=> Waiting(history, messages, k, id)
    BY EachIsTyped, SMTT(30) DEF IsOpen
  <1>i. \A k \in DOMAIN now :
           /\ IsCaller(more, now[k])
           /\ \A j \in DOMAIN now : k < j => IsAnswer(now[j])
           /\ \A id \in Called : id \in less <=> Waiting(more, now, k, id)
           => IsOpen(more, now, k, less)
    <2> SUFFICES ASSUME NEW k \in DOMAIN now, IsCaller(more, now[k]),
                        \A j \in DOMAIN now : k < j => IsAnswer(now[j]),
                        \A id \in Called : id \in less <=> Waiting(more, now, k, id)
                 PROVE  IsOpen(more, now, k, less)
      OBVIOUS
    <2>1. \A j \in k + 1 .. m : j \in DOMAIN now /\ k < j
      BY EachIsTyped
    <2> QED
      BY <2>1 DEF IsOpen
  <1> HIDE DEF n, m
  <1>d. DOMAIN messages \subseteq DOMAIN now
    BY <1>0
  <1>2. \A k \in DOMAIN messages : IsCaller(history, messages[k]) <=> IsCaller(more, now[k])
    BY DEF Alike, IsCaller
  <1>k. PICK k \in DOMAIN messages : IsOpen(history, messages, k, ids)
    OBVIOUS
  <1>u. \A i \in DOMAIN messages : IsOpen(history, messages, i, ids) => i = k
    <2> SUFFICES ASSUME NEW i \in DOMAIN messages, IsOpen(history, messages, i, ids) PROVE i = k
      OBVIOUS
    <2>1. ~(i < k) /\ ~(k < i)
      BY <1>k, <1>w
    <2> QED
      BY <2>1, <1>0
  <1>3. Directly(more, now)
    <2> SUFFICES ASSUME NEW i \in DOMAIN now, IsAnswer(now[i])
                 PROVE  \E j \in 1 .. i - 1 :
                           /\ IsCaller(more, now[j])
                           /\ \A l \in j + 1 .. i - 1 : IsAnswer(now[l])
      BY DEF Directly
    <2>1. CASE i \in DOMAIN messages
      <3>1. PICK j \in 1 .. i - 1 :
               /\ IsCaller(history, messages[j])
               /\ \A l \in j + 1 .. i - 1 : IsAnswer(messages[l])
        BY <2>1 DEF Directly, Alike
      <3>2. j \in DOMAIN messages /\ \A l \in j + 1 .. i - 1 : l \in DOMAIN messages
        BY <2>1, <1>0
      <3> QED
        BY <3>1, <3>2, <1>2 DEF Alike
    <2>2. CASE i = n + 1
      <3>1. k \in 1 .. i - 1 /\ IsCaller(more, now[k])
        BY <2>2, <1>0, <1>2, <1>k, <1>w
      <3>2. ASSUME NEW l \in k + 1 .. i - 1 PROVE IsAnswer(now[l])
        <4>1. l \in DOMAIN messages /\ k < l
          BY <2>2, <1>0
        <4>2. IsAnswer(messages[l])
          BY <4>1, <1>k, <1>w
        <4> QED
          BY <4>1, <4>2 DEF Alike
      <3> QED
        BY <3>1, <3>2
    <2>3. i \in DOMAIN messages \/ i = n + 1
      BY <1>0
    <2> QED
      BY <2>1, <2>2, <2>3
  <1>4. ASSUME NEW i \in DOMAIN messages
        PROVE  AnswersAfter(now, i) =
                  AnswersAfter(messages, i)
                  \cup {j \in {n + 1} : \A l \in DOMAIN messages : i < l => IsAnswer(messages[l])}
    <2>1. ASSUME NEW j \in DOMAIN messages
          PROVE  j \in AnswersAfter(now, i) <=> j \in AnswersAfter(messages, i)
      <3>1. \A l \in DOMAIN now : l <= j => l \in DOMAIN messages
        BY <2>1, <1>0
      <3> QED
        BY <3>1, <1>d, AfterWhich DEF Alike
    <2>2. n + 1 \in AnswersAfter(now, i) <=>
             \A l \in DOMAIN messages : i < l => IsAnswer(messages[l])
      <3>1. n + 1 \in DOMAIN now /\ i < n + 1
        BY <1>0
      <3>2. \A l \in DOMAIN now : l <= n + 1 /\ (l \in DOMAIN messages \/ l = n + 1)
        BY <1>0
      <3>3. n + 1 \in AnswersAfter(now, i) <=>
               \A l \in DOMAIN now : i < l /\ l <= n + 1 => IsAnswer(now[l])
        BY <3>1, <1>d, AfterWhich
      <3>4. ASSUME NEW l \in DOMAIN messages, i < l, n + 1 \in AnswersAfter(now, i)
            PROVE  IsAnswer(messages[l])
        BY <3>2, <3>3, <3>4, <1>d DEF Alike
      <3>5. ASSUME \A l \in DOMAIN messages : i < l => IsAnswer(messages[l]), NEW l \in DOMAIN now, i < l
            PROVE  IsAnswer(now[l])
        <4>1. CASE l \in DOMAIN messages
          BY <3>5, <4>1 DEF Alike
        <4>2. CASE l = n + 1
          BY <4>2, <1>0
        <4> QED
          BY <4>1, <4>2, <3>2
      <3> QED
        BY <3>3, <3>4, <3>5
    <2>3. \A j \in AnswersAfter(now, i) : j \in DOMAIN messages \/ j = n + 1
      <3>1. \A j \in DOMAIN now : j \in DOMAIN messages \/ j = n + 1
        BY <1>0
      <3> QED
        BY <3>1, <1>d, AfterWhich
    <2>4. \A j \in AnswersAfter(messages, i) : j \in DOMAIN messages
      BY AfterWhich
    <2> QED
      BY <2>1, <2>2, <2>3, <2>4
  <1>5. AnswersAfter(now, n + 1) = {} /\ n + 1 \notin DOMAIN messages
    BY <1>0, AfterWhich
  <1>6. ASSUME NEW i \in DOMAIN messages, IsCaller(history, messages[i]), i # k
        PROVE  AnswersAfter(now, i) = AnswersAfter(messages, i)
    <2>1. ~IsAnswer(messages[k]) /\ IsAnswer(messages[k]) # IsCaller(history, messages[k])
      BY <1>k, <1>w
    <2>2. CASE i < k
      BY <2>1, <2>2, <1>4
    <2>3. CASE k < i
      BY <2>3, <1>6, <1>k, <1>w
    <2> QED
      BY <2>2, <2>3, <1>0, <1>6
  <1>7. AnswersAfter(now, k) = AnswersAfter(messages, k) \cup {n + 1}
    BY <1>4, <1>k, <1>w
  <1>8. \A i \in DOMAIN messages : \A j \in AnswersAfter(messages, i) : j \in DOMAIN messages
    BY AfterWhich
  <1>9. ASSUME NEW i \in DOMAIN messages, i # k
        PROVE  /\ OnlyItsOwn(more, now, i)
               /\ \A id \in Called : ~Waiting(more, now, i, id)
    <2>1. CASE IsCaller(history, messages[i])
      <3>1. OnlyItsOwn(more, now, i)
        BY <2>1, <1>2, <1>6, <1>8, <1>9 DEF OnlyItsOwn, Alike
      <3>2. \A id \in Called : ~Waiting(history, messages, i, id)
        BY <1>9, <1>u
      <3> QED
        BY <2>1, <3>1, <3>2, <1>6, <1>8, <1>9 DEF Waiting, Alike
    <2>2. CASE ~IsCaller(history, messages[i])
      BY <2>2, <1>2 DEF OnlyItsOwn, Waiting, IsCaller
    <2> QED
      BY <2>1, <2>2
  <1>10. \A id \in Called : id \in less <=> Waiting(more, now, k, id)
    <2>1. \A id \in Called :
             Waiting(more, now, k, id) <=> Waiting(history, messages, k, id) /\ id # to
      BY <1>0, <1>5, <1>7, <1>8 DEF Waiting, Alike
    <2>2. \A id \in Called : id \in ids <=> Waiting(history, messages, k, id)
      BY <1>k, <1>w
    <2> QED
      BY <2>1, <2>2, <1>l
  <1>11. IsOpen(more, now, k, less)
    <2>1. \A j \in DOMAIN now : k < j => IsAnswer(now[j])
      <3> SUFFICES ASSUME NEW j \in DOMAIN now, k < j PROVE IsAnswer(now[j])
        OBVIOUS
      <3>1. CASE j \in DOMAIN messages
        <4>1. IsAnswer(messages[j])
          BY <3>1, <1>k, <1>w
        <4> QED
          BY <3>1, <4>1 DEF Alike
      <3>2. CASE j = n + 1
        BY <3>2, <1>0
      <3> QED
        BY <3>1, <3>2, <1>0
    <2> QED
      BY <2>1, <1>i, <1>d, <1>2, <1>10, <1>k, <1>w
  <1>12. OnlyItsOwn(more, now, k)
    <2>1. Calls(more, now[k], to) /\ \A j \in AnswersAfter(messages, k) : ~Answers(more, now[j], to)
      BY <1>k, <1>w, <1>8 DEF Waiting, Alike
    <2>2. OnlyItsOwn(history, messages, k) /\ IsCaller(history, messages[k])
      BY <1>k, <1>w
    <2>3. ASSUME NEW j \in AnswersAfter(now, k)
          PROVE  \E id \in Called : Calls(more, now[k], id) /\ Answers(more, now[j], id)
      BY <2>1, <2>2, <1>0, <1>7, <1>8 DEF OnlyItsOwn, Alike
    <2>4. ASSUME NEW i \in AnswersAfter(now, k), NEW j \in AnswersAfter(now, k), NEW id \in Called,
                 Answers(more, now[i], id), Answers(more, now[j], id)
          PROVE  i = j
      BY <2>1, <2>2, <2>4, <1>0, <1>7, <1>8 DEF OnlyItsOwn, Alike
    <2> QED
      BY <2>3, <2>4 DEF OnlyItsOwn
  <1>13. /\ OnlyItsOwn(more, now, n + 1)
         /\ \A id \in Called : ~Waiting(more, now, n + 1, id)
    BY <1>0 DEF OnlyItsOwn, Waiting, IsCaller
  <1>14. \A i \in DOMAIN now : i \in DOMAIN messages \/ i = n + 1
    BY <1>0
  <1> QED
    BY <1>3, <1>9, <1>11, <1>12, <1>13, <1>14, <1>d DEF less

Fitting(history, messages) ==
    \A k \in DOMAIN messages :
       /\ Fits(history, messages[k])
       /\ IsSystem(messages[k]) \/ IsAnswer(messages[k]) => Len(messages[k].of) = 1

\* What messages say of an item they hold does not depend on later history.
LEMMA ItemsApart ==
  ASSUME NEW history \in Seq(ItemKinds), NEW item \in ItemKinds, NEW messages \in Seq(MessageType),
         Fitting(history, messages)
  PROVE  /\ Alike(history, messages, Append(history, item), messages)
         /\ \A k \in DOMAIN messages : IsAnswer(messages[k]) => ~IsCaller(history, messages[k])
  <1> DEFINE more == Append(history, item)
  <1>0. \A q \in DOMAIN history : more[q] = history[q]
    BY ItemAppended
  <1> HIDE DEF more
  <1>1. ASSUME NEW k \in DOMAIN messages
        PROVE  /\ \A a \in DOMAIN messages[k].of : more[messages[k].of[a]] = history[messages[k].of[a]]
               /\ IsAnswer(messages[k]) =>
                     /\ more[messages[k].of[1]] = history[messages[k].of[1]]
                     /\ \A a \in DOMAIN messages[k].of : history[messages[k].of[a]].kind = "output"
    <2>1. \A a \in DOMAIN messages[k].of :
             /\ messages[k].of[a] \in DOMAIN history
             /\ history[messages[k].of[a]].kind \in KindsFor(messages[k].role)
      BY DEF Fitting, Fits
    <2>2. IsAnswer(messages[k]) => 1 \in DOMAIN messages[k].of
      <3>1. IsAnswer(messages[k]) => Len(messages[k].of) = 1
        BY DEF Fitting
      <3> QED
        BY <3>1, EachIsTyped, MessageFields
    <2> QED
      BY <1>0, <2>1, <2>2 DEF IsAnswer, KindsFor
  <1>2. ASSUME NEW k \in DOMAIN messages, NEW id \in Called
        PROVE  /\ Calls(more, messages[k], id) <=> Calls(history, messages[k], id)
               /\ Answers(more, messages[k], id) <=> Answers(history, messages[k], id)
    BY <1>1 DEF Calls, Answers
  <1>3. ASSUME NEW k \in DOMAIN messages, IsAnswer(messages[k]), IsCaller(history, messages[k])
        PROVE  FALSE
    <2>1. PICK id \in Called : Calls(history, messages[k], id)
      BY <1>3 DEF IsCaller
    <2>2. PICK a \in DOMAIN messages[k].of : history[messages[k].of[a]] = CallOf(id)
      BY <2>1 DEF Calls
    <2>3. CallOf(id).kind = "call"
      BY DEF CallOf
    <2> QED
      BY <2>2, <2>3, <1>1, <1>3
  <1> QED
    BY <1>2, <1>3 DEF Alike, more

\* A message of a new item, and a list with it.
LEMMA MessageOfItem ==
  ASSUME NEW history \in Seq(ItemKinds), NEW item \in ItemKinds, NEW m \in MessageType,
         m.of = <<Len(history) + 1>>
  PROVE  /\ \A id \in Called : Calls(Append(history, item), m, id) <=> item = CallOf(id)
         /\ \A id \in Called : Answers(Append(history, item), m, id) <=> IsAnswer(m) /\ item.id = id
  <1>0. Len(history) + 1 \in Nat
    BY ItemAppended
  <1>1. DOMAIN m.of = {1} /\ m.of[1] = Len(history) + 1
    BY <1>0
  <1>2. Append(history, item)[Len(history) + 1] = item
    BY ItemAppended
  <1> QED
    BY <1>1, <1>2 DEF Calls, Answers

\* Messages that are alike still are when the list grows.
LEMMA AlikeLonger ==
  ASSUME NEW history, NEW more, NEW messages \in Seq(MessageType), NEW m \in MessageType,
         Alike(history, messages, more, messages),
         NEW now \in Seq(MessageType), Longer(messages, m, now)
  PROVE  Alike(history, messages, more, now)
  BY EachIsTyped DEF Alike, Longer

\* What holds of the messages with what is pending holds of the messages.
LEMMA WithoutPending ==
  ASSUME NEW history \in Seq(ItemKinds), NEW messages \in Seq(MessageType), NEW m \in MessageType,
         NEW all \in Seq(MessageType), Longer(messages, m, all), ItemsAreThere(history, all)
  PROVE  Fitting(history, messages) /\ \A j, k \in DOMAIN messages : InOrder(messages, j, k)
  <1>0. /\ DOMAIN messages \subseteq DOMAIN all
        /\ \A k \in DOMAIN messages : all[k] = messages[k]
    BY EachIsTyped DEF Longer
  <1> QED
    BY <1>0 DEF ItemsAreThere, InOrder, Fitting

Holds(history, c) ==
    /\ c \in ConversionType /\ ItemsAreThere(history, WithPending(c))
    /\ AnswersFollow(history, c.messages)

\* What is known of the messages between two items.
LEMMA KeptAlready ==
  ASSUME NEW history \in Seq(ItemKinds), NEW c, Holds(history, c)
  PROVE  /\ c \in ConversionType /\ c.messages \in Seq(MessageType)
         /\ c.calls \in Seq(Nat) /\ c.reasoning \in Seq(Nat)
         /\ Fitting(history, c.messages) /\ Fits(history, Pending(c))
  <1>1. c \in ConversionType /\ c.messages \in Seq(MessageType)
        /\ c.calls \in Seq(Nat) /\ c.reasoning \in Seq(Nat)
    BY Fields DEF Holds
  <1>2. Fitting(history, c.messages)
    BY <1>1, PendingIsLast, WithoutPending DEF Holds
  <1>3. /\ Len(c.messages) + 1 \in DOMAIN WithPending(c)
        /\ WithPending(c)[Len(c.messages) + 1] = Pending(c)
    BY <1>1, PendingIsLast, EachIsTyped DEF Longer
  <1>4. Fits(history, Pending(c))
    BY <1>3 DEF Holds, ItemsAreThere
  <1> QED
    BY <1>1, <1>2, <1>4

\* The same messages with a later item.
LEMMA SameMessages ==
  ASSUME NEW history \in Seq(ItemKinds), NEW messages \in Seq(MessageType),
         NEW more \in Seq(ItemKinds), Alike(history, messages, more, messages)
  PROVE  /\ AnswersFollow(history, messages) => AnswersFollow(more, messages)
         /\ Directly(history, messages) => Directly(more, messages)
         /\ \A k \in DOMAIN messages :
               /\ OnlyItsOwn(history, messages, k) => OnlyItsOwn(more, messages, k)
               /\ \A id \in Called :
                     Waiting(history, messages, k, id) <=> Waiting(more, messages, k, id)
               /\ \A ids : IsOpen(history, messages, k, ids) => IsOpen(more, messages, k, ids)
  <1>1. /\ AnswersFollow(history, messages) => AnswersFollow(more, messages)
        /\ Directly(history, messages) => Directly(more, messages)
        /\ \A k \in DOMAIN messages :
              /\ IsCaller(history, messages[k]) <=> IsCaller(more, messages[k])
              /\ OnlyItsOwn(history, messages, k) => OnlyItsOwn(more, messages, k)
              /\ \A id \in Called :
                    Waiting(history, messages, k, id) <=> Waiting(more, messages, k, id)
    BY NoAnswerAdded DEF StillTrue
  <1> QED
    BY <1>1 DEF IsOpen

\* The calls pending become a message: they are open as they were.
LEMMA AfterFlushCalls ==
  ASSUME NEW history \in Seq(ItemKinds), NEW c, Holds(history, c),
         NEW f, f = FlushCalls(c)
  PROVE  /\ Holds(history, f) /\ f.calls = <<>>
         /\ Directly(history, c.messages) => Directly(history, f.messages)
         /\ \A ids \in SUBSET Called : OpenAreLast(history, c, ids) => OpenAreLast(history, f, ids)
  <1>1. CASE c.calls = <<>>
    BY <1>1, CallsFlushed, KeptAlready
  <1>2. CASE c.calls # <<>>
    <2> DEFINE messages == c.messages
               n == Len(messages)
               m == Pending(c)
               now == f.messages
    <2>1. c \in ConversionType /\ AllFlushed(c, f)
      BY <1>2, CallsFlushed, KeptAlready
    <2>2. /\ m \in MessageType /\ m.role = "assistant" /\ messages \in Seq(MessageType)
          /\ now \in Seq(MessageType) /\ Longer(messages, m, now)
          /\ f.calls = <<>> /\ f \in ConversionType
          /\ Message("assistant", c.calls, c.reasoning) = m
      BY <2>1, Fields, PendingIsLast DEF AllFlushed
    <2>3. ItemsAreThere(history, WithPending(f))
      BY <2>1, FlushKeeps DEF Holds
    <2> HIDE DEF messages, m, now
    <2>4. /\ n \in Nat /\ DOMAIN messages = 1 .. n /\ DOMAIN now = 1 .. n + 1 /\ Len(now) = n + 1
          /\ now[n + 1] = m /\ ~IsAnswer(now[n + 1])
      BY <2>2, EachIsTyped DEF Longer, IsAnswer
    <2> HIDE DEF n
    <2>5. Alike(history, messages, history, now)
      <3>1. Alike(history, messages, history, messages)
        BY DEF Alike
      <3> QED
        BY <3>1, <2>2, AlikeLonger
    <2>6. /\ AnswersFollow(history, messages) => AnswersFollow(history, now)
          /\ Directly(history, messages) => Directly(history, now)
          /\ \A k \in DOMAIN messages :
                /\ OnlyItsOwn(history, messages, k) => OnlyItsOwn(history, now, k)
                /\ \A id \in Called :
                      Waiting(history, messages, k, id) <=> Waiting(history, now, k, id)
          /\ OnlyItsOwn(history, now, n + 1)
          /\ \A id \in Called : Waiting(history, now, n + 1, id) <=> Calls(history, m, id)
      <3>1. n + 1 \in DOMAIN now \ DOMAIN messages
        BY <2>4
      <3>2. Len(now) = Len(messages) + 1 /\ ~IsAnswer(now[Len(messages) + 1])
        BY <2>4 DEF n
      <3>3. StillTrue(history, messages, history, now)
        BY <3>2, <2>2, <2>5, NoAnswerAdded
      <3> QED
        BY <3>1, <3>3, <2>4 DEF StillTrue
    <2>7. ASSUME NEW ids \in SUBSET Called, OpenAreLast(history, c, ids)
          PROVE  OpenAreLast(history, f, ids)
      <3>1. \A id \in Called : id \in ids <=> Calls(history, m, id)
        BY <1>2, <2>2, <2>7 DEF OpenAreLast
      <3>2. ASSUME NEW id \in Called, Calls(history, m, id) PROVE IsOpen(history, now, n + 1, ids)
        <4>1. IsCaller(history, now[n + 1])
          BY <3>2, <2>4 DEF IsCaller
        <4>2. (n + 1) + 1 .. Len(now) = {}
          BY <2>4
        <4> QED
          BY <4>1, <4>2, <3>1, <2>6 DEF IsOpen
      <3>3. ids # {} => \E k \in DOMAIN now : IsOpen(history, now, k, ids)
        <4> SUFFICES ASSUME NEW id \in ids PROVE \E k \in DOMAIN now : IsOpen(history, now, k, ids)
          OBVIOUS
        <4>1. id \in Called /\ Calls(history, m, id)
          BY <3>1
        <4>2. n + 1 \in DOMAIN now /\ IsOpen(history, now, n + 1, ids)
          BY <4>1, <3>2, <2>4
        <4> QED
          BY <4>2
      <3>4. ASSUME NEW k \in DOMAIN now
            PROVE  /\ OnlyItsOwn(history, now, k)
                   /\ \A id \in Called : Waiting(history, now, k, id) => IsOpen(history, now, k, ids)
        <4>1. CASE k \in DOMAIN messages
          <5>1. /\ OnlyItsOwn(history, messages, k)
                /\ \A id \in Called : ~Waiting(history, messages, k, id)
            BY <1>2, <2>7, <4>1 DEF OpenAreLast, messages
          <5> QED
            BY <5>1, <4>1, <2>6
        <4>2. CASE k = n + 1
          BY <4>2, <2>6, <3>2
        <4> QED
          BY <4>1, <4>2, <2>4
      <3> QED
        BY <3>3, <3>4, <2>2 DEF OpenAreLast, now
    <2> QED
      BY <2>2, <2>3, <2>6, <2>7 DEF Holds, messages, now
  <1> QED
    BY <1>1, <1>2

\* Reasoning pending becomes a message without calls.
LEMMA AfterFlushReasoning ==
  ASSUME NEW history \in Seq(ItemKinds), NEW c, Holds(history, c), c.calls = <<>>,
         NEW f, f = FlushReasoning(c)
  PROVE  /\ Holds(history, f) /\ f.calls = <<>> /\ f.reasoning = <<>>
         /\ Directly(history, c.messages) => Directly(history, f.messages)
         /\ OpenAreLast(history, c, {}) => OpenAreLast(history, f, {})
  <1>1. CASE c.reasoning = <<>>
    BY <1>1, ReasoningFlushed, KeptAlready
  <1>2. CASE c.reasoning # <<>>
    <2> DEFINE messages == c.messages
               n == Len(messages)
               m == Pending(c)
               now == f.messages
    <2>1. c \in ConversionType /\ AllFlushed(c, f)
      BY <1>2, ReasoningFlushed, KeptAlready
    <2>2. /\ m \in MessageType /\ m.role = "assistant" /\ messages \in Seq(MessageType)
          /\ now \in Seq(MessageType) /\ Longer(messages, m, now)
          /\ f.calls = <<>> /\ f.reasoning = <<>> /\ f \in ConversionType /\ m.of = <<>>
      BY <2>1, Fields, PendingIsLast DEF AllFlushed
    <2>3. ItemsAreThere(history, WithPending(f))
      BY <2>1, FlushKeeps DEF Holds
    <2>c. \A id \in Called : ~Calls(history, m, id)
      BY <2>2 DEF Calls
    <2> HIDE DEF messages, m, now
    <2>4. /\ n \in Nat /\ DOMAIN messages = 1 .. n /\ DOMAIN now = 1 .. n + 1 /\ Len(now) = n + 1
          /\ now[n + 1] = m /\ ~IsAnswer(now[n + 1])
      BY <2>2, EachIsTyped DEF Longer, IsAnswer
    <2> HIDE DEF n
    <2>5. Alike(history, messages, history, now)
      <3>1. Alike(history, messages, history, messages)
        BY DEF Alike
      <3> QED
        BY <3>1, <2>2, AlikeLonger
    <2>6. /\ AnswersFollow(history, messages) => AnswersFollow(history, now)
          /\ Directly(history, messages) => Directly(history, now)
          /\ \A k \in DOMAIN messages :
                /\ OnlyItsOwn(history, messages, k) => OnlyItsOwn(history, now, k)
                /\ \A id \in Called :
                      Waiting(history, messages, k, id) <=> Waiting(history, now, k, id)
          /\ OnlyItsOwn(history, now, n + 1)
          /\ \A id \in Called : ~Waiting(history, now, n + 1, id)
      <3>1. n + 1 \in DOMAIN now \ DOMAIN messages
        BY <2>4
      <3>2. Len(now) = Len(messages) + 1 /\ ~IsAnswer(now[Len(messages) + 1])
        BY <2>4 DEF n
      <3>3. StillTrue(history, messages, history, now)
        BY <3>2, <2>2, <2>5, NoAnswerAdded
      <3> QED
        BY <3>1, <3>3, <2>4, <2>c DEF StillTrue
    <2>7. ASSUME OpenAreLast(history, c, {}) PROVE OpenAreLast(history, f, {})
      <3>1. ASSUME NEW k \in DOMAIN now
            PROVE  OnlyItsOwn(history, now, k) /\ \A id \in Called : ~Waiting(history, now, k, id)
        <4>1. CASE k \in DOMAIN messages
          <5>1. /\ OnlyItsOwn(history, messages, k)
                /\ \A id \in Called : ~Waiting(history, messages, k, id)
            BY <2>7, <4>1 DEF OpenAreLast, IsOpen, messages
          <5> QED
            BY <5>1, <4>1, <2>6
        <4>2. CASE k = n + 1
          BY <4>2, <2>6
        <4> QED
          BY <4>1, <4>2, <2>4
      <3> QED
        BY <3>1, <2>2 DEF OpenAreLast, now
    <2> QED
      BY <2>2, <2>3, <2>6, <2>7 DEF Holds, messages, now
  <1> QED
    BY <1>1, <1>2

\* An item becomes a message of its own, which is no answer.
LEMMA MessageRead ==
  ASSUME NEW history \in Seq(ItemKinds), NEW item \in ItemKinds, item.kind # "call",
         NEW c, Holds(history, c), c.calls = <<>>,
         NEW m \in MessageType, m.of = <<Len(history) + 1>>, m.reasoning = c.reasoning,
         item.kind \in KindsFor(m.role), m.role # "tool",
         m.role # "assistant" => c.reasoning = <<>>,
         NEW d \in ConversionType, d.messages = Append(c.messages, m),
         d.calls = <<>>, d.reasoning = <<>>
  PROVE  /\ Holds(Append(history, item), d)
         /\ Directly(history, c.messages) => Directly(Append(history, item), d.messages)
         /\ OpenAreLast(history, c, {}) => OpenAreLast(Append(history, item), d, {})
  <1> DEFINE messages == c.messages
             n == Len(messages)
             now == d.messages
             more == Append(history, item)
  <1>1. /\ c \in ConversionType /\ messages \in Seq(MessageType) /\ c.reasoning \in Seq(Nat)
        /\ Fitting(history, messages) /\ now \in Seq(MessageType) /\ Longer(messages, m, now)
        /\ more \in Seq(ItemKinds)
    BY KeptAlready, AppendIsLonger, ItemAppended
  <1>2. /\ Pending(c) \in MessageType /\ Pending(c).role = "assistant" /\ Pending(c).of = <<>>
        /\ Pending(c).reasoning = c.reasoning
        /\ WithPending(c) \in Seq(MessageType) /\ Longer(messages, Pending(c), WithPending(c))
    BY <1>1, PendingIsLast
  <1>3. /\ Pending(d) \in MessageType /\ Pending(d).role = "assistant" /\ Pending(d).of = <<>>
        /\ Pending(d).reasoning = <<>>
        /\ WithPending(d) \in Seq(MessageType) /\ Longer(now, Pending(d), WithPending(d))
    BY <1>1, PendingIsLast
  <1>4. ItemsAreThere(more, now)
    <2>1. m.of = Append(Pending(c).of, Len(history) + 1)
      BY <1>2
    <2>2. m.role # "assistant" => Pending(c).of = <<>> /\ Pending(c).reasoning = <<>>
      BY <1>2
    <2>3. ItemsAreThere(history, WithPending(c))
      BY DEF Holds
    <2> HIDE DEF messages, now
    <2> QED
      BY <2>1, <2>2, <2>3, <1>1, <1>2, ItemAdded
  <1>5. ItemsAreThere(more, WithPending(d))
    BY <1>1, <1>3, <1>4, EmptyAdded
  <1>6. Alike(history, messages, more, now)
    BY <1>1, ItemsApart, AlikeLonger
  <1>7. \A id \in Called : ~Calls(more, m, id)
    BY <1>1, MessageOfItem DEF CallOf
  <1> HIDE DEF messages, now, more
  <1>8. /\ n \in Nat /\ DOMAIN messages = 1 .. n /\ DOMAIN now = 1 .. n + 1 /\ Len(now) = n + 1
        /\ now[n + 1] = m /\ ~IsAnswer(now[n + 1])
    BY <1>1, EachIsTyped DEF Longer, IsAnswer
  <1> HIDE DEF n
  <1>9. /\ AnswersFollow(history, messages) => AnswersFollow(more, now)
        /\ Directly(history, messages) => Directly(more, now)
        /\ \A k \in DOMAIN messages :
              /\ OnlyItsOwn(history, messages, k) => OnlyItsOwn(more, now, k)
              /\ \A id \in Called :
                    Waiting(history, messages, k, id) <=> Waiting(more, now, k, id)
        /\ OnlyItsOwn(more, now, n + 1)
        /\ \A id \in Called : ~Waiting(more, now, n + 1, id)
    <2>1. n + 1 \in DOMAIN now \ DOMAIN messages
      BY <1>8
    <2>2. Len(now) = Len(messages) + 1 /\ ~IsAnswer(now[Len(messages) + 1])
      BY <1>8 DEF n
    <2>3. StillTrue(history, messages, more, now)
      BY <2>2, <1>1, <1>6, NoAnswerAdded
    <2> QED
      BY <2>1, <2>3, <1>7, <1>8 DEF StillTrue
  <1>10. ASSUME OpenAreLast(history, c, {}) PROVE OpenAreLast(more, d, {})
    <2>1. ASSUME NEW k \in DOMAIN now
          PROVE  OnlyItsOwn(more, now, k) /\ \A id \in Called : ~Waiting(more, now, k, id)
      <3>1. CASE k \in DOMAIN messages
        <4>1. /\ OnlyItsOwn(history, messages, k)
              /\ \A id \in Called : ~Waiting(history, messages, k, id)
          BY <1>10, <3>1 DEF OpenAreLast, IsOpen, messages
        <4> QED
          BY <4>1, <3>1, <1>9
      <3>2. CASE k = n + 1
        BY <3>2, <1>9
      <3> QED
        BY <3>1, <3>2, <1>8
    <2> QED
      BY <2>1 DEF OpenAreLast, now
  <1> QED
    BY <1>5, <1>9, <1>10 DEF Holds, messages, now, more

\* A call the history holds is in a message before what is pending.
LEMMA CallIsThere ==
  ASSUME NEW history \in Seq(ItemKinds), NEW c, Holds(history, c), c.calls = <<>>,
         NEW id \in Called, NEW p \in DOMAIN history, history[p] = CallOf(id)
  PROVE  \E k \in DOMAIN c.messages : Calls(history, c.messages[k], id)
  <1>1. c \in ConversionType /\ c.messages \in Seq(MessageType)
    BY KeptAlready
  <1>2. history[p].kind = "call"
    BY DEF CallOf
  <1>3. PICK k \in DOMAIN WithPending(c) : Has(WithPending(c)[k], p)
    BY <1>2 DEF Holds, ItemsAreThere
  <1>4. /\ DOMAIN WithPending(c) = 1 .. Len(c.messages) + 1 /\ DOMAIN c.messages = 1 .. Len(c.messages)
        /\ Len(c.messages) \in Nat
        /\ \A j \in DOMAIN c.messages : WithPending(c)[j] = c.messages[j]
        /\ WithPending(c)[Len(c.messages) + 1] = Pending(c)
        /\ Pending(c).of = <<>>
    BY <1>1, PendingIsLast, EachIsTyped DEF Longer
  <1>5. \A a \in DOMAIN WithPending(c)[k].reasoning : WithPending(c)[k].reasoning[a] # p
    <2>1. Fits(history, WithPending(c)[k])
      BY DEF Holds, ItemsAreThere
    <2> QED
      BY <1>2, <2>1 DEF Fits
  <1>6. \E a \in DOMAIN WithPending(c)[k].of : WithPending(c)[k].of[a] = p
    BY <1>3, <1>5 DEF Has
  <1>7. k # Len(c.messages) + 1
    BY <1>4, <1>6
  <1>8. k \in DOMAIN c.messages
    BY <1>4, <1>7
  <1> QED
    BY <1>4, <1>6, <1>8 DEF Calls

\* A message made of the next item alone.
LEMMA MessageOfItemIsTyped ==
  ASSUME NEW history \in Seq(ItemKinds), NEW role, role \in Speakers \cup {"tool"},
         NEW reasons \in Seq(Nat), NEW m, m = Message(role, <<Len(history) + 1>>, reasons)
  PROVE  /\ m \in MessageType /\ m.role = role
         /\ m.of = <<Len(history) + 1>> /\ m.reasoning = reasons
  <1> DEFINE of == <<Len(history) + 1>>
  <1>1. of \in Seq(Nat)
    BY ItemAppended
  <1>2. m = Message(role, of, reasons)
    OBVIOUS
  <1> HIDE DEF of
  <1>3. m \in MessageType /\ m.role = role /\ m.of = of /\ m.reasoning = reasons
    BY <1>1, <1>2 DEF Message, MessageType
  <1> QED
    BY <1>3 DEF of

\* An output of a call the history holds becomes a tool message.
LEMMA AnswerRead ==
  ASSUME NEW history \in Seq(ItemKinds), NEW item \in ItemKinds, item.kind = "output",
         NEW c, Holds(history, c), c.calls = <<>>,
         \E p \in DOMAIN history : history[p] = CallOf(item.id),
         NEW d, d = Add(c, Message("tool", <<Len(history) + 1>>, <<>>))
  PROVE  /\ Holds(Append(history, item), d) /\ d.calls = <<>>
         /\ \A ids \in SUBSET Called :
               item.id \in ids /\ Directly(history, c.messages) /\ OpenAreLast(history, c, ids) =>
                  /\ Directly(Append(history, item), d.messages)
                  /\ OpenAreLast(Append(history, item), d, ids \ {item.id})
  <1> DEFINE messages == c.messages
             n == Len(messages)
             m == Message("tool", <<Len(history) + 1>>, <<>>)
             now == d.messages
             more == Append(history, item)
             to == item.id
  <1>0. /\ c \in ConversionType /\ messages \in Seq(MessageType)
        /\ Fitting(history, messages) /\ more \in Seq(ItemKinds) /\ to \in Called
    BY KeptAlready, ItemAppended DEF ItemKinds, Speakers
  <1>m. /\ m \in MessageType /\ m.role = "tool" /\ m.of = <<Len(history) + 1>> /\ m.reasoning = <<>>
    <2> DEFINE none == <<>>
               of == <<Len(history) + 1>>
    <2>1. m = Message("tool", of, none)
      OBVIOUS
    <2>2. none \in Seq(Nat) /\ of \in Seq(Nat)
      BY ItemAppended
    <2> HIDE DEF m, none, of
    <2>3. m \in MessageType /\ m.role = "tool" /\ m.of = of /\ m.reasoning = none
      BY <2>1, <2>2 DEF Message, MessageType
    <2> QED
      BY <2>3 DEF none, of
  <1> HIDE DEF m
  <1>d. /\ d \in ConversionType /\ now = Append(messages, m)
        /\ d.calls = <<>> /\ d.reasoning = c.reasoning
    BY <1>0, <1>m, MessageAdded DEF m
  <1>1. now \in Seq(MessageType) /\ Longer(messages, m, now)
    BY <1>0, <1>m, <1>d, AppendIsLonger
  <1>2. /\ Pending(c) \in MessageType /\ Pending(c).role = "assistant" /\ Pending(c).of = <<>>
        /\ WithPending(c) \in Seq(MessageType) /\ Longer(messages, Pending(c), WithPending(c))
        /\ Pending(d) = Pending(c)
        /\ WithPending(d) \in Seq(MessageType) /\ Longer(now, Pending(d), WithPending(d))
    BY <1>0, <1>d, PendingIsLast DEF Pending
  <1>3. ItemsAreThere(more, WithPending(d))
    <2>1. ItemsAreThere(history, WithPending(c))
      BY DEF Holds
    <2>2. Longer(now, Pending(c), WithPending(d))
      BY <1>2
    <2> HIDE DEF messages, now
    <2> QED
      BY <2>1, <2>2, <1>0, <1>m, <1>1, <1>2, AnswerAdded
  <1>4. /\ Alike(history, messages, more, now) /\ Alike(history, messages, more, messages)
        /\ \A k \in DOMAIN messages : IsAnswer(messages[k]) => ~IsCaller(history, messages[k])
    BY <1>0, <1>1, <1>m, ItemsApart, AlikeLonger
  <1>5. /\ IsAnswer(m) /\ ~IsCaller(more, m)
        /\ \A id \in Called : Answers(more, m, id) <=> id = to
    <2>1. \A id \in Called : item # CallOf(id)
      BY DEF CallOf
    <2> QED
      BY <2>1, <1>m, MessageOfItem DEF IsAnswer, IsCaller
  <1>c. PICK j \in DOMAIN messages : Calls(history, messages[j], to)
    BY <1>0, CallIsThere
  <1>f. AnswersFollow(history, messages)
    BY DEF Holds
  <1> HIDE DEF messages, now, more, to
  <1>6. /\ n \in Nat /\ DOMAIN messages = 1 .. n /\ DOMAIN now = 1 .. n + 1 /\ Len(now) = n + 1
        /\ now[n + 1] = m /\ \A k \in DOMAIN messages : now[k] = messages[k]
    <2>1. /\ n \in Nat /\ DOMAIN messages = 1 .. n /\ Len(now) \in Nat /\ DOMAIN now = 1 .. Len(now)
      BY <1>1, EachIsTyped
    <2>2. Len(now) = n + 1 /\ now[n + 1] = m /\ \A k \in 1 .. n : now[k] = messages[k]
      BY <1>1 DEF Longer
    <2> QED
      BY <2>1, <2>2
  <1>7. Len(now) = Len(messages) + 1 /\ now[Len(messages) + 1] = m
    BY <1>6
  <1> HIDE DEF n
  <1>8. AnswersFollow(more, now)
    <2> SUFFICES ASSUME NEW k \in DOMAIN now, IsAnswer(now[k])
                 PROVE  \E id \in Called, i \in 1 .. k - 1 :
                           Calls(more, now[i], id) /\ Answers(more, now[k], id)
      BY DEF AnswersFollow
    <2>1. CASE k \in DOMAIN messages
      <3>1. IsAnswer(messages[k])
        BY <2>1, <1>4 DEF Alike
      <3>2. PICK id \in Called, i \in 1 .. k - 1 :
               Calls(history, messages[i], id) /\ Answers(history, messages[k], id)
        BY <2>1, <3>1, <1>f DEF AnswersFollow
      <3>3. i \in DOMAIN messages
        BY <2>1, <1>6
      <3> QED
        BY <2>1, <3>2, <3>3, <1>4 DEF Alike
    <2>2. CASE k = n + 1
      <3>1. j \in 1 .. k - 1
        BY <2>2, <1>6
      <3>2. Calls(more, now[j], to) /\ Answers(more, now[k], to)
        BY <2>2, <1>0, <1>4, <1>5, <1>6, <1>c DEF Alike
      <3> QED
        BY <3>1, <3>2, <1>0
    <2> QED
      BY <2>1, <2>2, <1>6
  <1>9. ASSUME NEW ids \in SUBSET Called, to \in ids,
               Directly(history, messages), OpenAreLast(history, c, ids)
        PROVE  Directly(more, now) /\ OpenAreLast(more, d, ids \ {to})
    <2>1. \E k \in DOMAIN messages : IsOpen(history, messages, k, ids)
      BY <1>9 DEF OpenAreLast, messages
    <2>2. \A k \in DOMAIN messages :
             /\ OnlyItsOwn(history, messages, k)
             /\ \A id \in Called : Waiting(history, messages, k, id) => IsOpen(history, messages, k, ids)
      BY <1>9 DEF OpenAreLast, messages
    <2>3. /\ Directly(more, now)
          /\ \E k \in DOMAIN now : IsOpen(more, now, k, ids \ {to})
          /\ \A k \in DOMAIN now :
                /\ OnlyItsOwn(more, now, k)
                /\ \A id \in Called :
                      Waiting(more, now, k, id) => IsOpen(more, now, k, ids \ {to})
      <3>1. /\ IsAnswer(now[Len(messages) + 1]) /\ ~IsCaller(more, now[Len(messages) + 1])
            /\ \A id \in Called : Answers(more, now[Len(messages) + 1], id) <=> id = to
        BY <1>5, <1>7
      <3> QED
        BY <3>1, <2>1, <2>2, <1>0, <1>1, <1>4, <1>7, <1>9, AnswerComes
    <2> QED
      BY <2>3, <1>d DEF OpenAreLast, now
  <1> QED
    BY <1>3, <1>8, <1>9, <1>d DEF Holds, messages, now, more, to

\* The pending calls and reasoning get an item more.
LEMMA PendingRead ==
  ASSUME NEW history \in Seq(ItemKinds), NEW item \in ItemKinds, NEW c, Holds(history, c),
         NEW d \in ConversionType, d.messages = c.messages,
         \/ /\ item.kind = "call" /\ d.calls = Append(c.calls, Len(history) + 1)
            /\ d.reasoning = c.reasoning
         \/ /\ item.kind = "reasoning" /\ d.calls = c.calls
            /\ d.reasoning = Append(c.reasoning, Len(history) + 1)
  PROVE  /\ Holds(Append(history, item), d)
         /\ Alike(history, c.messages, Append(history, item), c.messages)
         /\ Directly(history, c.messages) => Directly(Append(history, item), d.messages)
  <1> DEFINE messages == c.messages
             more == Append(history, item)
  <1>1. /\ c \in ConversionType /\ messages \in Seq(MessageType) /\ more \in Seq(ItemKinds)
        /\ Fitting(history, messages)
    BY KeptAlready, ItemAppended
  <1>2. /\ Pending(c) \in MessageType /\ Pending(c).role = "assistant" /\ Pending(c).of = c.calls
        /\ Pending(c).reasoning = c.reasoning
        /\ WithPending(c) \in Seq(MessageType) /\ Longer(messages, Pending(c), WithPending(c))
    BY <1>1, PendingIsLast
  <1>3. /\ Pending(d) \in MessageType /\ Pending(d).role = "assistant" /\ Pending(d).of = d.calls
        /\ Pending(d).reasoning = d.reasoning
        /\ WithPending(d) \in Seq(MessageType) /\ Longer(messages, Pending(d), WithPending(d))
    BY PendingIsLast
  <1>4. ItemsAreThere(more, WithPending(d))
    <2>1. \/ /\ Pending(d).of = Append(Pending(c).of, Len(history) + 1)
             /\ Pending(d).reasoning = Pending(c).reasoning
             /\ item.kind \in KindsFor(Pending(d).role)
          \/ /\ Pending(d).reasoning = Append(Pending(c).reasoning, Len(history) + 1)
             /\ Pending(d).of = Pending(c).of
             /\ item.kind = "reasoning" /\ Pending(d).role = "assistant"
      BY <1>2, <1>3 DEF KindsFor
    <2>2. ItemsAreThere(history, WithPending(c))
      BY DEF Holds
    <2> HIDE DEF messages
    <2> QED
      BY <2>1, <2>2, <1>1, <1>2, <1>3, ItemAdded
  <1>5. Alike(history, messages, more, messages)
    BY <1>1, ItemsApart
  <1>6. /\ AnswersFollow(history, messages) => AnswersFollow(more, messages)
        /\ Directly(history, messages) => Directly(more, messages)
    BY <1>1, <1>5, SameMessages
  <1> QED
    BY <1>4, <1>5, <1>6 DEF Holds

\* A call more is pending, and open.
LEMMA CallRead ==
  ASSUME NEW history \in Seq(ItemKinds), NEW item \in ItemKinds, item.kind = "call",
         NEW c, Holds(history, c), NEW d, d = [c EXCEPT !.calls = Append(@, Len(history) + 1)]
  PROVE  /\ Holds(Append(history, item), d) /\ d.calls # <<>>
         /\ Directly(history, c.messages) => Directly(Append(history, item), d.messages)
         /\ \A ids \in SUBSET Called :
               OpenAreLast(history, c, ids) /\ (c.calls = <<>> => ids = {}) =>
                  OpenAreLast(Append(history, item), d, ids \cup {item.id})
  <1> DEFINE messages == c.messages
             p == Len(history) + 1
             calls == Append(c.calls, p)
             more == Append(history, item)
  <1>1. /\ c \in ConversionType /\ messages \in Seq(MessageType) /\ c.calls \in Seq(Nat)
        /\ Fits(history, Pending(c)) /\ more \in Seq(ItemKinds)
        /\ p \in Nat /\ more[p] = item /\ \A q \in DOMAIN history : more[q] = history[q]
    BY KeptAlready, ItemAppended
  <1>2. /\ calls \in Seq(Nat) /\ Len(c.calls) + 1 \in DOMAIN calls
        /\ calls[Len(c.calls) + 1] = p
        /\ \A a \in DOMAIN c.calls : a \in DOMAIN calls /\ calls[a] = c.calls[a]
        /\ \A a \in DOMAIN calls : a \in DOMAIN c.calls \/ a = Len(c.calls) + 1
    <2> HIDE DEF p
    <2> QED
      BY <1>1, PositionAppended, SMTT(30)
  <1>3. d \in ConversionType /\ d.messages = messages /\ d.calls = calls /\ d.reasoning = c.reasoning
    <2>1. d = [c EXCEPT !.calls = calls]
      OBVIOUS
    <2> HIDE DEF calls
    <2> QED
      BY <2>1, <1>1, <1>2 DEF ConversionType
  <1>4. /\ Holds(more, d) /\ Alike(history, messages, more, messages)
        /\ Directly(history, messages) => Directly(more, messages)
    BY <1>1, <1>3, PendingRead
  <1>5. Pending(c).of = c.calls /\ Pending(d).of = calls
        /\ Message("assistant", c.calls, c.reasoning) = Pending(c)
        /\ Message("assistant", d.calls, d.reasoning) = Pending(d)
    BY <1>1, <1>3, PendingIsLast
  <1>6. calls # <<>>
    BY <1>2
  <1>7. item = CallOf(item.id) /\ \A id \in Called : item = CallOf(id) <=> id = item.id
    <2>1. item.id \in Called /\ item = [kind |-> "call", id |-> item.id]
      BY DEF ItemKinds, Speakers
    <2> QED
      BY <2>1 DEF CallOf
  <1>8. ASSUME NEW id \in Called
        PROVE  Calls(more, Pending(d), id) <=> Calls(history, Pending(c), id) \/ id = item.id
    <2>1. \A a \in DOMAIN c.calls : c.calls[a] \in DOMAIN history
      BY <1>1, <1>5 DEF Fits
    <2>2. ASSUME NEW a \in DOMAIN calls, more[calls[a]] = CallOf(id)
          PROVE  Calls(history, Pending(c), id) \/ id = item.id
      <3>1. CASE a \in DOMAIN c.calls
        <4>1. history[c.calls[a]] = CallOf(id)
          BY <2>1, <2>2, <3>1, <1>1, <1>2
        <4> QED
          BY <3>1, <4>1, <1>5 DEF Calls
      <3>2. CASE a = Len(c.calls) + 1
        BY <2>2, <3>2, <1>1, <1>2, <1>7
      <3> QED
        BY <3>1, <3>2, <1>2
    <2>3. ASSUME NEW a \in DOMAIN c.calls, history[c.calls[a]] = CallOf(id)
          PROVE  a \in DOMAIN calls /\ more[calls[a]] = CallOf(id)
      BY <2>1, <2>3, <1>1, <1>2
    <2>4. ASSUME id = item.id
          PROVE  Len(c.calls) + 1 \in DOMAIN calls /\ more[calls[Len(c.calls) + 1]] = CallOf(id)
      BY <2>4, <1>1, <1>2, <1>7
    <2> QED
      BY <2>2, <2>3, <2>4, <1>5 DEF Calls
  <1>9. ASSUME NEW ids \in SUBSET Called, OpenAreLast(history, c, ids), c.calls = <<>> => ids = {}
        PROVE  OpenAreLast(more, d, ids \cup {item.id})
    <2>1. \A id \in Called : id \in ids <=> Calls(history, Pending(c), id)
      <3>1. CASE c.calls = <<>>
        BY <1>5, <1>9, <3>1 DEF Calls
      <3>2. CASE c.calls # <<>>
        BY <1>5, <1>9, <3>2 DEF OpenAreLast
      <3> QED
        BY <3>1, <3>2
    <2>2. \A id \in Called : id \in ids \cup {item.id} <=> Calls(more, Pending(d), id)
      BY <2>1, <1>8
    <2>3. ASSUME NEW k \in DOMAIN messages
          PROVE  OnlyItsOwn(more, messages, k) /\ \A id \in Called : ~Waiting(more, messages, k, id)
      <3>1. /\ OnlyItsOwn(history, messages, k)
            /\ \A id \in Called : Waiting(history, messages, k, id) =>
                  c.calls = <<>> /\ IsOpen(history, messages, k, ids)
        BY <1>9 DEF OpenAreLast
      <3>2. \A id \in Called : ~Waiting(history, messages, k, id)
        BY <3>1, <1>9 DEF IsOpen
      <3> QED
        BY <3>1, <3>2, <1>1, <1>4, SameMessages
    <2> QED
      BY <2>2, <2>3, <1>3, <1>5, <1>6 DEF OpenAreLast
  <1> QED
    BY <1>3, <1>4, <1>6, <1>9

Reasoned(c, p) == [c EXCEPT !.reasoning = Append(@, p)]

\* Reasoning leaves what is open.
LEMMA ReasoningRead ==
  ASSUME NEW history \in Seq(ItemKinds), NEW item \in ItemKinds, item.kind = "reasoning",
         NEW c, Holds(history, c), NEW d, d = Reasoned(c, Len(history) + 1)
  PROVE  /\ Holds(Append(history, item), d) /\ d.calls = c.calls
         /\ Directly(history, c.messages) => Directly(Append(history, item), d.messages)
         /\ \A ids \in SUBSET Called :
               OpenAreLast(history, c, ids) => OpenAreLast(Append(history, item), d, ids)
  <1> DEFINE messages == c.messages
             p == Len(history) + 1
             reasons == Append(c.reasoning, p)
             more == Append(history, item)
  <1>1. /\ c \in ConversionType /\ messages \in Seq(MessageType) /\ c.reasoning \in Seq(Nat)
        /\ Fits(history, Pending(c)) /\ more \in Seq(ItemKinds)
        /\ p \in Nat /\ \A q \in DOMAIN history : more[q] = history[q]
    BY KeptAlready, ItemAppended
  <1>2. reasons \in Seq(Nat)
    <2> HIDE DEF p
    <2> QED
      BY <1>1, PositionAppended
  <1>3. d \in ConversionType /\ d.messages = messages /\ d.calls = c.calls /\ d.reasoning = reasons
    <2>1. d = [c EXCEPT !.reasoning = reasons]
      BY DEF Reasoned
    <2> HIDE DEF reasons
    <2> QED
      BY <2>1, <1>1, <1>2 DEF ConversionType
  <1>4. /\ Holds(more, d) /\ Alike(history, messages, more, messages)
        /\ Directly(history, messages) => Directly(more, messages)
    BY <1>1, <1>3, PendingRead
  <1>5. Pending(c).of = c.calls /\ Pending(d).of = c.calls
        /\ Message("assistant", c.calls, c.reasoning) = Pending(c)
        /\ Message("assistant", d.calls, d.reasoning) = Pending(d)
    BY <1>1, <1>3, PendingIsLast
  <1>6. ASSUME NEW id \in Called
        PROVE  Calls(more, Pending(d), id) <=> Calls(history, Pending(c), id)
    <2>1. \A a \in DOMAIN c.calls : more[c.calls[a]] = history[c.calls[a]]
      BY <1>1, <1>5 DEF Fits
    <2> QED
      BY <2>1, <1>5 DEF Calls
  <1>7. /\ \A k \in DOMAIN messages :
              /\ OnlyItsOwn(history, messages, k) => OnlyItsOwn(more, messages, k)
              /\ \A id \in Called :
                    Waiting(history, messages, k, id) <=> Waiting(more, messages, k, id)
              /\ \A ids : IsOpen(history, messages, k, ids) => IsOpen(more, messages, k, ids)
    BY <1>1, <1>4, SameMessages
  <1>8. ASSUME NEW ids \in SUBSET Called, OpenAreLast(history, c, ids)
        PROVE  OpenAreLast(more, d, ids)
    <2> HIDE DEF reasons, more
    <2>1. c.calls # <<>> => \A id \in Called : id \in ids <=> Calls(more, Pending(d), id)
      BY <1>5, <1>6, <1>8 DEF OpenAreLast
    <2>2. c.calls = <<>> /\ ids # {} => \E k \in DOMAIN messages : IsOpen(more, messages, k, ids)
      BY <1>7, <1>8 DEF OpenAreLast
    <2>3. ASSUME NEW k \in DOMAIN messages
          PROVE  /\ OnlyItsOwn(more, messages, k)
                 /\ \A id \in Called : Waiting(more, messages, k, id) =>
                       c.calls = <<>> /\ IsOpen(more, messages, k, ids)
      BY <1>7, <1>8 DEF OpenAreLast
    <2> QED
      BY <2>1, <2>2, <2>3, <1>3, <1>5 DEF OpenAreLast
  <1> QED
    BY <1>3, <1>4, <1>8

\* An item without content only ends the calls before it.
LEMMA ContentlessRead ==
  ASSUME NEW history \in Seq(ItemKinds), NEW item \in ItemKinds, item.kind = "contentless",
         NEW c, Holds(history, c), c.calls = <<>>
  PROVE  /\ Holds(Append(history, item), c)
         /\ Directly(history, c.messages) => Directly(Append(history, item), c.messages)
         /\ OpenAreLast(history, c, {}) => OpenAreLast(Append(history, item), c, {})
  <1> DEFINE messages == c.messages
             more == Append(history, item)
  <1>1. /\ c \in ConversionType /\ messages \in Seq(MessageType) /\ more \in Seq(ItemKinds)
        /\ Fitting(history, messages) /\ WithPending(c) \in Seq(MessageType)
    BY KeptAlready, ItemAppended, PendingIsLast
  <1>2. ItemsAreThere(more, WithPending(c))
    BY <1>1, ContentlessPassed DEF Holds
  <1>3. Alike(history, messages, more, messages)
    BY <1>1, ItemsApart
  <1>4. /\ AnswersFollow(history, messages) => AnswersFollow(more, messages)
        /\ Directly(history, messages) => Directly(more, messages)
        /\ \A k \in DOMAIN messages :
              /\ OnlyItsOwn(history, messages, k) => OnlyItsOwn(more, messages, k)
              /\ \A id \in Called :
                    Waiting(history, messages, k, id) <=> Waiting(more, messages, k, id)
    BY <1>1, <1>3, SameMessages
  <1>5. ASSUME OpenAreLast(history, c, {}) PROVE OpenAreLast(more, c, {})
    <2>1. \A k \in DOMAIN messages :
             OnlyItsOwn(history, messages, k) /\ \A id \in Called : ~Waiting(history, messages, k, id)
      BY <1>5 DEF OpenAreLast, IsOpen
    <2> QED
      BY <2>1, <1>4 DEF OpenAreLast
  <1> QED
    BY <1>2, <1>4, <1>5 DEF Holds

\* What is true of d, which has item too, if it was of c.
ItemIsRead(history, c, item, d, ids, now) ==
    /\ Holds(Append(history, item), d)
    /\ Directly(history, c.messages) /\ OpenAreLast(history, c, ids) =>
          Directly(Append(history, item), d.messages) /\ OpenAreLast(Append(history, item), d, now)

\* Reasoning was hung on a message.
LEMMA NoReasoningLeft ==
  ASSUME NEW c \in ConversionType, NEW none, none = <<>>,
         NEW d, d = [c EXCEPT !.reasoning = none]
  PROVE  /\ d \in ConversionType /\ d.messages = c.messages
         /\ d.calls = c.calls /\ d.reasoning = <<>>
  <1>1. none \in Seq(Nat)
    OBVIOUS
  <1> QED
    BY <1>1 DEF ConversionType

\* Nothing is pending of what a flush of both leaves.
LEMMA BothFlushed ==
  ASSUME NEW history \in Seq(ItemKinds), NEW c, Holds(history, c),
         NEW f, f = FlushReasoning(FlushCalls(c))
  PROVE  /\ Holds(history, f) /\ f.calls = <<>> /\ f.reasoning = <<>>
         /\ Directly(history, c.messages) => Directly(history, f.messages)
         /\ OpenAreLast(history, c, {}) => OpenAreLast(history, f, {})
  <1> DEFINE g == FlushCalls(c)
  <1>1. /\ Holds(history, g) /\ g.calls = <<>>
        /\ Directly(history, c.messages) => Directly(history, g.messages)
        /\ OpenAreLast(history, c, {}) => OpenAreLast(history, g, {})
    BY AfterFlushCalls
  <1>2. f = FlushReasoning(g)
    OBVIOUS
  <1> HIDE DEF g
  <1> QED
    BY <1>1, <1>2, AfterFlushReasoning

\* An item at position p becomes a message of this role.
Spoken(c, p, role) ==
    IF role = "assistant" THEN AppendMessage(c, p, role)
    ELSE Add(FlushReasoning(FlushCalls(c)), Message(role, <<p>>, <<>>))

\* An item that becomes a message of its own (protocol_proxy.go:266-287).
LEMMA SpokenRead ==
  ASSUME NEW history \in Seq(ItemKinds), NEW item \in ItemKinds, NEW c, Holds(history, c),
         NEW role \in {"user", "assistant", "system"}, item.kind # "call", item.kind \in KindsFor(role),
         NEW d, d = Spoken(c, Len(history) + 1, role)
  PROVE  ItemIsRead(history, c, item, d, {}, {}) /\ d.calls = <<>>
  <1> DEFINE p == Len(history) + 1
  <1>1. CASE role = "assistant"
    <2> DEFINE f == FlushCalls(c)
               reasons == f.reasoning
               m == Message("assistant", <<p>>, reasons)
    <2>1. /\ Holds(history, f) /\ f.calls = <<>>
          /\ Directly(history, c.messages) => Directly(history, f.messages)
          /\ OpenAreLast(history, c, {}) => OpenAreLast(history, f, {})
      BY AfterFlushCalls
    <2>2. f \in ConversionType /\ reasons \in Seq(Nat)
      BY <2>1, KeptAlready
    <2>3. d = [Add(f, m) EXCEPT !.reasoning = <<>>]
      BY <1>1 DEF Spoken, AppendMessage
    <2> HIDE DEF f, reasons
    <2>4. m \in MessageType /\ m.role = "assistant" /\ m.of = <<p>> /\ m.reasoning = reasons
      <3>1. "assistant" \in Speakers \cup {"tool"}
        BY DEF Speakers
      <3> QED
        BY <3>1, <2>2, MessageOfItemIsTyped
    <2> DEFINE a == Add(f, m)
    <2> HIDE DEF m
    <2>a. a \in ConversionType /\ a.messages = Append(f.messages, m) /\ a.calls = f.calls
      BY <2>2, <2>4, MessageAdded
    <2>b. d = [a EXCEPT !.reasoning = <<>>]
      BY <2>3
    <2> HIDE DEF a
    <2>c. /\ d \in ConversionType /\ d.messages = a.messages
          /\ d.calls = a.calls /\ d.reasoning = <<>>
      BY <2>a, <2>b, NoReasoningLeft
    <2>5. d \in ConversionType /\ d.messages = Append(f.messages, m)
          /\ d.calls = f.calls /\ d.reasoning = <<>>
      BY <2>a, <2>c
    <2>6. m.reasoning = f.reasoning
      BY <2>4 DEF reasons
    <2>7. /\ Holds(Append(history, item), d)
          /\ Directly(history, f.messages) => Directly(Append(history, item), d.messages)
          /\ OpenAreLast(history, f, {}) => OpenAreLast(Append(history, item), d, {})
      BY <1>1, <2>1, <2>4, <2>5, <2>6, MessageRead
    <2> QED
      BY <2>1, <2>5, <2>7 DEF ItemIsRead
  <1>2. CASE role # "assistant"
    <2> DEFINE f == FlushReasoning(FlushCalls(c))
               none == <<>>
               m == Message(role, <<p>>, none)
    <2>1. /\ Holds(history, f) /\ f.calls = <<>> /\ f.reasoning = none
          /\ Directly(history, c.messages) => Directly(history, f.messages)
          /\ OpenAreLast(history, c, {}) => OpenAreLast(history, f, {})
      BY BothFlushed
    <2>2. f \in ConversionType /\ none \in Seq(Nat)
      BY <2>1, KeptAlready
    <2>3. d = Add(f, m)
      BY <1>2 DEF Spoken
    <2>n. none = <<>>
      OBVIOUS
    <2>r. role \in Speakers \cup {"tool"}
      BY DEF Speakers
    <2> HIDE DEF f, none
    <2>m. m = Message(role, <<Len(history) + 1>>, none)
      OBVIOUS
    <2> HIDE DEF m
    <2>4. m \in MessageType /\ m.role = role /\ m.of = <<p>> /\ m.reasoning = none
      BY <2>2, <2>r, <2>m, MessageOfItemIsTyped
    <2>5. d \in ConversionType /\ d.messages = Append(f.messages, m)
          /\ d.calls = f.calls /\ d.reasoning = f.reasoning
      BY <2>2, <2>3, <2>4, MessageAdded
    <2>6. /\ Holds(Append(history, item), d)
          /\ Directly(history, f.messages) => Directly(Append(history, item), d.messages)
          /\ OpenAreLast(history, f, {}) => OpenAreLast(Append(history, item), d, {})
      <3>1. /\ m.reasoning = f.reasoning /\ m.role # "tool" /\ m.role # "assistant" /\ f.reasoning = <<>>
            /\ item.kind \in KindsFor(m.role) /\ d.calls = <<>> /\ d.reasoning = <<>>
        BY <1>2, <2>1, <2>n, <2>4, <2>5
      <3> QED
        BY <2>1, <2>4, <2>5, <3>1, MessageRead
    <2> QED
      BY <2>1, <2>5, <2>6 DEF ItemIsRead
  <1> QED
    BY <1>1, <1>2

\* An output, of a call the history holds or not.
LEMMA OutputRead ==
  ASSUME NEW history \in Seq(ItemKinds), NEW item \in ItemKinds, item.kind = "output",
         NEW c, Holds(history, c),
         item.id \in seenCallIDs => \E p \in DOMAIN history : history[p] = CallOf(item.id),
         NEW d, d = AppendOutput(c, Len(history) + 1, item.id)
  PROVE  /\ Holds(Append(history, item), d) /\ d.calls = <<>>
         /\ item.id \in seenCallIDs =>
               \A ids \in SUBSET Called :
                  item.id \in ids => ItemIsRead(history, c, item, d, ids, ids \ {item.id})
  <1>1. CASE item.id \in seenCallIDs
    <2> DEFINE f == FlushCalls(c)
    <2>1. /\ Holds(history, f) /\ f.calls = <<>>
          /\ Directly(history, c.messages) => Directly(history, f.messages)
          /\ \A ids \in SUBSET Called : OpenAreLast(history, c, ids) => OpenAreLast(history, f, ids)
      BY AfterFlushCalls
    <2>2. d = Add(f, Message("tool", <<Len(history) + 1>>, <<>>))
      BY <1>1 DEF AppendOutput
    <2> HIDE DEF f
    <2>3. /\ Holds(Append(history, item), d) /\ d.calls = <<>>
          /\ \A ids \in SUBSET Called :
                item.id \in ids /\ Directly(history, f.messages) /\ OpenAreLast(history, f, ids) =>
                   /\ Directly(Append(history, item), d.messages)
                   /\ OpenAreLast(Append(history, item), d, ids \ {item.id})
      BY <1>1, <2>1, <2>2, AnswerRead
    <2> QED
      BY <2>1, <2>3 DEF ItemIsRead
  <1>2. CASE item.id \notin seenCallIDs
    <2>1. d = Add(FlushReasoning(FlushCalls(c)), Message("user", <<Len(history) + 1>>, <<>>))
      BY <1>2 DEF AppendOutput
    <2>2. item.kind \in KindsFor("user") /\ item.kind # "call"
      BY DEF KindsFor
    <2>3. d = Spoken(c, Len(history) + 1, "user")
      BY <2>1 DEF Spoken
    <2>4. ItemIsRead(history, c, item, d, {}, {}) /\ d.calls = <<>>
      BY <2>2, <2>3, SpokenRead
    <2> QED
      BY <1>2, <2>4 DEF ItemIsRead
  <1> QED
    BY <1>1, <1>2

\* What holds while history are read.
SoFar(history, c, ids, answered) ==
    /\ Directly(history, c.messages) /\ OpenAreLast(history, c, ids)
    /\ IF c.calls = <<>> THEN answered \/ ids = {} ELSE ~answered

\* The invariant while the history is read,
LEMMA ReadingIs ==
  ASSUME InputIInv, stage = "reading"
  PROVE  /\ input \in Seq(ItemKinds) /\ Holds(input, conversion) /\ SeenAreCalls
         /\ seenCallIDs \subseteq Called /\ open \subseteq seenCallIDs
         /\ answering \in BOOLEAN /\ paired \in BOOLEAN
         /\ paired => SoFar(input, conversion, open, answering)
         /\ index = 1 /\ systems = <<>> /\ others = <<>> /\ result = <<>>
  BY DEF InputIInv, InputTypeOK, Reading, Holds, SoFar

\* and what is enough for it.
LEMMA IsReading ==
  ASSUME stage' = "reading", UNCHANGED <<index, systems, others, result>>,
         InputIInv, stage = "reading",
         input' \in Seq(ItemKinds), Holds(input', conversion'), SeenAreCalls',
         seenCallIDs' \subseteq Called, open' \subseteq seenCallIDs',
         answering' \in BOOLEAN, paired' \in BOOLEAN,
         paired' => SoFar(input', conversion', open', answering')
  PROVE  InputIInv'
  <1>1. /\ InputTypeOK' /\ Reading'
    BY DEF InputIInv, InputTypeOK, Reading, Holds, SoFar
  <1>2. IsRead'
    BY DEF IsRead
  <1> QED
    BY <1>1, <1>2 DEF InputIInv

\* seenCallIDs are the ids of the calls read.
LEMMA SeenRead ==
  ASSUME SeenAreCalls, input \in Seq(ItemKinds), NEW item \in ItemKinds,
         input' = Append(input, item),
         seenCallIDs' = seenCallIDs \cup (IF item.kind = "call" THEN {item.id} ELSE {})
  PROVE  SeenAreCalls'
  <1>1. /\ \A q \in DOMAIN input : q \in DOMAIN input' /\ input'[q] = input[q]
        /\ Len(input) + 1 \in DOMAIN input' /\ input'[Len(input) + 1] = item
        /\ \A q \in DOMAIN input' : q \in DOMAIN input \/ q = Len(input) + 1
    BY ItemAppended
  <1>2. \A id \in Called : item = CallOf(id) <=> item.kind = "call" /\ item.id = id
    <2>1. ASSUME item.kind = "call" PROVE item = [kind |-> "call", id |-> item.id]
      BY <2>1 DEF ItemKinds, Speakers
    <2> QED
      BY <2>1 DEF CallOf
  <1>3. ASSUME NEW id \in Called
        PROVE  id \in seenCallIDs' <=> \E p \in DOMAIN input' : input'[p] = CallOf(id)
    <2>1. id \in seenCallIDs <=> \E p \in DOMAIN input : input[p] = CallOf(id)
      BY DEF SeenAreCalls
    <2>2. id \in seenCallIDs' <=> id \in seenCallIDs \/ item = CallOf(id)
      BY <1>2
    <2> QED
      BY <1>1, <2>1, <2>2
  <1> QED
    BY <1>3 DEF SeenAreCalls

\* Only calls and outputs have an id.
LEMMA KindOfItem ==
  ASSUME NEW item \in ItemKinds
  PROVE  /\ item.kind \in {"call", "output", "user", "assistant", "system", "reasoning", "contentless"}
         /\ item.kind \in {"call", "output"} => item.id \in Called
  BY DEF ItemKinds, Speakers

\* Each kind of item.
LEMMA ReadCall ==
  ASSUME InputIInv, NEW item \in ItemKinds, ReadItem(item), item.kind = "call"
  PROVE  InputIInv'
  <1>1. /\ input \in Seq(ItemKinds) /\ Holds(input, conversion) /\ SeenAreCalls
        /\ seenCallIDs \subseteq Called /\ open \subseteq seenCallIDs
        /\ paired => SoFar(input, conversion, open, answering)
    BY ReadingIs DEF ReadItem
  <1>2. item.id \in Called
    BY KindOfItem
  <1>3. /\ stage = "reading" /\ stage' = "reading" /\ UNCHANGED <<index, systems, others, result>>
        /\ input' = Append(input, item) /\ seenCallIDs' = seenCallIDs \cup {item.id}
        /\ seenCallIDs' = seenCallIDs \cup (IF item.kind = "call" THEN {item.id} ELSE {})
        /\ paired' = (paired /\ item.id \notin seenCallIDs /\ (answering => open = {}))
        /\ open' = open \cup {item.id} /\ answering' = FALSE
    BY DEF ReadItem, collapse
  <1>4. conversion' = [conversion EXCEPT !.calls = Append(@, Len(input) + 1)]
    BY DEF ReadItem, AppendItem
  <1>5. /\ Holds(input', conversion') /\ conversion'.calls # <<>>
        /\ Directly(input, conversion.messages) => Directly(input', conversion'.messages)
        /\ OpenAreLast(input, conversion, open) /\ (conversion.calls = <<>> => open = {}) =>
              OpenAreLast(input', conversion', open')
    BY <1>1, <1>2, <1>3, <1>4, CallRead
  <1>6. paired' => SoFar(input', conversion', open', answering')
    BY <1>1, <1>3, <1>5 DEF SoFar
  <1>7. SeenAreCalls'
    BY <1>1, <1>3, SeenRead
  <1>8. input' \in Seq(ItemKinds)
    BY <1>1, <1>3, ItemAppended
  <1> QED
    BY <1>1, <1>2, <1>3, <1>5, <1>6, <1>7, <1>8, IsReading

\* The output of a call (appendOutput, protocol_proxy.go:207-218).
LEMMA ReadOutput ==
  ASSUME InputIInv, NEW item \in ItemKinds, ReadItem(item), item.kind = "output"
  PROVE  InputIInv'
  <1>1. /\ input \in Seq(ItemKinds) /\ Holds(input, conversion) /\ SeenAreCalls
        /\ seenCallIDs \subseteq Called /\ open \subseteq seenCallIDs
        /\ paired => SoFar(input, conversion, open, answering)
    BY ReadingIs DEF ReadItem
  <1>2. item.id \in Called
    BY KindOfItem
  <1>3. /\ stage = "reading" /\ stage' = "reading" /\ UNCHANGED <<index, systems, others, result>>
        /\ input' = Append(input, item) /\ seenCallIDs' = seenCallIDs
        /\ seenCallIDs' = seenCallIDs \cup (IF item.kind = "call" THEN {item.id} ELSE {})
        /\ paired' = (paired /\ item.id \in open)
        /\ open' = open \ {item.id} /\ answering' = TRUE
    BY DEF ReadItem, collapse
  <1>4. conversion' = AppendOutput(conversion, Len(input) + 1, item.id)
    BY DEF ReadItem, AppendItem
  <1>5. item.id \in seenCallIDs => \E p \in DOMAIN input : input[p] = CallOf(item.id)
    BY <1>1, <1>2 DEF SeenAreCalls
  <1>6. /\ Holds(input', conversion') /\ conversion'.calls = <<>>
        /\ item.id \in open => ItemIsRead(input, conversion, item, conversion', open, open')
    BY <1>1, <1>2, <1>3, <1>4, <1>5, OutputRead
  <1>7. paired' => SoFar(input', conversion', open', answering')
    BY <1>1, <1>3, <1>6 DEF SoFar, ItemIsRead
  <1>8. SeenAreCalls'
    BY <1>1, <1>3, SeenRead
  <1>9. input' \in Seq(ItemKinds)
    BY <1>1, <1>3, ItemAppended
  <1> QED
    BY <1>1, <1>2, <1>3, <1>6, <1>7, <1>8, <1>9, IsReading

\* Reasoning is only kept, so the calls and answers are as before.
LEMMA ReadReasoning ==
  ASSUME InputIInv, NEW item \in ItemKinds, ReadItem(item), item.kind = "reasoning"
  PROVE  InputIInv'
  <1>1. /\ input \in Seq(ItemKinds) /\ Holds(input, conversion) /\ SeenAreCalls
        /\ seenCallIDs \subseteq Called /\ open \subseteq seenCallIDs
        /\ answering \in BOOLEAN /\ paired \in BOOLEAN
        /\ paired => SoFar(input, conversion, open, answering)
    BY ReadingIs DEF ReadItem
  <1>3. /\ stage = "reading" /\ stage' = "reading" /\ UNCHANGED <<index, systems, others, result>>
        /\ input' = Append(input, item) /\ seenCallIDs' = seenCallIDs
        /\ seenCallIDs' = seenCallIDs \cup (IF item.kind = "call" THEN {item.id} ELSE {})
        /\ paired' = paired /\ open' = open /\ answering' = answering
    BY DEF ReadItem, collapse, pairing
  <1>4. conversion' = Reasoned(conversion, Len(input) + 1)
    BY DEF ReadItem, AppendItem, Reasoned
  <1>5. /\ Holds(input', conversion') /\ conversion'.calls = conversion.calls
        /\ Directly(input, conversion.messages) => Directly(input', conversion'.messages)
        /\ OpenAreLast(input, conversion, open) => OpenAreLast(input', conversion', open')
    <2>1. open \in SUBSET Called
      BY <1>1
    <2>2. /\ Holds(Append(input, item), conversion') /\ conversion'.calls = conversion.calls
          /\ Directly(input, conversion.messages) =>
                Directly(Append(input, item), conversion'.messages)
          /\ \A ids \in SUBSET Called :
                OpenAreLast(input, conversion, ids) =>
                   OpenAreLast(Append(input, item), conversion', ids)
      BY <1>1, <1>4, ReasoningRead
    <2> QED
      BY <2>1, <2>2, <1>3
  <1>6. paired' => SoFar(input', conversion', open', answering')
    BY <1>1, <1>3, <1>5 DEF SoFar
  <1>7. SeenAreCalls'
    BY <1>1, <1>3, SeenRead
  <1>8. input' \in Seq(ItemKinds)
    BY <1>1, <1>3, ItemAppended
  <1> QED
    BY <1>1, <1>3, <1>5, <1>6, <1>7, <1>8, IsReading

\* A message, or an item without content, ends a run of calls.
LEMMA ReadOther ==
  ASSUME InputIInv, NEW item \in ItemKinds, ReadItem(item),
         item.kind \in {"user", "assistant", "system", "contentless"}
  PROVE  InputIInv'
  <1>1. /\ input \in Seq(ItemKinds) /\ Holds(input, conversion) /\ SeenAreCalls
        /\ seenCallIDs \subseteq Called /\ open \subseteq seenCallIDs
        /\ answering \in BOOLEAN /\ paired \in BOOLEAN
        /\ paired => SoFar(input, conversion, open, answering)
    BY ReadingIs DEF ReadItem
  <1>3. /\ stage = "reading" /\ stage' = "reading" /\ UNCHANGED <<index, systems, others, result>>
        /\ input' = Append(input, item) /\ seenCallIDs' = seenCallIDs
        /\ seenCallIDs' = seenCallIDs \cup (IF item.kind = "call" THEN {item.id} ELSE {})
        /\ paired' = (paired /\ open = {}) /\ open' = open /\ answering' = answering
    BY DEF ReadItem, collapse
  <1>4. ItemIsRead(input, conversion, item, conversion', {}, {}) /\ conversion'.calls = <<>>
    <2>1. CASE item.kind = "contentless"
      <3>1. conversion' = FlushCalls(conversion)
        BY <2>1 DEF ReadItem, AppendItem
      <3>2. /\ Holds(input, conversion') /\ conversion'.calls = <<>>
            /\ Directly(input, conversion.messages) => Directly(input, conversion'.messages)
            /\ OpenAreLast(input, conversion, {}) => OpenAreLast(input, conversion', {})
        BY <1>1, <3>1, AfterFlushCalls
      <3>3. /\ Holds(Append(input, item), conversion')
            /\ Directly(input, conversion'.messages) =>
                  Directly(Append(input, item), conversion'.messages)
            /\ OpenAreLast(input, conversion', {}) =>
                  OpenAreLast(Append(input, item), conversion', {})
        BY <2>1, <1>1, <3>2, ContentlessRead
      <3> QED
        BY <3>2, <3>3 DEF ItemIsRead
    <2>2. CASE item.kind # "contentless"
      <3>1. conversion' = AppendMessage(conversion, Len(input) + 1, item.kind)
        BY <2>2 DEF ReadItem, AppendItem
      <3>2. conversion' = Spoken(conversion, Len(input) + 1, item.kind)
        BY <3>1 DEF Spoken, AppendMessage
      <3>3. item.kind \in {"user", "assistant", "system"} /\ item.kind # "call"
            /\ item.kind \in KindsFor(item.kind)
        BY <2>2 DEF KindsFor
      <3> QED
        BY <1>1, <3>2, <3>3, SpokenRead
    <2> QED
      BY <2>1, <2>2
  <1>5. Holds(input', conversion')
    BY <1>3, <1>4 DEF ItemIsRead
  <1>6. paired' => SoFar(input', conversion', open', answering')
    BY <1>1, <1>3, <1>4 DEF SoFar, ItemIsRead
  <1>7. SeenAreCalls'
    BY <1>1, <1>3, SeenRead
  <1>8. input' \in Seq(ItemKinds)
    BY <1>1, <1>3, ItemAppended
  <1> QED
    BY <1>1, <1>3, <1>5, <1>6, <1>7, <1>8, IsReading

\* An empty last message can go.
LEMMA EmptyTaken ==
  ASSUME NEW history \in Seq(ItemKinds), NEW messages \in Seq(MessageType),
         NEW m \in MessageType, NEW longer \in Seq(MessageType), Longer(messages, m, longer),
         m.of = <<>>, m.reasoning = <<>>, ItemsAreThere(history, longer)
  PROVE  ItemsAreThere(history, messages)
  <1> DEFINE n == Len(messages)
  <1>0. /\ n \in Nat /\ DOMAIN messages = 1 .. n /\ DOMAIN longer = 1 .. n + 1
        /\ \A k \in 1 .. n : longer[k] = messages[k]
        /\ longer[n + 1] = m /\ DOMAIN m.of = {} /\ DOMAIN m.reasoning = {}
    BY EachIsTyped DEF Longer
  <1> HIDE DEF n
  <1>1. ASSUME NEW p \in DOMAIN history, history[p].kind # "contentless"
        PROVE  \E k \in DOMAIN messages : Has(messages[k], p)
    <2>1. PICK k \in DOMAIN longer : Has(longer[k], p)
      BY <1>1 DEF ItemsAreThere
    <2>2. k # n + 1
      BY <2>1, <1>0 DEF Has
    <2>3. k \in DOMAIN messages /\ Has(messages[k], p)
      BY <2>1, <2>2, <1>0
    <2> QED
      BY <2>3
  <1>2. /\ \A k \in DOMAIN messages : Fits(history, messages[k])
        /\ \A k \in DOMAIN messages :
              IsSystem(messages[k]) \/ IsAnswer(messages[k]) => Len(messages[k].of) = 1
        /\ \A j, k \in DOMAIN messages : InOrder(messages, j, k)
    BY WithoutPending DEF Fitting
  <1> QED
    BY <1>1, <1>2 DEF ItemsAreThere

\* The function that says which message each of others is.
IsFrom(from, messages, to, rest) ==
    /\ from \in [DOMAIN rest -> 1 .. to - 1]
    /\ \A i \in DOMAIN rest : ~IsSystem(rest[i]) /\ rest[i] = messages[from[i]]
    /\ \A i, j \in DOMAIN rest : i < j => from[i] < from[j]
    /\ \A k \in 1 .. to - 1 : IsSystem(messages[k]) \/ \E i \in DOMAIN rest : from[i] = k

\* The messages before a position, taken apart.
TakenApart(messages, to, spoken, rest) ==
    /\ to <= Len(messages) + 1
    /\ \A k \in 1 .. to - 1 : IsSystem(messages[k]) =>
          \E a \in DOMAIN spoken : spoken[a] = messages[k].of[1]
    /\ \A a \in DOMAIN spoken : \E k \in 1 .. to - 1 :
          IsSystem(messages[k]) /\ spoken[a] = messages[k].of[1]
    /\ \A a, b \in DOMAIN spoken : a < b => spoken[a] < spoken[b]
    /\ \E from : IsFrom(from, messages, to, rest)

\* IsSplit in the terms of the lemmas below.
LEMMA SplitIs ==
  /\ IsSplit <=> TakenApart(conversion.messages, index, systems, others)
  /\ IsSplit' <=> TakenApart(conversion'.messages, index', systems', others')
  BY DEF IsSplit, TakenApart, IsFrom

\* At the end of the history everything pending is flushed.
LEMMA AllReadKeeps ==
  ASSUME InputIInv, AllRead
  PROVE  InputIInv'
  <1> DEFINE c == conversion
             d == conversion'
  <1>1. /\ input \in Seq(ItemKinds) /\ Holds(input, c) /\ SeenAreCalls
        /\ seenCallIDs \subseteq Called /\ open \subseteq seenCallIDs
        /\ answering \in BOOLEAN /\ paired \in BOOLEAN
        /\ paired => SoFar(input, c, open, answering)
        /\ index = 1 /\ systems = <<>> /\ others = <<>> /\ result = <<>>
    BY ReadingIs DEF AllRead
  <1>2. /\ stage' = "collapsing" /\ d = FlushReasoning(FlushCalls(c))
        /\ input' = input /\ seenCallIDs' = seenCallIDs
        /\ index' = index /\ systems' = systems /\ others' = others /\ result' = result
        /\ open' = open /\ answering' = answering /\ paired' = paired
    BY DEF AllRead, collapse, pairing
  <1> HIDE DEF c
  <1>3. /\ Holds(input, d) /\ d.calls = <<>> /\ d.reasoning = <<>>
        /\ Directly(input, c.messages) => Directly(input, d.messages)
        /\ OpenAreLast(input, c, {}) => OpenAreLast(input, d, {})
    BY <1>1, <1>2, BothFlushed
  <1> HIDE DEF d
  <1>4. d \in ConversionType /\ d.messages \in Seq(MessageType)
    BY <1>1, <1>3, KeptAlready
  <1>5. ItemsAreThere(input, d.messages)
    <2>1. /\ Pending(d) \in MessageType /\ Pending(d).of = <<>> /\ Pending(d).reasoning = <<>>
          /\ WithPending(d) \in Seq(MessageType) /\ Longer(d.messages, Pending(d), WithPending(d))
      BY <1>3, <1>4, PendingIsLast
    <2> QED
      BY <2>1, <1>1, <1>3, <1>4, EmptyTaken DEF Holds
  <1>6. AnswersFollow(input, d.messages)
    BY <1>3 DEF Holds
  <1>7. paired => Directly(input, d.messages)
    BY <1>1, <1>3 DEF SoFar
  <1>8. paired /\ open = {} =>
           \A k \in DOMAIN d.messages :
              OnlyItsOwn(input, d.messages, k)
              /\ \A id \in Called : ~Waiting(input, d.messages, k, id)
    <2> SUFFICES ASSUME paired, open = {}
                 PROVE  \A k \in DOMAIN d.messages :
                           OnlyItsOwn(input, d.messages, k)
                           /\ \A id \in Called : ~Waiting(input, d.messages, k, id)
      OBVIOUS
    <2>1. OpenAreLast(input, d, {})
      BY <1>1, <1>3 DEF SoFar
    <2> QED
      BY <2>1 DEF OpenAreLast, IsOpen
  <1>9. IsRead'
    BY <1>2, <1>5, <1>6, <1>7, <1>8 DEF IsRead, d
  <1>10. InputTypeOK'
    <2>1. conversion' \in ConversionType
      BY <1>4 DEF d
    <2>2. /\ index' \in Nat \ {0} /\ systems' \in Seq(Nat)
          /\ others' \in Seq(MessageType) /\ result' \in Seq(MessageType)
      BY <1>2 DEF InputIInv, InputTypeOK
    <2>3. stage' \in {"reading", "collapsing", "converted"}
      BY <1>2
    <2> QED
      BY <2>1, <2>2, <2>3, <1>1, <1>2 DEF InputTypeOK
  <1>11. SeenAreCalls' /\ Reading'
    BY <1>1, <1>2 DEF SeenAreCalls, Reading
  <1>12. IsSplit'
    <2>1. /\ index' = 1 /\ 1 .. index' - 1 = {} /\ DOMAIN systems' = {} /\ DOMAIN others' = {}
          /\ Len(conversion'.messages) \in Nat
      BY <1>1, <1>2, <1>4 DEF d
    <2>2. IsFrom([i \in DOMAIN others' |-> 0], conversion'.messages, index', others')
      BY <2>1 DEF IsFrom
    <2> QED
      BY <2>1, <2>2, SplitIs DEF TakenApart
  <1>13. result' = <<>> /\ stage' # "reading" /\ stage' # "converted"
    BY <1>1, <1>2
  <1> QED
    BY <1>9, <1>10, <1>11, <1>12, <1>13 DEF InputIInv

\* One message more is taken apart; the others keep their order.
LEMMA OneMoreFrom ==
  ASSUME NEW messages \in Seq(MessageType), NEW to \in 1 .. Len(messages), NEW rest \in Seq(MessageType),
         NEW from, IsFrom(from, messages, to, rest)
  PROVE  /\ IsSystem(messages[to]) => \E more : IsFrom(more, messages, to + 1, rest)
         /\ ~IsSystem(messages[to]) =>
               \E more : IsFrom(more, messages, to + 1, Append(rest, messages[to]))
  <1>0. /\ Len(messages) \in Nat /\ to \in Nat /\ to >= 1 /\ messages[to] \in MessageType
        /\ 1 .. (to + 1) - 1 = 1 .. to /\ \A k \in 1 .. to : k \in 1 .. to - 1 \/ k = to
        /\ 1 .. to - 1 \subseteq 1 .. to
    BY EachIsTyped
  <1>1. CASE IsSystem(messages[to])
    <2>1. IsFrom(from, messages, to + 1, rest)
      BY <1>0, <1>1 DEF IsFrom
    <2> QED
      BY <1>1, <2>1
  <1>2. CASE ~IsSystem(messages[to])
    <2> DEFINE n == Len(rest)
               longer == Append(rest, messages[to])
               more == [i \in 1 .. n + 1 |-> IF i = n + 1 THEN to ELSE from[i]]
    <2>1. /\ n \in Nat /\ DOMAIN rest = 1 .. n /\ DOMAIN longer = 1 .. n + 1
          /\ \A i \in 1 .. n : longer[i] = rest[i] /\ i # n + 1 /\ i \in 1 .. n + 1
          /\ longer[n + 1] = messages[to]
      BY <1>0
    <2> HIDE DEF n, longer
    <2>2. /\ \A i \in DOMAIN rest : more[i] = from[i]
          /\ more[n + 1] = to /\ n + 1 \in DOMAIN longer
          /\ \A i \in DOMAIN longer : i \in DOMAIN rest \/ i = n + 1
          /\ DOMAIN rest \subseteq DOMAIN longer
      BY <2>1
    <2>3. \A i \in DOMAIN rest : from[i] \in 1 .. to - 1 /\ from[i] < to
      BY <1>0 DEF IsFrom
    <2>4. more \in [DOMAIN longer -> 1 .. (to + 1) - 1]
      BY <1>0, <2>1, <2>3
    <2> HIDE DEF more
    <2>5. \A i \in DOMAIN longer : ~IsSystem(longer[i]) /\ longer[i] = messages[more[i]]
      BY <1>2, <2>1, <2>2 DEF IsFrom
    <2>6. ASSUME NEW i \in DOMAIN longer, NEW j \in DOMAIN longer, i < j
          PROVE  more[i] < more[j]
      <3>1. i \in DOMAIN rest
        BY <2>6, <2>1
      <3> QED
        BY <3>1, <2>2, <2>3, <2>6 DEF IsFrom
    <2>7. ASSUME NEW k \in 1 .. (to + 1) - 1
          PROVE  IsSystem(messages[k]) \/ \E i \in DOMAIN longer : more[i] = k
      <3>1. CASE k = to
        BY <3>1, <2>2
      <3>2. CASE k \in 1 .. to - 1
        BY <3>2, <2>2 DEF IsFrom
      <3> QED
        BY <3>1, <3>2, <1>0
    <2>8. IsFrom(more, messages, to + 1, longer)
      BY <2>4, <2>5, <2>6, <2>7 DEF IsFrom
    <2> QED
      BY <1>2, <2>8 DEF longer
  <1> QED
    BY <1>1, <1>2

\* A system message is made of one item and has no reasoning.
LEMMA SystemHasOne ==
  ASSUME NEW history, NEW messages \in Seq(MessageType), ItemsAreThere(history, messages),
         NEW k \in DOMAIN messages, IsSystem(messages[k])
  PROVE  /\ DOMAIN messages[k].of = {1} /\ messages[k].of[1] \in Nat
         /\ DOMAIN messages[k].reasoning = {}
  <1>1. messages[k] \in MessageType /\ Len(messages[k].of) = 1
    BY EachIsTyped DEF ItemsAreThere
  <1>2. DOMAIN messages[k].of = {1} /\ messages[k].of[1] \in Nat
    BY <1>1, MessageFields
  <1>3. DOMAIN messages[k].reasoning = {}
    BY DEF ItemsAreThere, Fits, IsSystem
  <1> QED
    BY <1>2, <1>3

\* The invariant once the history is read.
LEMMA CollapsingIs ==
  ASSUME InputIInv, stage # "reading"
  PROVE  /\ input \in Seq(ItemKinds)
         /\ conversion.messages \in Seq(MessageType) /\ systems \in Seq(Nat)
         /\ others \in Seq(MessageType) /\ index \in Nat \ {0}
         /\ ItemsAreThere(input, conversion.messages)
         /\ TakenApart(conversion.messages, index, systems, others)
  <1>1. conversion.messages \in Seq(MessageType)
    BY Fields DEF InputIInv, InputTypeOK
  <1>2. TakenApart(conversion.messages, index, systems, others)
    BY SplitIs DEF InputIInv
  <1> QED
    BY <1>1, <1>2 DEF InputIInv, InputTypeOK, IsRead

\* One message is collapsed (collapseSystemMessages, protocol_proxy.go:331-340).
LEMMA CollapseKeeps ==
  ASSUME InputIInv, Collapse
  PROVE  InputIInv'
  <1> DEFINE messages == conversion.messages
             m == messages[index]
  <1>1. /\ stage = "collapsing" /\ index <= Len(messages) /\ stage' = stage /\ index' = index + 1
        /\ conversion' = conversion /\ input' = input /\ seenCallIDs' = seenCallIDs
        /\ result' = result /\ open' = open /\ answering' = answering /\ paired' = paired
        /\ IsSystem(m) => systems' = Append(systems, m.of[1]) /\ others' = others
        /\ ~IsSystem(m) => others' = Append(others, m) /\ systems' = systems
    BY DEF Collapse, pairing
  <1>2. /\ input \in Seq(ItemKinds)
        /\ messages \in Seq(MessageType) /\ systems \in Seq(Nat)
        /\ others \in Seq(MessageType) /\ index \in Nat \ {0}
        /\ ItemsAreThere(input, messages)
        /\ TakenApart(messages, index, systems, others)
    BY <1>1, CollapsingIs
  <1> HIDE DEF messages
  <1>3. /\ index \in DOMAIN messages /\ m \in MessageType /\ index \in 1 .. Len(messages)
        /\ Len(messages) \in Nat
        /\ 1 .. (index + 1) - 1 = 1 .. index
        /\ \A k \in 1 .. index : k \in 1 .. index - 1 \/ k = index
        /\ 1 .. index - 1 \subseteq 1 .. index /\ 1 .. index \subseteq DOMAIN messages
    BY <1>1, <1>2, EachIsTyped
  <1>4. PICK from : IsFrom(from, messages, index, others)
    BY <1>2 DEF TakenApart
  <1>5. \E more : IsFrom(more, messages, index + 1, others')
    BY <1>1, <1>2, <1>3, <1>4, OneMoreFrom, ZenonT(60)
  <1>6. /\ systems' \in Seq(Nat) /\ others' \in Seq(MessageType)
        /\ \A k \in 1 .. index : IsSystem(messages[k]) =>
              \E a \in DOMAIN systems' : systems'[a] = messages[k].of[1]
        /\ \A a \in DOMAIN systems' : \E k \in 1 .. index :
              IsSystem(messages[k]) /\ systems'[a] = messages[k].of[1]
        /\ \A a, b \in DOMAIN systems' : a < b => systems'[a] < systems'[b]
    <2>1. CASE IsSystem(m)
      <3> DEFINE n == Len(systems)
                 p == m.of[1]
      <3>1. p \in Nat
        BY <2>1, <1>2, <1>3, SystemHasOne
      <3>2. /\ systems' = Append(systems, p) /\ others' = others
        BY <2>1, <1>1
      <3> HIDE DEF p
      <3>3. /\ n \in Nat /\ DOMAIN systems = 1 .. n /\ DOMAIN systems' = 1 .. n + 1
            /\ \A a \in 1 .. n : systems'[a] = systems[a]
            /\ systems'[n + 1] = p /\ systems' \in Seq(Nat)
        BY <3>1, <3>2, <1>2
      <3> HIDE DEF n
      <3>4. ASSUME NEW k \in 1 .. index, IsSystem(messages[k])
            PROVE  \E a \in DOMAIN systems' : systems'[a] = messages[k].of[1]
        <4>1. CASE k = index
          <5>1. n + 1 \in DOMAIN systems' /\ systems'[n + 1] = messages[k].of[1]
            BY <4>1, <3>3 DEF p
          <5> QED
            BY <5>1
        <4>2. CASE k \in 1 .. index - 1
          <5>1. PICK a \in DOMAIN systems : systems[a] = messages[k].of[1]
            BY <4>2, <3>4, <1>2 DEF TakenApart
          <5>2. a \in DOMAIN systems' /\ systems'[a] = messages[k].of[1]
            BY <5>1, <3>3
          <5> QED
            BY <5>2
        <4> QED
          BY <4>1, <4>2, <1>3
      <3>5. ASSUME NEW a \in DOMAIN systems'
            PROVE  \E k \in 1 .. index : IsSystem(messages[k]) /\ systems'[a] = messages[k].of[1]
        <4>1. CASE a = n + 1
          <5>1. index \in 1 .. index /\ systems'[a] = messages[index].of[1]
            BY <4>1, <3>3, <1>2 DEF p
          <5> QED
            BY <5>1, <2>1
        <4>2. CASE a \in 1 .. n
          <5>1. PICK k \in 1 .. index - 1 : IsSystem(messages[k]) /\ systems[a] = messages[k].of[1]
            BY <4>2, <3>3, <1>2 DEF TakenApart
          <5> QED
            BY <5>1, <4>2, <3>3, <1>3
        <4> QED
          BY <4>1, <4>2, <3>3
      <3>6. ASSUME NEW a \in DOMAIN systems', NEW b \in DOMAIN systems', a < b
            PROVE  systems'[a] < systems'[b]
        <4>1. a \in 1 .. n
          BY <3>3, <3>6
        <4>2. CASE b = n + 1
          <5>1. PICK k \in 1 .. index - 1 : IsSystem(messages[k]) /\ systems[a] = messages[k].of[1]
            BY <4>1, <3>3, <1>2 DEF TakenApart
          <5>2. k \in DOMAIN messages /\ k < index
            BY <1>2, <1>3
          <5>3. 1 \in DOMAIN messages[k].of /\ 1 \in DOMAIN messages[index].of
            BY <5>1, <5>2, <2>1, <1>2, <1>3, SystemHasOne
          <5>4. InOrder(messages, k, index)
            BY <5>2, <1>2, <1>3 DEF ItemsAreThere
          <5>5. messages[k].of[1] < messages[index].of[1]
            BY <5>2, <5>3, <5>4 DEF InOrder
          <5> QED
            BY <4>1, <4>2, <5>1, <5>5, <3>3 DEF p
        <4>3. CASE b \in 1 .. n
          <5>1. systems[a] < systems[b]
            BY <4>1, <4>3, <3>3, <3>6, <1>2 DEF TakenApart
          <5> QED
            BY <4>1, <4>3, <5>1, <3>3
        <4> QED
          BY <4>2, <4>3, <3>3
      <3> QED
        BY <3>2, <3>3, <3>4, <3>5, <3>6, <1>2
    <2>2. CASE ~IsSystem(m)
      <3>1. systems' = systems /\ others' = Append(others, m)
        BY <2>2, <1>1
      <3>2. others' \in Seq(MessageType)
        BY <3>1, <1>2, <1>3
      <3>3. \A k \in 1 .. index : IsSystem(messages[k]) => k \in 1 .. index - 1
        BY <2>2, <1>3
      <3> HIDE DEF m
      <3> QED
        BY <3>1, <3>2, <3>3, <1>2, <1>3 DEF TakenApart
    <2> QED
      BY <2>1, <2>2
  <1>7. IsSplit'
    <2>1. conversion'.messages = messages /\ index' = index + 1
      BY <1>1 DEF messages
    <2>2. index + 1 <= Len(messages) + 1
      BY <1>2, <1>3
    <2>3. TakenApart(messages, index + 1, systems', others')
      BY <2>2, <1>3, <1>5, <1>6 DEF TakenApart
    <2> QED
      BY <2>1, <2>3, SplitIs
  <1>8. InputTypeOK'
    <2>1. index' \in Nat \ {0}
      BY <1>1, <1>2
    <2> QED
      BY <2>1, <1>1, <1>6 DEF InputIInv, InputTypeOK
  <1>9. SeenAreCalls' /\ Reading' /\ IsRead'
    BY <1>1 DEF InputIInv, SeenAreCalls, Reading, IsRead
  <1> QED
    BY <1>1, <1>7, <1>8, <1>9 DEF InputIInv

\* The system's words go in front (protocol_proxy.go:341-345).
LEMMA ConvertKeeps ==
  ASSUME InputIInv, Convert
  PROVE  InputIInv'
  <1>1. /\ stage = "collapsing" /\ index > Len(conversion.messages) /\ stage' = "converted"
        /\ result' = IF systems = <<>> THEN others
                     ELSE <<Message("system", systems, <<>>)>> \o others
        /\ conversion' = conversion /\ input' = input /\ seenCallIDs' = seenCallIDs
        /\ index' = index /\ systems' = systems /\ others' = others
        /\ open' = open /\ answering' = answering /\ paired' = paired
    BY DEF Convert, collapse, pairing
  <1>2. systems \in Seq(Nat) /\ others \in Seq(MessageType)
    BY <1>1, CollapsingIs
  <1>3. result' \in Seq(MessageType)
    <2>1. "system" \in Speakers \cup {"tool"} /\ <<>> \in Seq(Nat)
      BY DEF Speakers
    <2>2. Message("system", systems, <<>>) \in MessageType
      BY <2>1, <1>2, MessageIsTyped
    <2> QED
      BY <2>2, <1>1, <1>2
  <1>4. InputTypeOK'
    BY <1>1, <1>3 DEF InputIInv, InputTypeOK
  <1>5. SeenAreCalls' /\ Reading' /\ IsRead' /\ IsSplit'
    BY <1>1 DEF InputIInv, SeenAreCalls, Reading, IsRead, IsSplit
  <1> QED
    BY <1>1, <1>4, <1>5 DEF InputIInv

\* The invariant holds of every history.
LEMMA InputInvariant == InputSpec => []InputIInv
  <1>1. InputInit => InputIInv
    <2> SUFFICES ASSUME InputInit PROVE InputIInv
      OBVIOUS
    <2> DEFINE c == conversion
    <2>1. /\ input = <<>> /\ seenCallIDs = {} /\ stage = "reading"
          /\ c = [messages |-> <<>>, calls |-> <<>>, reasoning |-> <<>>]
          /\ index = 1 /\ systems = <<>> /\ others = <<>> /\ result = <<>>
          /\ open = {} /\ answering = FALSE /\ paired = TRUE
      BY DEF InputInit
    <2>2. /\ input \in Seq(ItemKinds) /\ systems \in Seq(Nat)
          /\ others \in Seq(MessageType) /\ result \in Seq(MessageType)
          /\ DOMAIN input = {}
      BY <2>1
    <2>3. c \in ConversionType /\ c.messages = <<>> /\ c.calls = <<>> /\ c.reasoning = <<>>
      BY <2>1 DEF ConversionType
    <2> HIDE DEF c
    <2>4. /\ Pending(c).of = <<>> /\ Pending(c).reasoning = <<>>
          /\ Pending(c) \in MessageType /\ Pending(c).role = "assistant"
          /\ WithPending(c) \in Seq(MessageType) /\ Longer(c.messages, Pending(c), WithPending(c))
      BY <2>3, PendingIsLast
    <2>5. c.messages \in Seq(MessageType) /\ DOMAIN c.messages = {}
      BY <2>3
    <2>6. ItemsAreThere(input, c.messages)
      BY <2>2, <2>5 DEF ItemsAreThere
    <2>7. ItemsAreThere(input, WithPending(c))
      BY <2>2, <2>4, <2>5, <2>6, EmptyAdded
    <2>8. AnswersFollow(input, c.messages) /\ Directly(input, c.messages)
      BY <2>5 DEF AnswersFollow, Directly
    <2>9. OpenAreLast(input, c, open)
      BY <2>1, <2>3, <2>5 DEF OpenAreLast
    <2>10. Reading
      BY <2>1, <2>3, <2>7, <2>8, <2>9 DEF Reading, c
    <2>11. InputTypeOK
      <3>1. answering \in BOOLEAN /\ paired \in BOOLEAN
        BY <2>1
      <3>2. index \in Nat \ {0} /\ stage \in {"reading", "collapsing", "converted"}
        BY <2>1
      <3>3. seenCallIDs \subseteq Called /\ open \subseteq seenCallIDs
        BY <2>1
      <3>4. conversion \in ConversionType
        BY <2>3 DEF c
      <3> QED
        BY <2>2, <3>1, <3>2, <3>3, <3>4 DEF InputTypeOK
    <2>12. SeenAreCalls /\ IsRead
      BY <2>1, <2>2 DEF SeenAreCalls, IsRead
    <2> QED
      BY <2>1, <2>10, <2>11, <2>12 DEF InputIInv
  <1>2. InputIInv /\ [InputNext]_inputVars => InputIInv'
    <2> SUFFICES ASSUME InputIInv, [InputNext]_inputVars PROVE InputIInv'
      OBVIOUS
    <2>1. ASSUME NEW item \in ItemKinds, ReadItem(item) PROVE InputIInv'
      BY <2>1, KindOfItem, ReadCall, ReadOutput, ReadReasoning, ReadOther
    <2>2. CASE AllRead
      BY <2>2, AllReadKeeps
    <2>3. CASE Collapse
      BY <2>3, CollapseKeeps
    <2>4. CASE Convert
      BY <2>4, ConvertKeeps
    <2>5. CASE UNCHANGED inputVars
      <3>1. /\ input' = input /\ conversion' = conversion /\ seenCallIDs' = seenCallIDs
            /\ stage' = stage /\ result' = result
            /\ index' = index /\ systems' = systems /\ others' = others
            /\ open' = open /\ answering' = answering /\ paired' = paired
        BY <2>5 DEF inputVars, collapse, pairing
      <3>2. InputTypeOK'
        BY <3>1 DEF InputIInv, InputTypeOK
      <3>3. SeenAreCalls' /\ Reading' /\ IsRead' /\ (stage' # "reading" => IsSplit')
        BY <3>1 DEF InputIInv, SeenAreCalls, Reading, IsRead, IsSplit
      <3> QED
        BY <3>1, <3>2, <3>3 DEF InputIInv
    <2> QED
      BY <2>1, <2>2, <2>3, <2>4, <2>5 DEF InputNext
  <1> QED
    BY <1>1, <1>2, PTL DEF InputSpec

\* A list with the messages of another in their order, but for the systems'
\* words, which come first: message k was message g[k].
Rearranged(messages, now, g) ==
    /\ \A k \in DOMAIN now : IsSystem(now[k]) => k = 1
    /\ \A k \in DOMAIN now : ~IsSystem(now[k]) =>
          g[k] \in DOMAIN messages /\ now[k] = messages[g[k]]
    /\ \A j, k \in DOMAIN now : ~IsSystem(now[j]) /\ ~IsSystem(now[k]) /\ j < k => g[j] < g[k]
    /\ \A q \in DOMAIN messages : ~IsSystem(messages[q]) =>
          \E k \in DOMAIN now : ~IsSystem(now[k]) /\ g[k] = q

\* A system message has no calls.
LEMMA SystemsDoNotCall ==
  ASSUME NEW history \in Seq(ItemKinds), NEW m \in MessageType, Fits(history, m), IsSystem(m)
  PROVE  ~IsCaller(history, m) /\ \A id \in Called : ~Calls(history, m, id)
  <1>1. \A id \in Called : CallOf(id).kind = "call"
    BY DEF CallOf
  <1>2. \A a \in DOMAIN m.of : history[m.of[a]].kind = "system"
    BY DEF Fits, KindsFor, IsSystem
  <1> QED
    BY <1>1, <1>2 DEF Calls, IsCaller

\* Answers still follow their calls when the system messages have moved.
LEMMA FollowRearranged ==
  ASSUME NEW history \in Seq(ItemKinds), NEW messages \in Seq(MessageType), NEW now \in Seq(MessageType),
         \A k \in DOMAIN messages : Fits(history, messages[k]),
         NEW g, Rearranged(messages, now, g), AnswersFollow(history, messages)
  PROVE  AnswersFollow(history, now)
  <1>0. /\ Len(messages) \in Nat /\ DOMAIN messages = 1 .. Len(messages)
        /\ Len(now) \in Nat /\ DOMAIN now = 1 .. Len(now)
        /\ \A k \in DOMAIN messages : messages[k] \in MessageType
    BY EachIsTyped
  <1> SUFFICES ASSUME NEW k \in DOMAIN now, IsAnswer(now[k])
               PROVE  \E id \in Called, j \in 1 .. k - 1 :
                         Calls(history, now[j], id) /\ Answers(history, now[k], id)
    BY DEF AnswersFollow
  <1>1. ~IsSystem(now[k])
    BY DEF IsSystem, IsAnswer
  <1>2. g[k] \in DOMAIN messages /\ now[k] = messages[g[k]]
    BY <1>1 DEF Rearranged
  <1>3. PICK id \in Called, l \in 1 .. g[k] - 1 :
           Calls(history, messages[l], id) /\ Answers(history, messages[g[k]], id)
    BY <1>2 DEF AnswersFollow
  <1>4. l \in DOMAIN messages /\ l < g[k] /\ ~(g[k] < l) /\ l # g[k]
    BY <1>0, <1>2
  <1>5. ~IsSystem(messages[l])
    BY <1>0, <1>3, <1>4, SystemsDoNotCall
  <1>6. PICK j \in DOMAIN now : ~IsSystem(now[j]) /\ g[j] = l
    BY <1>4, <1>5 DEF Rearranged
  <1>7. ~(k < j) /\ j # k
    BY <1>1, <1>4, <1>6 DEF Rearranged
  <1>8. j \in 1 .. k - 1
    BY <1>0, <1>7
  <1>9. now[j] = messages[l]
    BY <1>6 DEF Rearranged
  <1> QED
    BY <1>2, <1>3, <1>8, <1>9

\* The answers after message k are those after the message it was.
SameAnswers(messages, now, g, k) ==
    /\ g[k] \in DOMAIN messages /\ now[k] = messages[g[k]]
    /\ \A j \in AnswersAfter(now, k) :
          g[j] \in AnswersAfter(messages, g[k]) /\ now[j] = messages[g[j]]
    /\ \A i, j \in AnswersAfter(now, k) : g[i] = g[j] => i = j
    /\ \A l \in AnswersAfter(messages, g[k]) : \E j \in AnswersAfter(now, k) : g[j] = l

\* A message with calls has the same answers directly after it as before: no
\* system message was between them.
LEMMA AnswersRearranged ==
  ASSUME NEW history \in Seq(ItemKinds), NEW messages \in Seq(MessageType), NEW now \in Seq(MessageType),
         \A k \in DOMAIN messages : Fits(history, messages[k]),
         \A k \in DOMAIN now : Fits(history, now[k]),
         \A k \in DOMAIN messages : IsAnswer(messages[k]) => ~IsCaller(history, messages[k]),
         NEW g, Rearranged(messages, now, g), Directly(history, messages),
         NEW k \in DOMAIN now, IsCaller(history, now[k])
  PROVE  SameAnswers(messages, now, g, k)
  <1>0. /\ Len(messages) \in Nat /\ DOMAIN messages = 1 .. Len(messages)
        /\ Len(now) \in Nat /\ DOMAIN now = 1 .. Len(now)
        /\ \A i \in DOMAIN messages : messages[i] \in MessageType
    BY EachIsTyped
  <1>s. \A i \in DOMAIN messages : IsSystem(messages[i]) => ~IsCaller(history, messages[i])
    BY <1>0, SystemsDoNotCall
  <1>a. /\ \A i \in DOMAIN now : IsAnswer(now[i]) => ~IsSystem(now[i])
        /\ \A i \in DOMAIN messages : IsAnswer(messages[i]) => ~IsSystem(messages[i])
    BY DEF IsAnswer, IsSystem
  <1>1. ~IsSystem(now[k]) /\ \A i \in DOMAIN now : k < i => ~IsSystem(now[i])
    <2>1. ~IsSystem(now[k])
      BY EachIsTyped, SystemsDoNotCall
    <2> QED
      BY <2>1, <1>0 DEF Rearranged
  <1>2. g[k] \in DOMAIN messages /\ now[k] = messages[g[k]]
    BY <1>1 DEF Rearranged
  <1>3. \A i \in DOMAIN now : k < i =>
           g[k] < g[i] /\ g[i] \in DOMAIN messages /\ now[i] = messages[g[i]]
    BY <1>1 DEF Rearranged
  <1>4. ASSUME NEW i \in DOMAIN now, NEW j \in DOMAIN now, k < i, k < j, g[i] = g[j]
        PROVE  i = j
    <2>1. ~(i < j) /\ ~(j < i)
      BY <1>0, <1>1, <1>3, <1>4 DEF Rearranged
    <2> QED
      BY <2>1, <1>0
  <1>5. ASSUME NEW j \in AnswersAfter(now, k) PROVE g[j] \in AnswersAfter(messages, g[k])
    <2>1. /\ j \in DOMAIN now /\ k < j
          /\ \A i \in DOMAIN now : k < i /\ i <= j => IsAnswer(now[i])
      BY AfterWhich
    <2>2. j <= j
      BY <2>1, <1>0
    <2>3. g[k] < g[j] /\ g[j] \in DOMAIN messages /\ IsAnswer(messages[g[j]])
      BY <2>1, <2>2, <1>3
    <2>4. PICK c \in 1 .. g[j] - 1 :
             /\ IsCaller(history, messages[c])
             /\ \A l \in c + 1 .. g[j] - 1 : IsAnswer(messages[l])
      BY <2>3 DEF Directly
    <2>5. c \in DOMAIN messages /\ c < g[j]
      BY <2>3, <2>4, <1>0
    <2>6. ~(g[k] < c)
      <3> SUFFICES ASSUME g[k] < c PROVE FALSE
        OBVIOUS
      <3>1. ~IsSystem(messages[c]) /\ ~IsAnswer(messages[c])
        BY <2>4, <2>5, <1>s
      <3>2. PICK i \in DOMAIN now : ~IsSystem(now[i]) /\ g[i] = c
        BY <3>1, <2>5 DEF Rearranged
      <3>3. ~(i < k) /\ i # k
        <4>1. i < k => g[i] < g[k]
          BY <3>2, <1>1 DEF Rearranged
        <4> QED
          BY <4>1, <3>2, <2>5, <1>0, <1>2
      <3>4. ~(j < i) /\ j # i
        <4>1. j < i => g[j] < g[i]
          BY <3>2, <2>1, <1>1 DEF Rearranged
        <4> QED
          BY <4>1, <3>2, <2>5, <2>3, <1>0
      <3>5. k < i /\ i <= j
        BY <3>3, <3>4, <2>1, <1>0
      <3>6. IsAnswer(messages[c])
        BY <3>2, <3>5, <2>1, <1>3
      <3> QED
        BY <3>1, <3>6
    <2>7. \A l \in DOMAIN messages : g[k] < l /\ l <= g[j] => IsAnswer(messages[l])
      <3> SUFFICES ASSUME NEW l \in DOMAIN messages, g[k] < l, l <= g[j]
                   PROVE  IsAnswer(messages[l])
        OBVIOUS
      <3>1. l = g[j] \/ l \in c + 1 .. g[j] - 1
        BY <2>3, <2>5, <2>6, <1>0, <1>2
      <3> QED
        BY <3>1, <2>3, <2>4
    <2> QED
      BY <2>3, <2>7, <1>2, AfterWhich
  <1>6. ASSUME NEW l \in AnswersAfter(messages, g[k])
        PROVE  \E j \in AnswersAfter(now, k) : g[j] = l
    <2>1. /\ l \in DOMAIN messages /\ g[k] < l
          /\ \A i \in DOMAIN messages : g[k] < i /\ i <= l => IsAnswer(messages[i])
      BY <1>2, AfterWhich
    <2>2. l <= l
      BY <2>1, <1>0
    <2>3. ~IsSystem(messages[l])
      BY <2>1, <2>2, <1>a
    <2>4. PICK j \in DOMAIN now : ~IsSystem(now[j]) /\ g[j] = l
      BY <2>1, <2>3 DEF Rearranged
    <2>5. k < j
      <3>1. j < k => g[j] < g[k]
        BY <2>4, <1>1 DEF Rearranged
      <3> QED
        BY <3>1, <2>1, <2>4, <1>0, <1>2
    <2>6. ASSUME NEW i \in DOMAIN now, k < i, i <= j PROVE IsAnswer(now[i])
      <3>1. g[k] < g[i] /\ g[i] \in DOMAIN messages /\ now[i] = messages[g[i]]
        BY <2>6, <1>3
      <3>2. g[i] <= l
        <4>1. i < j => g[i] < g[j]
          BY <2>4, <2>6, <1>1 DEF Rearranged
        <4> QED
          BY <4>1, <2>1, <2>4, <2>6, <3>1, <1>0
      <3> QED
        BY <3>1, <3>2, <2>1
    <2>7. j \in AnswersAfter(now, k)
      BY <2>5, <2>6, AfterWhich
    <2> QED
      BY <2>4, <2>7
  <1>7. \A j \in AnswersAfter(now, k) : j \in DOMAIN now /\ k < j
    BY AfterWhich
  <1>8. \A j \in AnswersAfter(now, k) : now[j] = messages[g[j]]
    BY <1>3, <1>7
  <1>9. \A i, j \in AnswersAfter(now, k) : g[i] = g[j] => i = j
    BY <1>4, <1>7
  <1> QED
    BY <1>2, <1>5, <1>6, <1>8, <1>9 DEF SameAnswers

\* So it is still answered by its own and all of its calls.
LEMMA AnsweredRearranged ==
  ASSUME NEW history \in Seq(ItemKinds), NEW messages \in Seq(MessageType), NEW now \in Seq(MessageType),
         \A k \in DOMAIN messages : Fits(history, messages[k]),
         \A k \in DOMAIN now : Fits(history, now[k]),
         \A k \in DOMAIN messages : IsAnswer(messages[k]) => ~IsCaller(history, messages[k]),
         NEW g, Rearranged(messages, now, g), Directly(history, messages),
         \A k \in DOMAIN messages :
            OnlyItsOwn(history, messages, k) /\ \A id \in Called : ~Waiting(history, messages, k, id),
         NEW k \in DOMAIN now
  PROVE  OnlyItsOwn(history, now, k) /\ \A id \in Called : ~Waiting(history, now, k, id)
  <1>1. CASE ~IsCaller(history, now[k])
    BY <1>1 DEF OnlyItsOwn, Waiting, IsCaller
  <1>2. CASE IsCaller(history, now[k])
    <2>1. /\ g[k] \in DOMAIN messages /\ now[k] = messages[g[k]]
          /\ \A j \in AnswersAfter(now, k) :
                g[j] \in AnswersAfter(messages, g[k]) /\ now[j] = messages[g[j]]
          /\ \A i, j \in AnswersAfter(now, k) : g[i] = g[j] => i = j
          /\ \A l \in AnswersAfter(messages, g[k]) : \E j \in AnswersAfter(now, k) : g[j] = l
      <3>1. SameAnswers(messages, now, g, k)
        BY <1>2, AnswersRearranged
      <3> QED
        BY <3>1 DEF SameAnswers
    <2>2. /\ OnlyItsOwn(history, messages, g[k]) /\ IsCaller(history, messages[g[k]])
          /\ \A id \in Called : ~Waiting(history, messages, g[k], id)
      BY <1>2, <2>1
    <2>3. OnlyItsOwn(history, now, k)
      BY SMTT(60), <2>1, <2>2 DEF OnlyItsOwn
    <2>4. ASSUME NEW id \in Called, Waiting(history, now, k, id) PROVE FALSE
      <3>1. Calls(history, messages[g[k]], id)
        BY <2>1, <2>4 DEF Waiting
      <3>2. PICK l \in AnswersAfter(messages, g[k]) : Answers(history, messages[l], id)
        BY <2>2, <3>1 DEF Waiting
      <3>3. PICK j \in AnswersAfter(now, k) : g[j] = l
        BY <2>1
      <3> QED
        BY <2>1, <2>4, <3>2, <3>3 DEF Waiting
    <2> QED
      BY <2>3, <2>4
  <1> QED
    BY <1>1, <1>2

\* The words of the systems, as one message.
AsOne(spoken) == Message("system", spoken, <<>>)

PutInFront(spoken, rest) ==
    IF spoken = <<>> THEN rest ELSE <<AsOne(spoken)>> \o rest

\* The one system message.
LEMMA AsOneIs ==
  ASSUME NEW spoken \in Seq(Nat)
  PROVE  /\ AsOne(spoken) \in MessageType /\ AsOne(spoken).role = "system"
         /\ AsOne(spoken).of = spoken /\ DOMAIN AsOne(spoken).reasoning = {}
  <1>1. "system" \in Speakers \cup {"tool"} /\ <<>> \in Seq(Nat)
    BY DEF Speakers
  <1>2. AsOne(spoken) \in MessageType
    BY <1>1, MessageIsTyped DEF AsOne
  <1> QED
    BY <1>2 DEF AsOne, Message

\* The request is the messages rearranged, with the system's words as one.
LEMMA InFront ==
  ASSUME NEW messages \in Seq(MessageType), NEW spoken \in Seq(Nat), NEW rest \in Seq(MessageType),
         NEW from, IsFrom(from, messages, Len(messages) + 1, rest),
         NEW now, now = PutInFront(spoken, rest)
  PROVE  /\ now \in Seq(MessageType)
         /\ \E g : Rearranged(messages, now, g)
         /\ \A k \in DOMAIN now : IsSystem(now[k]) => now[k] = AsOne(spoken)
         /\ spoken # <<>> => 1 \in DOMAIN now /\ now[1] = AsOne(spoken)
  <1> DEFINE n == Len(messages)
             m == Len(rest)
             one == AsOne(spoken)
  <1>0. /\ n \in Nat /\ DOMAIN messages = 1 .. n /\ m \in Nat /\ DOMAIN rest = 1 .. m
        /\ 1 .. (n + 1) - 1 = 1 .. n
    BY EachIsTyped
  <1>1. one \in MessageType /\ one.role = "system"
    BY AsOneIs
  <1>2. /\ \A i \in DOMAIN rest : /\ from[i] \in DOMAIN messages /\ ~IsSystem(rest[i])
                                  /\ rest[i] = messages[from[i]]
        /\ \A i, j \in DOMAIN rest : i < j => from[i] < from[j]
        /\ \A k \in DOMAIN messages : IsSystem(messages[k]) \/ \E i \in DOMAIN rest : from[i] = k
    BY <1>0 DEF IsFrom
  <1>3. CASE spoken = <<>>
    <2>1. now = rest
      BY <1>3 DEF PutInFront
    <2>2. Rearranged(messages, now, from)
      BY <1>2, <2>1 DEF Rearranged
    <2> QED
      BY <1>2, <1>3, <2>1, <2>2
  <1>4. CASE spoken # <<>>
    <2>1. now = <<one>> \o rest
      BY <1>4 DEF PutInFront
    <2> HIDE DEF one
    <2>2. /\ now \in Seq(MessageType) /\ DOMAIN now = 1 .. m + 1 /\ now[1] = one
          /\ \A i \in 1 .. m : now[i + 1] = rest[i]
      BY <1>0, <1>1, <2>1
    <2> DEFINE g == [k \in 1 .. m + 1 |-> IF k = 1 THEN 0 ELSE from[k - 1]]
    <2> HIDE DEF m, n
    <2>3. IsSystem(now[1])
      BY <1>1, <2>2 DEF IsSystem
    <2>4. ASSUME NEW k \in DOMAIN now, k # 1
          PROVE  /\ k - 1 \in DOMAIN rest /\ now[k] = rest[k - 1] /\ g[k] = from[k - 1]
                 /\ ~IsSystem(now[k]) /\ k \in Nat
      <3>1. k - 1 \in 1 .. m /\ k \in 1 .. m + 1 /\ (k - 1) + 1 = k /\ k \in Nat
        BY <2>2, <2>4, <1>0
      <3>2. now[(k - 1) + 1] = rest[k - 1]
        BY <2>2, <3>1
      <3>3. g[k] = from[k - 1]
        BY <2>4, <3>1
      <3>4. now[k] = rest[k - 1] /\ k - 1 \in DOMAIN rest
        BY <3>1, <3>2, <1>0
      <3>5. ~IsSystem(now[k])
        BY <3>4, <1>2
      <3> QED
        BY <3>1, <3>3, <3>4, <3>5
    <2>5. ASSUME NEW i \in DOMAIN rest
          PROVE  /\ i + 1 \in DOMAIN now /\ ~IsSystem(now[i + 1]) /\ g[i + 1] = from[i]
      <3>1. i \in 1 .. m /\ i + 1 \in 1 .. m + 1 /\ i + 1 # 1 /\ (i + 1) - 1 = i
        BY <1>0
      <3>2. g[i + 1] = from[i]
        BY <3>1
      <3>3. now[i + 1] = rest[i]
        BY <2>2, <3>1
      <3>4. ~IsSystem(now[i + 1])
        BY <3>3, <1>2
      <3> QED
        BY <2>2, <3>1, <3>2, <3>4
    <2> HIDE DEF g
    <2>6. \A k \in DOMAIN now : IsSystem(now[k]) => k = 1
      BY <2>4
    <2>7. ASSUME NEW k \in DOMAIN now, ~IsSystem(now[k])
          PROVE  g[k] \in DOMAIN messages /\ now[k] = messages[g[k]]
      <3>1. k # 1
        BY <2>3, <2>7
      <3>2. k - 1 \in DOMAIN rest /\ now[k] = rest[k - 1] /\ g[k] = from[k - 1]
        BY <3>1, <2>4
      <3> QED
        BY <3>2, <1>2
    <2>8. ASSUME NEW j \in DOMAIN now, NEW k \in DOMAIN now,
                 ~IsSystem(now[j]), ~IsSystem(now[k]), j < k
          PROVE  g[j] < g[k]
      <3>1. j # 1 /\ k # 1
        BY <2>3, <2>8
      <3>2. j - 1 < k - 1
        BY <3>1, <2>4, <2>8
      <3> QED
        BY <3>1, <3>2, <2>4, <1>2
    <2>9. ASSUME NEW q \in DOMAIN messages, ~IsSystem(messages[q])
          PROVE  \E k \in DOMAIN now : ~IsSystem(now[k]) /\ g[k] = q
      <3>1. PICK i \in DOMAIN rest : from[i] = q
        BY <1>2, <2>9
      <3> QED
        BY <3>1, <2>5
    <2>10. Rearranged(messages, now, g)
      BY <2>6, <2>7, <2>8, <2>9 DEF Rearranged
    <2>11. 1 \in DOMAIN now
      BY <2>2, <1>0
    <2> QED
      BY <2>2, <2>6, <2>10, <2>11 DEF one
  <1> QED
    BY <1>3, <1>4

\* Taken apart and put together again, the messages hold what they held.
LEMMA AllInFront ==
  ASSUME NEW history \in Seq(ItemKinds), NEW messages \in Seq(MessageType), ItemsAreThere(history, messages),
         NEW spoken \in Seq(Nat), NEW rest, NEW to, to = Len(messages) + 1,
         TakenApart(messages, to, spoken, rest),
         NEW now \in Seq(MessageType), NEW g, Rearranged(messages, now, g),
         \A k \in DOMAIN now : IsSystem(now[k]) => now[k] = AsOne(spoken),
         spoken # <<>> => 1 \in DOMAIN now /\ now[1] = AsOne(spoken)
  PROVE  /\ \A k \in DOMAIN now : Fits(history, now[k])
         /\ \A p \in DOMAIN history : history[p].kind # "contentless" =>
               \E k \in DOMAIN now : Has(now[k], p)
         /\ \A j, k \in DOMAIN now : IsSystem(now[j]) = IsSystem(now[k]) => InOrder(now, j, k)
  <1> DEFINE one == AsOne(spoken)
  <1>0. /\ DOMAIN messages = 1 .. Len(messages) /\ 1 .. to - 1 = 1 .. Len(messages)
        /\ Len(messages) \in Nat /\ \A k \in DOMAIN messages : messages[k] \in MessageType
        /\ Len(now) \in Nat /\ DOMAIN now = 1 .. Len(now)
        /\ DOMAIN spoken = 1 .. Len(spoken) /\ Len(spoken) \in Nat
    BY EachIsTyped
  <1>1. one.role = "system" /\ one.of = spoken /\ DOMAIN one.reasoning = {}
    BY AsOneIs
  <1> HIDE DEF one
  <1>2. /\ \A k \in DOMAIN messages : IsSystem(messages[k]) =>
              \E a \in DOMAIN spoken : spoken[a] = messages[k].of[1]
        /\ \A a \in DOMAIN spoken : \E k \in DOMAIN messages :
              IsSystem(messages[k]) /\ spoken[a] = messages[k].of[1]
        /\ \A a, b \in DOMAIN spoken : a < b => spoken[a] < spoken[b]
    BY <1>0 DEF TakenApart
  <1>3. \A k \in DOMAIN now : IsSystem(now[k]) => now[k] = one /\ k = 1
    BY DEF Rearranged, one
  <1>4. \A k \in DOMAIN now : ~IsSystem(now[k]) => g[k] \in DOMAIN messages /\ now[k] = messages[g[k]]
    BY DEF Rearranged
  <1>5. Fits(history, one)
    <2>1. ASSUME NEW a \in DOMAIN spoken
          PROVE  spoken[a] \in DOMAIN history /\ history[spoken[a]].kind = "system"
      <3>1. PICK k \in DOMAIN messages : IsSystem(messages[k]) /\ spoken[a] = messages[k].of[1]
        BY <1>2
      <3>2. 1 \in DOMAIN messages[k].of /\ Fits(history, messages[k])
        BY <3>1, SystemHasOne DEF ItemsAreThere
      <3> QED
        BY <3>1, <3>2 DEF Fits, KindsFor, IsSystem
    <2> QED
      BY <2>1, <1>1 DEF Fits, KindsFor
  <1>6. ASSUME NEW k \in DOMAIN now PROVE Fits(history, now[k])
    BY <1>3, <1>4, <1>5 DEF ItemsAreThere
  <1>7. ASSUME NEW p \in DOMAIN history, history[p].kind # "contentless"
        PROVE  \E k \in DOMAIN now : Has(now[k], p)
    <2>1. PICK q \in DOMAIN messages : Has(messages[q], p)
      BY <1>7 DEF ItemsAreThere
    <2>2. CASE IsSystem(messages[q])
      <3>1. messages[q].of[1] = p
        BY <2>1, <2>2, SystemHasOne DEF Has
      <3>2. PICK a \in DOMAIN spoken : spoken[a] = p
        BY <2>2, <3>1, <1>2
      <3>3. 1 \in DOMAIN now /\ now[1] = one
        <4>1. spoken # <<>>
          BY <3>2
        <4> QED
          BY <4>1 DEF one
      <3>4. Has(one, p)
        BY <3>2, <1>1 DEF Has
      <3> QED
        BY <3>3, <3>4
    <2>3. CASE ~IsSystem(messages[q])
      <3>1. PICK k \in DOMAIN now : ~IsSystem(now[k]) /\ g[k] = q
        BY <2>3 DEF Rearranged
      <3> QED
        BY <2>1, <3>1, <1>4
    <2> QED
      BY <2>2, <2>3
  <1>8. ASSUME NEW j \in DOMAIN now, NEW k \in DOMAIN now, IsSystem(now[j]) = IsSystem(now[k])
        PROVE  InOrder(now, j, k)
    <2>1. CASE IsSystem(now[j])
      <3>1. now[j] = one /\ now[k] = one /\ j = k /\ ~(j < k)
        BY <2>1, <1>0, <1>3, <1>8
      <3> QED
        BY <3>1, <1>1, <1>2 DEF InOrder
    <2>2. CASE ~IsSystem(now[j])
      <3>1. /\ ~IsSystem(now[k])
            /\ g[j] \in DOMAIN messages /\ now[j] = messages[g[j]]
            /\ g[k] \in DOMAIN messages /\ now[k] = messages[g[k]]
        BY <2>2, <1>4, <1>8
      <3>2. j < k => g[j] < g[k]
        BY <2>2, <3>1 DEF Rearranged
      <3>3. j = k => g[j] = g[k]
        OBVIOUS
      <3>4. InOrder(messages, g[j], g[k])
        BY <3>1 DEF ItemsAreThere
      <3> QED
        BY <3>1, <3>2, <3>3, <3>4 DEF InOrder
    <2> QED
      BY <2>1, <2>2
  <1> QED
    BY <1>6, <1>7, <1>8

\* The invariant is enough for the property.
LEMMA AcceptedAtTheEnd == InputIInv => HistoryIsAccepted
  <1> SUFFICES ASSUME InputIInv PROVE HistoryIsAccepted
    OBVIOUS
  <1>1. CASE stage # "converted"
    <2>1. result = <<>>
      BY <1>1 DEF InputIInv
    <2> QED
      BY <1>1, <2>1 DEF HistoryIsAccepted, EachItemOnce, AnswersFollow, CallsAreAnswered
  <1>2. CASE stage = "converted"
    <2> DEFINE messages == conversion.messages
    <2>1. /\ input \in Seq(ItemKinds)
          /\ messages \in Seq(MessageType) /\ systems \in Seq(Nat)
          /\ others \in Seq(MessageType) /\ index \in Nat \ {0}
          /\ ItemsAreThere(input, messages)
          /\ TakenApart(messages, index, systems, others)
      BY <1>2, CollapsingIs
    <2>2. /\ index > Len(messages)
          /\ result = PutInFront(systems, others)
          /\ AnswersFollow(input, messages)
          /\ paired => Directly(input, messages)
          /\ paired /\ open = {} =>
                \A k \in DOMAIN messages :
                   OnlyItsOwn(input, messages, k)
                   /\ \A id \in Called : ~Waiting(input, messages, k, id)
      <3>1. /\ index > Len(messages) /\ IsRead
            /\ result = IF systems = <<>> THEN others
                        ELSE <<Message("system", systems, <<>>)>> \o others
        BY <1>2 DEF InputIInv
      <3>2. result = PutInFront(systems, others)
        BY <3>1, Zenon DEF PutInFront, AsOne
      <3> QED
        BY <1>2, <3>1, <3>2 DEF IsRead
    <2> HIDE DEF messages
    <2>3. index = Len(messages) + 1
      <3>1. index <= Len(messages) + 1
        BY <2>1 DEF TakenApart
      <3>2. index > Len(messages) /\ index \in Nat /\ Len(messages) \in Nat
        BY <2>1, <2>2, EachIsTyped
      <3> QED
        BY <3>1, <3>2
    <2>4. PICK from : IsFrom(from, messages, Len(messages) + 1, others)
      BY <2>1, <2>3 DEF TakenApart
    <2>5. /\ result \in Seq(MessageType)
          /\ \E g : Rearranged(messages, result, g)
          /\ \A k \in DOMAIN result : IsSystem(result[k]) => result[k] = AsOne(systems)
          /\ systems # <<>> => 1 \in DOMAIN result /\ result[1] = AsOne(systems)
      BY <2>1, <2>2, <2>4, InFront
    <2>6. PICK g : Rearranged(messages, result, g)
      BY <2>5
    <2>7. /\ \A k \in DOMAIN result : Fits(input, result[k])
          /\ \A p \in DOMAIN input : input[p].kind # "contentless" =>
                \E k \in DOMAIN result : Has(result[k], p)
          /\ \A j, k \in DOMAIN result :
                IsSystem(result[j]) = IsSystem(result[k]) => InOrder(result, j, k)
      BY <2>1, <2>3, <2>5, <2>6, AllInFront
    <2>8. EachItemOnce
      BY <2>6, <2>7 DEF EachItemOnce, Rearranged
    <2>9. \A k \in DOMAIN messages : Fits(input, messages[k])
      BY <2>1 DEF ItemsAreThere
    <2>10. AnswersFollow(input, result)
      BY <2>1, <2>2, <2>5, <2>6, <2>9, FollowRearranged
    <2>11. CallsAreAnswered
      <3>1. \A k \in DOMAIN messages : IsAnswer(messages[k]) => ~IsCaller(input, messages[k])
        <4>1. Fitting(input, messages)
          BY <2>1 DEF Fitting, ItemsAreThere
        <4>2. [kind |-> "user", id |-> NoId] \in ItemKinds
          BY DEF ItemKinds, Speakers
        <4> QED
          BY <4>1, <4>2, <2>1, ItemsApart
      <3> SUFFICES ASSUME paired, open = {}, NEW k \in DOMAIN result
                   PROVE  OnlyItsOwn(input, result, k) /\ \A id \in Called : ~Waiting(input, result, k, id)
        BY DEF CallsAreAnswered
      <3> QED
        BY <3>1, <2>1, <2>2, <2>5, <2>6, <2>7, <2>9, AnsweredRearranged
    <2> QED
      BY <2>8, <2>10, <2>11 DEF HistoryIsAccepted
  <1> QED
    BY <1>1, <1>2

\* The request has every item of the history that says something, once, in a message
\* of its kind and in order but for the system's words; an answer has its call before
\* it; and if the history answers every run of calls before it goes on, each call is
\* answered directly after its message (appendResponsesInput, protocol_proxy.go:180,
\* collapseSystemMessages, :328).
THEOREM HistoryAccepted == InputSpec => []HistoryIsAccepted
  BY InputInvariant, AcceptedAtTheEnd, PTL
=============================================================================
