----------------------------- MODULE ChatStream -----------------------------
(***************************************************************************)
(* Codex speaks the Responses protocol; a supplier may speak only Chat     *)
(* Completions.  streamChatSSEAsResponses (protocol_proxy.go) reads the    *)
(* chunks of a streamed chat answer and writes the events of a Responses   *)
(* stream, keeping what it has read in a chatSSEState.  The same answer    *)
(* sent in one piece goes through chatCompletionToResponse instead.        *)
(*                                                                         *)
(* A chunk carries one delta here: chunkEvents treats the deltas of a      *)
(* chunk one after the other.  A text is the number of its fragments.      *)
(* The supplier may send deltas in any order, also after its [DONE] or an  *)
(* error; `orderly' says whether it has kept the order the Chat            *)
(* Completions protocol lets a reader expect.  A <think> block comes in    *)
(* one delta, a legacy function_call too.                                  *)
(***************************************************************************)
EXTENDS Naturals, Sequences, FiniteSets, SequencesExt

CONSTANTS
    Indexes,            \* positions of tool calls in the chat answer
    ChatIds, CallIds,   \* ids the supplier gives the answer and the calls
    Functions, Customs, \* tool names the request declares; Customs take raw text
    Compat, None,       \* "resp_compat"; an absent field
    MaxChunks           \* bound: chunks and error blocks

Names == Functions \cup Customs
Default(i) == <<"call", i>>

ASSUME ConstantsAssumption ==
    /\ Indexes \subseteq Nat /\ \A i \in Indexes : 0 .. i \subseteq Indexes
    /\ None \notin ChatIds \cup CallIds \cup Names \cup {Compat}
    /\ Functions \cap Customs = {} /\ Compat \notin ChatIds
    /\ \A i \in Indexes : Default(i) \notin CallIds \cup {None}
    /\ MaxChunks \in Nat

VARIABLES
    started, completed, responseID, text, reasoning, finishReason,
    tools,      \* the tool calls begun, by the supplier's index
    items,      \* what the reader has assembled, by output index
    complaints, \* what a reader of the protocol would object to
    answer,     \* the response of the final event, or None
    terminals,  \* the kinds of final events written
    sent,       \* the message the supplier has sent before the first of them
    orderly, chunks,
    link        \* the connection between supplier and reader

converter == <<started, completed, responseID, text, reasoning, finishReason, tools>>
reader == <<items, complaints>>
vars == <<converter, reader, answer, terminals, sent, orderly, chunks, link>>

Init ==
    /\ started = FALSE /\ completed = FALSE /\ responseID = Compat
    /\ text = 0 /\ reasoning = 0 /\ finishReason = None
    /\ tools = <<>>
    /\ items = <<>> /\ complaints = {}
    /\ answer = None /\ terminals = <<>>
    /\ sent = [message |-> FALSE, id |-> None, reasoning |-> 0, thoughts |-> 0,
               leading |-> FALSE, text |-> 0, refusal |-> FALSE, calls |-> <<>>,
               function |-> None, finish |-> None]
    /\ orderly = TRUE /\ chunks = 0 /\ link = "open"

(***************************************************************************)
(* The reader.  An item is announced with an output index, grows by deltas *)
(* and is closed; the final response lists the items by output index.      *)
(***************************************************************************)
Extended(f, k, v) == [x \in DOMAIN f \cup {k} |-> IF x = k THEN v ELSE f[x]]

Follows(r, e) ==
    CASE e.type = "created" -> ~r.started
      [] e.type = "added" -> r.started /\ e.index \notin DOMAIN r.items
      [] OTHER -> /\ e.index \in DOMAIN r.items
                  /\ r.items[e.index].id = e.id /\ ~r.items[e.index].done
                  /\ e.type = "done" => r.items[e.index].size = e.size

Apply(r, e) ==
    CASE e.type = "created" -> [r EXCEPT !.started = TRUE]
      [] e.type = "added" -> [r EXCEPT !.items =
                                Extended(@, e.index, [id |-> e.id, size |-> 0, done |-> FALSE])]
      [] e.type = "delta" -> [r EXCEPT !.items[e.index].size = @ + e.size]
      [] OTHER -> [r EXCEPT !.items[e.index].done = TRUE]

Receive(r, e) == IF Follows(r, e) THEN Apply(r, e)
                 ELSE [r EXCEPT !.complaints = @ \cup {e.type}]

Read(events) == FoldLeft(Receive,
    [started |-> started, items |-> items, complaints |-> complaints], events)

Write(events) ==
    LET r == Read(events) IN items' = r.items /\ complaints' = r.complaints

(***************************************************************************)
(* The converter.                                                          *)
(***************************************************************************)
Id(kind, of) == [kind |-> kind, of |-> of]
CallKind(name) == IF name \in Customs THEN "ctc" ELSE "fc"
Event(type, index, id, size) == [type |-> type, index |-> index, id |-> id, size |-> size]
Added(index, id) == Event("added", index, id, 0)

ReasoningAdded == reasoning > 0
TextAdded == text > 0
Flag(b) == IF b THEN 1 ELSE 0
Or(new, old) == IF new = None THEN old ELSE new

ReasoningId(id) == Id("rs", id)
TextId(id) == Id("msg", id)
\* Mutant of TextIndex: the text is always the second item.
TextIndexOne == 1

TextIndex == Flag(ReasoningAdded)
EnsureStarted == IF started THEN <<>> ELSE <<[type |-> "created"]>>

\* addReasoningDelta, addTextDelta: an item announced with its first fragment.
Fragment(added, index, id) ==
    (IF added THEN <<>> ELSE <<Added(index, id)>>) \o <<Event("delta", index, id, 1)>>

\* The head of chunkEvents, which is run after the end too: the id of the
\* answer, and response.created.
Chunk(id) ==
    /\ link = "open" /\ chunks < MaxChunks
    /\ chunks' = chunks + 1
    /\ started' = TRUE
    /\ responseID' = Or(id, responseID)
    /\ UNCHANGED <<completed, answer, terminals, link>>

\* The ids of items already announced hold the id of the answer.
Settled(id) == id \in {None, responseID} \/ (~ReasoningAdded /\ ~TextAdded)

\* A chunk is in order: none follows the end.
InTurn(id) == orderly /\ terminals = <<>> /\ Settled(id)

\* With the chunk the message becomes m.
Becomes(id, m) ==
    sent' = IF terminals = <<>> THEN [m EXCEPT !.id = Or(id, @)] ELSE sent

Sends(id, m) == Becomes(id, [m EXCEPT !.message = TRUE])

ReasoningFirst == ReasoningAdded \/ (~TextAdded /\ tools = <<>>)
TextBeforeCalls == TextAdded \/ tools = <<>>

ReasoningDelta(id) ==
    /\ Chunk(id)
    /\ reasoning' = reasoning + 1
    /\ Write(EnsureStarted \o Fragment(ReasoningAdded, 0, ReasoningId(responseID')))
    /\ Sends(id, [sent EXCEPT !.reasoning = @ + 1])
    /\ orderly' = (InTurn(id) /\ ReasoningFirst)
    /\ UNCHANGED <<text, finishReason, tools>>

TextDelta(id) ==
    /\ Chunk(id)
    /\ text' = text + 1
    /\ Write(EnsureStarted \o Fragment(TextAdded, TextIndex, TextId(responseID')))
    /\ Sends(id, [sent EXCEPT !.text = @ + 1])
    /\ orderly' = (InTurn(id) /\ TextBeforeCalls)
    /\ UNCHANGED <<reasoning, finishReason, tools>>

\* Content that begins with <think>: reasoningText takes the block out as
\* reasoning, and the content goes to the text as it is.
ThinkDelta(id) ==
    /\ Chunk(id)
    /\ reasoning' = reasoning + 1 /\ text' = text + 1
    /\ Write(EnsureStarted \o Fragment(ReasoningAdded, 0, ReasoningId(responseID'))
                           \o Fragment(TextAdded, 1, TextId(responseID')))
    /\ Sends(id, [sent EXCEPT !.thoughts = @ + 1, !.text = @ + 1,
                              !.leading = @ \/ sent.text = 0])
    /\ orderly' = (InTurn(id) /\ ReasoningFirst /\ TextBeforeCalls)
    /\ UNCHANGED <<finishReason, tools>>

\* What chunkEvents does not look at: a refusal, a function_call of the
\* protocol's first version, a chunk without choices (usage).
OtherChunk(id) ==
    /\ Chunk(id)
    /\ Write(EnsureStarted)
    /\ \/ Sends(id, [sent EXCEPT !.refusal = TRUE])
       \/ \E n \in Names : sent.function = None /\ Sends(id, [sent EXCEPT !.function = n])
       \/ Becomes(id, sent)
    /\ orderly' = InTurn(id)
    /\ UNCHANGED <<text, reasoning, finishReason, tools>>

NextToolOutputIndex(i) == Flag(ReasoningAdded) + Flag(TextAdded) + i

Blank == [output |-> 0, callID |-> None, name |-> None, arguments |-> 0, added |-> FALSE]
\* Mutant of ToolAfter: the arguments that come with the name are dropped.
ToolAfterDropsFirst(i, callID, name, args) ==
    LET old == IF i \in DOMAIN tools THEN tools[i] ELSE Blank
        id == Or(callID, old.callID)
        called == Or(name, old.name)
    IN [output |-> IF old.added THEN old.output ELSE NextToolOutputIndex(i),
        callID |-> IF old.added THEN id ELSE Or(id, Default(i)), name |-> called,
        arguments |-> IF old.added THEN old.arguments + args ELSE 0, added |-> TRUE]

\* A tool call after a delta has brought callID, name and a fragment of arguments.
ToolAfter(i, callID, name, args) ==
    LET old == IF i \in DOMAIN tools THEN tools[i] ELSE Blank
        id == Or(callID, old.callID)
        called == Or(name, old.name)
        now == ~old.added /\ (id # None \/ called # None)
    IN [output |-> IF now THEN NextToolOutputIndex(i) ELSE old.output,
        callID |-> IF now THEN Or(id, Default(i)) ELSE id,
        name |-> called, arguments |-> old.arguments + args, added |-> old.added \/ now]

\* addToolDelta: arguments that come before id and name get a delta all the same.
ToolEvents(i, t, args) ==
    LET was == i \in DOMAIN tools /\ tools[i].added
    IN (IF t.added /\ ~was THEN <<Added(t.output, Id(CallKind(t.name), t.callID))>> ELSE <<>>)
       \o (IF args > 0 /\ t.name \notin Customs
           THEN <<Event("delta", t.output, Id("fc", t.callID), args)>> ELSE <<>>)

SentCall(i, callID, name, args) ==
    LET old == IF i \in DOMAIN sent.calls THEN sent.calls[i]
               ELSE [id |-> None, name |-> None, arguments |-> 0]
    IN [id |-> Or(callID, old.id), name |-> Or(name, old.name), arguments |-> old.arguments + args]

ToolDelta(id, i, callID, name, args) ==
    /\ Chunk(id)
    /\ LET t == ToolAfter(i, callID, name, args) IN
          /\ tools' = Extended(tools, i, t)
          /\ Write(EnsureStarted \o ToolEvents(i, t, args))
    /\ Sends(id, [sent EXCEPT !.calls = Extended(@, i, SentCall(i, callID, name, args))])
    /\ orderly' = (InTurn(id)
                   /\ IF i \in DOMAIN tools
                      THEN callID \in {None, tools[i].callID} /\ name \in {None, tools[i].name}
                      ELSE name # None)
    /\ UNCHANGED <<text, reasoning, finishReason>>

Finish(id, reason) ==
    /\ Chunk(id)
    /\ finishReason' = reason
    /\ Write(EnsureStarted)
    /\ Sends(id, [sent EXCEPT !.finish = reason])
    /\ orderly' = InTurn(id)
    /\ UNCHANGED <<text, reasoning, tools>>

(***************************************************************************)
(* The end of a stream.                                                    *)
(***************************************************************************)
Item(id, size) == [id |-> id, size |-> size]
MessageItem(id, size, refusal) == [id |-> TextId(id), size |-> size, refusal |-> refusal]
CallItem(callID, name, args) ==
    [id |-> Id(CallKind(name), callID), name |-> name, size |-> args]
Rank(i, S) == Cardinality({j \in S : j < i})

\* Mutant of CallItems: the calls get their default ids anew.
CallItemsRenamed ==
    [i \in DOMAIN tools |-> CallItem(Default(i), tools[i].name, tools[i].arguments)]

\* sort.Ints puts the calls in the order of their indexes.
CallItems ==
    [i \in DOMAIN tools |-> CallItem(tools[i].callID, tools[i].name, tools[i].arguments)]

\* The final response (baseResponse).
Final ==
    [id |-> responseID,
     status |-> IF finishReason = "length" THEN "incomplete" ELSE "completed",
     details |-> FALSE,
     reasoning |-> IF ReasoningAdded THEN {Item(ReasoningId(responseID), reasoning)} ELSE {},
     message |-> IF TextAdded THEN {MessageItem(responseID, text, FALSE)} ELSE {},
     calls |-> CallItems]

CloseItem(index, id, size) == <<Event("done", index, id, size)>>
CloseCall(t) ==
    LET id == Id(CallKind(t.name), t.callID)
    IN (IF t.name \in Customs THEN <<Event("delta", t.output, id, t.arguments)>> ELSE <<>>)
       \o CloseItem(t.output, id, t.arguments)

\* The calls in the order of their indexes.
Keys == [k \in 1 .. Cardinality(DOMAIN tools) |->
            CHOOSE i \in DOMAIN tools : Rank(i, DOMAIN tools) = k - 1]

FinishEvents ==
    EnsureStarted
    \o (IF ReasoningAdded THEN CloseItem(0, ReasoningId(responseID), reasoning) ELSE <<>>)
    \o (IF TextAdded THEN CloseItem(TextIndex, TextId(responseID), text) ELSE <<>>)
    \o FlattenSeq([k \in DOMAIN Keys |-> CloseCall(tools[Keys[k]])])

Complete ==
    /\ Write(FinishEvents)
    /\ answer' = Final /\ terminals' = Append(terminals, "completed")
    /\ started' = TRUE /\ completed' = TRUE
    /\ UNCHANGED <<responseID, text, reasoning, finishReason, tools, sent, orderly, chunks>>

Keep == UNCHANGED <<converter, reader, answer, terminals, sent, orderly, chunks>>

\* Mutant of FinishOnce: nothing remembers that the stream is finished.
FinishAgain == Complete

\* finishEvents, on [DONE] and at the end of the stream.
FinishOnce == IF completed THEN Keep ELSE Complete

Done == link = "open" /\ FinishOnce /\ UNCHANGED link

\* failedEvents, which does not ask whether the stream is finished.
ErrorBlock ==
    /\ link = "open" /\ chunks < MaxChunks
    /\ chunks' = chunks + 1
    /\ Write(EnsureStarted) /\ terminals' = Append(terminals, "failed")
    /\ started' = TRUE /\ completed' = TRUE
    /\ UNCHANGED <<responseID, text, reasoning, finishReason, tools, answer, sent, orderly, link>>

\* The supplier closes the connection, with or without [DONE]; half a block of
\* JSON is dropped.
Eof == link = "open" /\ FinishOnce /\ link' = "ended"

\* A read error or a line above 8 MiB: the conversion stops where it is.
Broken == link = "open" /\ link' = "broken" /\ Keep

\* The reader goes away: the next write fails.
ReaderGone == link = "open" /\ link' = "readerGone" /\ Keep

Delta ==
    \E id \in ChatIds \cup {None} :
       \/ ReasoningDelta(id) \/ TextDelta(id) \/ ThinkDelta(id) \/ OtherChunk(id)
       \/ \E reason \in {"stop", "length"} : Finish(id, reason)
       \/ \E i \in Indexes, c \in CallIds \cup {None}, n \in Names \cup {None}, a \in {0, 1} :
             ToolDelta(id, i, c, n, a)

Ending == Done \/ ErrorBlock \/ Eof \/ Broken \/ ReaderGone

Next == Delta \/ Ending

Spec == Init /\ [][Next]_vars

(***************************************************************************)
(* chatCompletionToResponse: the response to a message sent in one piece,  *)
(* or None for the error.                                                  *)
(***************************************************************************)
\* reasoningText: the leading <think> block only when nothing else is there.
WholeReasoning(m) == IF m.reasoning > 0 THEN m.reasoning ELSE Flag(m.leading)

\* Content is passed on without its leading <think> block; when there is one
\* further on, all of it is left out.
WholeText(m) ==
    IF m.leading THEN m.text - 1 ELSE IF m.thoughts > 0 THEN 0 ELSE m.text

\* function_call counts only without tool_calls.
WholeCalls(m) ==
    IF m.calls = <<>> /\ m.function # None
    THEN [i \in {0} |-> CallItem(Default(0), m.function, 1)]
    ELSE [i \in DOMAIN m.calls |->
             CallItem(Or(m.calls[i].id, Default(Rank(i, DOMAIN m.calls))),
                      m.calls[i].name, m.calls[i].arguments)]

Whole(m) ==
    LET id == Or(m.id, Compat) IN
    IF ~m.message THEN None
    ELSE [id |-> id,
          status |-> IF m.finish = "length" THEN "incomplete" ELSE "completed",
          details |-> m.finish = "length",
          reasoning |-> IF WholeReasoning(m) > 0
                        THEN {Item(ReasoningId(id), WholeReasoning(m))} ELSE {},
          message |-> IF WholeText(m) > 0 \/ m.refusal
                      THEN {MessageItem(id, WholeText(m), m.refusal)} ELSE {},
          calls |-> WholeCalls(m)]

(***************************************************************************)
(* Properties.                                                             *)
(***************************************************************************)
ToolType == [output : Nat, callID : CallIds \cup {None} \cup {<<"call", i>> : i \in Indexes},
             name : Names \cup {None}, arguments : Nat, added : BOOLEAN]
SentType == [id : CallIds \cup {None}, name : Names \cup {None}, arguments : Nat]
Finishes == {None, "stop", "length"}
IsCalls(f, Type) == f \in [DOMAIN f -> Type] /\ DOMAIN f \subseteq Indexes

\* The fields of the converter and of the message sent keep their types.
TypeOK ==
    /\ started \in BOOLEAN /\ completed \in BOOLEAN
    /\ responseID \in ChatIds \cup {Compat}
    /\ text \in Nat /\ reasoning \in Nat /\ finishReason \in Finishes
    /\ IsCalls(tools, ToolType)
    /\ terminals \in Seq({"completed", "failed"})
    /\ sent \in [message : BOOLEAN, id : ChatIds \cup {None}, reasoning : Nat,
                 thoughts : Nat, leading : BOOLEAN, text : Nat, refusal : BOOLEAN,
                 calls : {sent.calls}, function : Names \cup {None}, finish : Finishes]
    /\ IsCalls(sent.calls, SentType)
    /\ orderly \in BOOLEAN /\ chunks \in 0 .. MaxChunks
    /\ link \in {"open", "ended", "broken", "readerGone"}

\* The indexes of the calls are those of a list, as in an answer sent whole.
Listed == \A i \in DOMAIN tools : \A j \in Indexes : j < i => j \in DOMAIN tools

Position(i) == NextToolOutputIndex(Rank(i, DOMAIN tools))

\* While the supplier keeps to the order of the protocol, however it interleaves
\* fragments of reasoning, text and calls already begun, every event follows
\* from those before it: no output index is taken twice, no delta or end goes to
\* an item that was not announced, no item is left open by the final event, and
\* the final response lists the calls where they were announced.
WellFormed ==
    /\ orderly => complaints = {}
    /\ (orderly /\ Listed /\ "completed" \in ToSet(terminals)) =>
          /\ DOMAIN items = 0 .. Cardinality(DOMAIN items) - 1
          /\ \A k \in DOMAIN items : items[k].done
          /\ \A i \in DOMAIN tools : items[Position(i)].id = answer.calls[i].id

\* In whatever order the deltas came, the final response of a completed stream
\* holds every fragment of reasoning, thought, text and arguments that was sent
\* before it.  (Refusals and function_call are left out of a streamed answer.)
NothingDropped ==
    "completed" \in ToSet(terminals) =>
       /\ sent.reasoning + sent.thoughts > 0 =>
             \E x \in answer.reasoning : x.size = sent.reasoning + sent.thoughts
       /\ sent.text > 0 => \E x \in answer.message : x.size = sent.text
       /\ \A i \in DOMAIN sent.calls : answer.calls[i].size = sent.calls[i].arguments

\* Whatever the supplier sends after the end of its answer - deltas, [DONE], an
\* error or its end of file - the answer is completed at most once, as the
\* first final event, and stands as it was; a stream that has failed is never
\* completed.  Only an error block adds a final event to another, and a stream
\* the supplier closes has one.  (Closed without [DONE] it counts as complete,
\* protocol_proxy.go:773-778.)
StreamCompletesOnce ==
    [][/\ terminals # <<>> =>
             /\ answer' = answer
             /\ terminals' \in {terminals, Append(terminals, "failed")}
       /\ answer' # None => terminals' # <<>> /\ Head(terminals') = "completed"
       /\ link' = "ended" => terminals' # <<>>]_vars

\* A streamed answer and the same answer in one piece, put together by
\* different code, become the same response, but for what the code of streams
\* leaves out: incomplete_details (440-442), a refusal (467-469), a
\* function_call (485-488), the removal of <think> blocks (451-454) and the
\* error for an answer without a message (411-419).
AgreesWithWhole ==
    (orderly /\ Listed /\ answer # None /\ sent.message) =>
       LET whole == Whole(sent) IN
       /\ answer.id = whole.id /\ answer.status = whole.status
       /\ sent.thoughts = 0 => answer.reasoning = whole.reasoning
       /\ sent.thoughts = 0 /\ ~sent.refusal => answer.message = whole.message
       /\ sent.calls # <<>> \/ sent.function = None => answer.calls = whole.calls
=============================================================================
