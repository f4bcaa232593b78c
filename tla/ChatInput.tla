------------------------------ MODULE ChatInput ------------------------------
(***************************************************************************)
(* The other direction of ChatStream: the history Codex sends, a list of   *)
(* Responses items, becomes the messages of a Chat Completions request     *)
(* (appendResponsesInput and collapseSystemMessages, protocol_proxy.go).   *)
(* Calls that follow each other are put in one assistant message, and      *)
(* reasoning is kept until there is a message to hang it on; then the      *)
(* system messages are taken out and put in front as one.                  *)
(*                                                                         *)
(* One step converts one item, or collapses one message.  A message holds  *)
(* the positions of the items it was made of.  `open', `answering' and     *)
(* `paired' follow whether the history is one in which every run of calls  *)
(* is answered before it goes on, as Codex records it.                     *)
(***************************************************************************)
EXTENDS Naturals, Sequences

CONSTANTS
    Called,      \* ids of calls
    NoId,
    MaxItems     \* bound

Speakers == {"user", "assistant", "system"}
ItemKinds == [kind : {"call", "output"}, id : Called]
             \cup [kind : Speakers \cup {"reasoning", "contentless"}, id : {NoId}]

ASSUME InputAssumption == NoId \notin Called /\ MaxItems \in Nat

VARIABLES
    input,         \* the items read so far
    conversion,    \* the messages and what is pending for the next ones
    seenCallIDs,
    stage,         \* "reading", "collapsing" or "converted"
    index,         \* the message to be collapsed next
    systems, others, \* what was made of those before it
    result,        \* the messages of the request, once converted
    open, answering, paired

collapse == <<index, systems, others>>
pairing == <<open, answering, paired>>
inputVars == <<input, conversion, seenCallIDs, stage, collapse, result, pairing>>

InputInit ==
    /\ input = <<>> /\ seenCallIDs = {} /\ stage = "reading"
    /\ conversion = [messages |-> <<>>, calls |-> <<>>, reasoning |-> <<>>]
    /\ index = 1 /\ systems = <<>> /\ others = <<>> /\ result = <<>>
    /\ open = {} /\ answering = FALSE /\ paired = TRUE

Message(role, of, reasons) == [role |-> role, of |-> of, reasoning |-> reasons]
Add(c, message) == [c EXCEPT !.messages = Append(@, message)]

\* The messages with what is pending, as one that holds it would be.
WithPending(c) == Append(c.messages, Message("assistant", c.calls, c.reasoning))

\* Mutant of FlushCalls: the reasoning stays pending after it was used.
FlushCallsKeeps(c) ==
    IF c.calls = <<>> THEN c
    ELSE [messages |-> WithPending(c), calls |-> <<>>, reasoning |-> c.reasoning]

FlushCalls(c) ==
    IF c.calls = <<>> THEN c
    ELSE [messages |-> WithPending(c), calls |-> <<>>, reasoning |-> <<>>]

\* Called when no calls are pending.
FlushReasoning(c) ==
    IF c.reasoning = <<>> THEN c
    ELSE [messages |-> WithPending(c), calls |-> <<>>, reasoning |-> <<>>]

\* The output of a call the history does not hold is told as a user's words.
AppendOutput(c, p, id) ==
    IF id \in seenCallIDs
    THEN Add(FlushCalls(c), Message("tool", <<p>>, <<>>))
    ELSE Add(FlushReasoning(FlushCalls(c)), Message("user", <<p>>, <<>>))

AppendMessage(c, p, role) ==
    LET flushed == FlushCalls(c)
    IN IF role = "assistant"
       THEN [Add(flushed, Message(role, <<p>>, flushed.reasoning)) EXCEPT !.reasoning = <<>>]
       ELSE Add(FlushReasoning(flushed), Message(role, <<p>>, <<>>))

\* Mutant of AppendItem: every call gets a message of its own.
AppendItemApart(c, p, item) ==
    CASE item.kind = "call" -> [FlushCalls(c) EXCEPT !.calls = <<p>>]
      [] item.kind = "output" -> AppendOutput(c, p, item.id)
      [] item.kind = "reasoning" -> [c EXCEPT !.reasoning = Append(@, p)]
      [] item.kind = "contentless" -> FlushCalls(c)
      [] OTHER -> AppendMessage(c, p, item.kind)

\* appendResponsesInput, for one item at position p.
AppendItem(c, p, item) ==
    CASE item.kind = "call" -> [c EXCEPT !.calls = Append(@, p)]
      [] item.kind = "output" -> AppendOutput(c, p, item.id)
      [] item.kind = "reasoning" -> [c EXCEPT !.reasoning = Append(@, p)]
      [] item.kind = "contentless" -> FlushCalls(c)
      [] OTHER -> AppendMessage(c, p, item.kind)

ReadItem(item) ==
    /\ stage = "reading" /\ Len(input) < MaxItems
    /\ input' = Append(input, item)
    /\ conversion' = AppendItem(conversion, Len(input) + 1, item)
    /\ seenCallIDs' = seenCallIDs \cup (IF item.kind = "call" THEN {item.id} ELSE {})
    /\ CASE item.kind = "call" ->
              /\ paired' = (paired /\ item.id \notin seenCallIDs /\ (answering => open = {}))
              /\ open' = open \cup {item.id} /\ answering' = FALSE
         [] item.kind = "output" ->
              /\ paired' = (paired /\ item.id \in open)
              /\ open' = open \ {item.id} /\ answering' = TRUE
         [] item.kind = "reasoning" -> UNCHANGED pairing
         [] OTHER -> paired' = (paired /\ open = {}) /\ UNCHANGED <<open, answering>>
    /\ UNCHANGED <<stage, collapse, result>>

AllRead ==
    /\ stage = "reading" /\ stage' = "collapsing"
    /\ conversion' = FlushReasoning(FlushCalls(conversion))
    /\ UNCHANGED <<input, seenCallIDs, collapse, result, pairing>>

IsSystem(message) == message.role = "system"

\* collapseSystemMessages, for one message.
Collapse ==
    /\ stage = "collapsing" /\ index <= Len(conversion.messages)
    /\ LET message == conversion.messages[index]
       IN IF IsSystem(message)
          THEN systems' = Append(systems, message.of[1]) /\ UNCHANGED others
          ELSE others' = Append(others, message) /\ UNCHANGED systems
    /\ index' = index + 1
    /\ UNCHANGED <<input, conversion, seenCallIDs, stage, result, pairing>>

Convert ==
    /\ stage = "collapsing" /\ index > Len(conversion.messages)
    /\ stage' = "converted"
    /\ result' = IF systems = <<>> THEN others ELSE <<Message("system", systems, <<>>)>> \o others
    /\ UNCHANGED <<input, conversion, seenCallIDs, collapse, pairing>>

InputNext == (\E item \in ItemKinds : ReadItem(item)) \/ AllRead \/ Collapse \/ Convert

InputSpec == InputInit /\ [][InputNext]_inputVars

(***************************************************************************)
(* Properties.                                                             *)
(***************************************************************************)

\* What a message may be made of.
KindsFor(role) ==
    CASE role = "assistant" -> {"assistant", "call"}
      [] role = "user" -> {"user", "output"}
      [] role = "tool" -> {"output"}
      [] role = "system" -> {"system"}

Fits(items, message) ==
    /\ \A a \in DOMAIN message.of :
          /\ message.of[a] \in DOMAIN items
          /\ items[message.of[a]].kind \in KindsFor(message.role)
    /\ \A a \in DOMAIN message.reasoning :
          /\ message.reasoning[a] \in DOMAIN items
          /\ items[message.reasoning[a]].kind = "reasoning" /\ message.role = "assistant"

Has(message, p) ==
    \/ \E a \in DOMAIN message.of : message.of[a] = p
    \/ \E a \in DOMAIN message.reasoning : message.reasoning[a] = p

\* What messages j and k were made of is in the order of the history.
InOrder(messages, j, k) ==
    /\ \A a \in DOMAIN messages[j].of, b \in DOMAIN messages[k].of :
          j < k \/ (j = k /\ a < b) => messages[j].of[a] < messages[k].of[b]
    /\ \A a \in DOMAIN messages[j].reasoning, b \in DOMAIN messages[k].reasoning :
          j < k \/ (j = k /\ a < b) => messages[j].reasoning[a] < messages[k].reasoning[b]

\* Every item that says something is in the request, once and in a message of
\* its kind; but for the system messages, which go first, calls, outputs and
\* messages keep their order, and so does the reasoning.
EachItemOnce ==
    stage = "converted" =>
       /\ \A k \in DOMAIN result : Fits(input, result[k]) /\ (IsSystem(result[k]) => k = 1)
       /\ \A p \in DOMAIN input : input[p].kind # "contentless" =>
             \E k \in DOMAIN result : Has(result[k], p)
       /\ \A j, k \in DOMAIN result :
             IsSystem(result[j]) = IsSystem(result[k]) => InOrder(result, j, k)

CallOf(id) == [kind |-> "call", id |-> id]
Calls(items, message, id) == \E a \in DOMAIN message.of : items[message.of[a]] = CallOf(id)
IsCaller(items, message) == \E id \in Called : Calls(items, message, id)
IsAnswer(message) == message.role = "tool"
Answers(items, message, id) == IsAnswer(message) /\ items[message.of[1]].id = id

\* A tool message answers a call of an assistant message before it: a Chat
\* Completions server refuses any other.
AnswersFollow(items, messages) ==
    \A k \in DOMAIN messages : IsAnswer(messages[k]) =>
       \E id \in Called, j \in 1 .. k - 1 :
          Calls(items, messages[j], id) /\ Answers(items, messages[k], id)

\* The tool messages directly after message k.
AnswersAfter(messages, k) ==
    {j \in k + 1 .. Len(messages) : \A i \in k + 1 .. j : IsAnswer(messages[i])}

Waiting(items, messages, k, id) ==
    /\ Calls(items, messages[k], id)
    /\ \A j \in AnswersAfter(messages, k) : ~Answers(items, messages[j], id)

\* Directly after message k, if it has calls, its calls are answered, each once
\* at most, and no others.
OnlyItsOwn(items, messages, k) ==
    LET answers == AnswersAfter(messages, k) IN
    IsCaller(items, messages[k]) =>
       /\ \A j \in answers : \E id \in Called :
             Calls(items, messages[k], id) /\ Answers(items, messages[j], id)
       /\ \A i, j \in answers, id \in Called :
             Answers(items, messages[i], id) /\ Answers(items, messages[j], id) => i = j

\* If the history answers every run of calls before it goes on, with reasoning
\* anywhere, so does the request: an assistant message with calls is followed
\* directly by the answers to these calls.
CallsAreAnswered ==
    (stage = "converted" /\ paired /\ open = {}) =>
       \A k \in DOMAIN result :
          OnlyItsOwn(input, result, k) /\ \A id \in Called : ~Waiting(input, result, k, id)

\* The request has the whole history, once, and its calls and answers are in an
\* order a Chat Completions server accepts.
HistoryIsAccepted == EachItemOnce /\ AnswersFollow(input, result) /\ CallsAreAnswered

(***************************************************************************)
(* The inductive invariant.                                                *)
(***************************************************************************)
MessageType ==
    [role : Speakers \cup {"tool"}, of : Seq(Nat), reasoning : Seq(Nat)]

ConversionType == [messages : Seq(MessageType), calls : Seq(Nat), reasoning : Seq(Nat)]

InputTypeOK ==
    /\ input \in Seq(ItemKinds) /\ seenCallIDs \subseteq Called
    /\ conversion \in ConversionType
    /\ stage \in {"reading", "collapsing", "converted"}
    /\ index \in Nat \ {0} /\ systems \in Seq(Nat)
    /\ others \in Seq(MessageType) /\ result \in Seq(MessageType)
    /\ open \subseteq seenCallIDs /\ answering \in BOOLEAN /\ paired \in BOOLEAN

ItemsAreThere(items, messages) ==
    /\ \A k \in DOMAIN messages : Fits(items, messages[k])
    /\ \A p \in DOMAIN items : items[p].kind # "contentless" =>
          \E k \in DOMAIN messages : Has(messages[k], p)
    /\ \A j, k \in DOMAIN messages : InOrder(messages, j, k)
    /\ \A k \in DOMAIN messages :
          IsSystem(messages[k]) \/ IsAnswer(messages[k]) =>
             Len(messages[k].of) = 1

SeenAreCalls == \A id \in Called : id \in seenCallIDs <=> \E p \in DOMAIN input : input[p] = CallOf(id)

\* Between calls and an answer there are only answers.
Directly(items, messages) ==
    \A k \in DOMAIN messages : IsAnswer(messages[k]) =>
       \E j \in 1 .. k - 1 :
          /\ IsCaller(items, messages[j])
          /\ \A i \in j + 1 .. k - 1 : IsAnswer(messages[i])

\* Message k has calls, and those are open; the answers so far come last.
IsOpen(items, messages, k, ids) ==
    /\ IsCaller(items, messages[k])
    /\ \A j \in k + 1 .. Len(messages) : IsAnswer(messages[j])
    /\ \A id \in Called : id \in ids <=> Waiting(items, messages, k, id)

\* In a history that answers its calls, the open ones are pending, or of the last
\* message that has any.
OpenAreLast(items, c, ids) ==
    /\ c.calls # <<>> =>
          \A id \in Called :
             id \in ids <=> Calls(items, Message("assistant", c.calls, c.reasoning), id)
    /\ c.calls = <<>> /\ ids # {} => \E k \in DOMAIN c.messages : IsOpen(items, c.messages, k, ids)
    /\ \A k \in DOMAIN c.messages :
          /\ OnlyItsOwn(items, c.messages, k)
          /\ \A id \in Called :
                Waiting(items, c.messages, k, id) =>
                   c.calls = <<>> /\ IsOpen(items, c.messages, k, ids)

Reading ==
    stage = "reading" =>
       /\ ItemsAreThere(input, WithPending(conversion))
       /\ AnswersFollow(input, conversion.messages)
       /\ paired =>
             /\ Directly(input, conversion.messages) /\ OpenAreLast(input, conversion, open)
             /\ IF conversion.calls = <<>> THEN answering \/ open = {} ELSE ~answering
       /\ index = 1 /\ systems = <<>> /\ others = <<>>

IsRead ==
    LET messages == conversion.messages IN
    stage # "reading" =>
       /\ ItemsAreThere(input, messages)
       /\ AnswersFollow(input, messages)
       /\ paired => Directly(input, messages)
       /\ paired /\ open = {} =>
             \A k \in DOMAIN messages :
                OnlyItsOwn(input, messages, k)
                /\ \A id \in Called : ~Waiting(input, messages, k, id)

\* The messages up to the next have been taken apart, in their order.
IsSplit ==
    LET messages == conversion.messages
        done == 1 .. index - 1
    IN /\ index <= Len(messages) + 1
       /\ \A k \in done : IsSystem(messages[k]) =>
             \E a \in DOMAIN systems : systems[a] = messages[k].of[1]
       /\ \A a \in DOMAIN systems :
             \E k \in done : IsSystem(messages[k]) /\ systems[a] = messages[k].of[1]
       /\ \A a, b \in DOMAIN systems : a < b => systems[a] < systems[b]
       /\ \E from \in [DOMAIN others -> done] :
             /\ \A i \in DOMAIN others : ~IsSystem(others[i]) /\ others[i] = messages[from[i]]
             /\ \A i, j \in DOMAIN others : i < j => from[i] < from[j]
             /\ \A k \in done : IsSystem(messages[k]) \/ \E i \in DOMAIN others : from[i] = k

InputIInv ==
    /\ InputTypeOK /\ SeenAreCalls /\ Reading /\ IsRead
    /\ stage # "reading" => IsSplit
    /\ stage # "converted" => result = <<>>
    /\ stage = "converted" =>
          /\ index > Len(conversion.messages)
          /\ result = IF systems = <<>> THEN others ELSE <<Message("system", systems, <<>>)>> \o others
=============================================================================
