------------------------------ MODULE ToolNames ------------------------------
(***************************************************************************)
(* The tools of a Responses request are offered to a Chat Completions      *)
(* supplier as plain functions (convertResponsesToolsToChat), and a call   *)
(* the supplier makes is turned back by what was noted of them             *)
(* (buildProtocolToolContext, protocolResponseToolCall, protocol_tools.go).*)
(* A tool of a namespace is offered as namespace__name; the tool that      *)
(* edits files is offered as one function for each kind of edit.           *)
(*                                                                         *)
(* A name is a sequence of tokens.  One step notes and offers one tool.    *)
(***************************************************************************)
EXTENDS Naturals, Sequences, SequencesExt

CONSTANTS
    Declarations,   \* the tools a request may declare
    Edits,          \* "_add_file" and so on
    MaxDeclared     \* bound

\* A string alone names a freeform tool.  web_search, local_shell and computer_use
\* are custom tools here.  Unnoted tools are offered and not noted: a function
\* whose name is in a nested object, or a tool without one, for which the offer
\* makes one up.  The tools of a namespace without a name keep theirs.
ASSUME ToolsAssumption ==
    \A d \in Declarations :
        /\ d.type \in {"function", "custom", "string", "unnoted", "namespace"}
        /\ d.edits \in BOOLEAN

VARIABLES
    declared, custom, function, offered

nameVars == <<declared, custom, function, offered>>

NoNamespace == <<>>

NamesInit ==
    /\ declared = <<>> /\ offered = {}
    /\ custom = {} /\ function = {}     \* [chat |-> offered name, tool |-> [space, name]]

Tool(space, name) == [space |-> space, name |-> name]
Entry(chat, tool) == [chat |-> chat, tool |-> tool]
Noted(table, chat) == {e \in table : e.chat = chat}
Put(table, e) == (table \ Noted(table, e.chat)) \cup {e}

\* flattenProtocolToolName
Flatten(space, name) ==
    IF space = NoNamespace THEN name
    ELSE IF Last(space) = "__" \/ Head(name) = "__" THEN space \o name
    ELSE space \o <<"__">> \o name

\* A function without a namespace keeps its name, wherever it is declared.
Kept(flat) == \E e \in Noted(function, flat) : e.tool.space = NoNamespace

\* The tool that calls of a declared one are for.  A string that ends like a kind of
\* edit is taken for the tool that edits files.
ToolOf(d) ==
    CASE d.type = "namespace" -> Tool(d.space, d.name)
      [] d.type = "string" /\ Last(d.name) \in Edits -> Tool(NoNamespace, <<"apply_patch">>)
      [] OTHER -> Tool(NoNamespace, d.name)

ChatNames(d) ==
    CASE d.type = "namespace" -> {Flatten(d.space, d.name)}
      [] d.type = "custom" /\ d.edits -> {d.name \o <<e>> : e \in Edits}
      [] OTHER -> {d.name}

\* A custom tool is noted under its own name too, though one that edits files
\* is not offered under it.
NotedUnder(d) ==
    IF d.type = "unnoted" THEN {}
    ELSE ChatNames(d) \cup {c \in {d.name} : d.type = "custom"}

\* buildProtocolToolContext, for one tool.
Note(d) ==
    CASE d.type = "function" ->
           function' = Put(function, Entry(d.name, ToolOf(d))) /\ UNCHANGED custom
      [] d.type \in {"custom", "string"} ->
           /\ custom' = {e \in custom : e.chat \notin NotedUnder(d)}
                        \cup {Entry(c, ToolOf(d)) : c \in NotedUnder(d)}
           /\ UNCHANGED function
      [] d.type = "unnoted" -> UNCHANGED <<custom, function>>
      [] d.type = "namespace" ->
           LET flat == Flatten(d.space, d.name) IN
           /\ function' = IF Kept(flat) THEN function
                          ELSE Put(function, Entry(flat, ToolOf(d)))
           /\ UNCHANGED custom

Declare(d) ==
    /\ offered = {} /\ Len(declared) < MaxDeclared
    /\ declared' = Append(declared, d) /\ Note(d)
    /\ UNCHANGED offered

\* convertResponsesToolsToChat, when all are noted.
OfferedBy(d) ==
    IF d.type = "namespace" /\ d.space # NoNamespace /\ Kept(Flatten(d.space, d.name)) THEN {}
    ELSE ChatNames(d)

Offer ==
    /\ offered = {} /\ declared # <<>>
    /\ offered' = UNION {{[chat |-> c, by |-> k] : c \in OfferedBy(declared[k])} : k \in DOMAIN declared}
    /\ UNCHANGED <<declared, custom, function>>

NamesNext == (\E d \in Declarations : Declare(d)) \/ Offer

NamesSpec == NamesInit /\ [][NamesNext]_nameVars

\* Mutant of Resolve: namespaces are not looked up.
ResolveFlat(chat) == {Tool(NoNamespace, chat)}

\* protocolResponseToolCall: the tool a call of the supplier is for.
Resolve(chat) ==
    IF Noted(custom, chat) # {} THEN {e.tool : e \in Noted(custom, chat)}
    ELSE IF Noted(function, chat) # {} THEN {e.tool : e \in Noted(function, chat)}
    ELSE {Tool(NoNamespace, chat)}

(***************************************************************************)
(* Properties.                                                             *)
(***************************************************************************)
Declared(k) == ToolOf(declared[k])

\* A call goes to the tool under whose name it was offered, unless another
\* tool is noted under the same name.
CallsComeBack ==
    \A o \in offered :
       (\A k \in DOMAIN declared :
           o.chat \in NotedUnder(declared[k]) => Declared(k) = Declared(o.by))
          => Resolve(o.chat) = {Declared(o.by)}

\* A function that is noted as one, of no namespace or of a nameless one.
Plain(d) == d.type \in {"function", "namespace"} /\ ToolOf(d).space = NoNamespace

\* Where such a function and a tool of a namespace have the same chat name, only
\* the function is offered and calls go to it, whichever was declared first.
FunctionsWin ==
    \A o \in offered : Declared(o.by).space # NoNamespace =>
       \A k \in DOMAIN declared : Plain(declared[k]) => declared[k].name # o.chat

\* A call is for the tool that was offered under its name.
CallsReachTheirTool == CallsComeBack /\ FunctionsWin

(***************************************************************************)
(* The inductive invariant.                                                *)
(***************************************************************************)
NamesTypeOK ==
    /\ declared \in Seq(Declarations)
    /\ \A e \in custom \cup function : e = Entry(e.chat, e.tool)

\* What is noted is a declared tool under one of its names.
NotesAreTrue ==
    \A e \in custom \cup function :
       \E k \in DOMAIN declared : e.chat \in NotedUnder(declared[k]) /\ e.tool = Declared(k)

\* A name that may be offered is never forgotten, and a function's stays its own.
NamesAreNoted ==
    \A k \in DOMAIN declared :
       /\ \A c \in NotedUnder(declared[k]) : Noted(custom, c) # {} \/ Noted(function, c) # {}
       /\ Plain(declared[k]) => Kept(declared[k].name)

OffersAreDeclared ==
    \A o \in offered : o.by \in DOMAIN declared /\ o.chat \in OfferedBy(declared[o.by])

NamesIInv == NamesTypeOK /\ NotesAreTrue /\ NamesAreNoted /\ OffersAreDeclared
=============================================================================
