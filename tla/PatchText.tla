------------------------------ MODULE PatchText ------------------------------
(***************************************************************************)
(* The tool that edits files takes the text of a patch; a Chat Completions *)
(* supplier is offered one function for each kind of edit instead          *)
(* (protocol_tools.go).  A call the supplier makes is turned into a text   *)
(* (reconstructApplyPatchInput), and the texts of the history are turned   *)
(* back into calls (buildCustomToolHistory), so that the supplier sees the *)
(* calls it made.                                                          *)
(*                                                                         *)
(* A line is a mark and what follows it; "bare" has no mark.  Contents are *)
(* split at their newlines: <<"">> is the empty text, and what ends in a   *)
(* newline has "" as last line.                                            *)
(***************************************************************************)
EXTENDS Naturals, Sequences, SequencesExt

CONSTANTS
    PatchLines,    \* lines a patch may have
    MaxPatchLines  \* bound

VARIABLE body      \* the lines between *** Begin Patch and *** End Patch

PatchLine(mark, text) == [mark |-> mark, text |-> text]
BeginPatch == PatchLine("*** Begin Patch", "")
EndPatch == PatchLine("*** End Patch", "")
Starts == {"*** Add File: ", "*** Delete File: ", "*** Update File: "}
Edit(mark) ==
    CASE mark = "*** Add File: " -> "add_file" [] mark = "*** Delete File: " -> "delete_file"
      [] mark = "*** Update File: " -> "update_file"

Hunk(context, lines) == [context |-> context, lines |-> lines]
NoHunk == Hunk("none", <<>>)
Operation(type, path, to, content, hunks) ==
    [type |-> type, path |-> path, to |-> to, content |-> content, hunks |-> hunks]
NoOperation == Operation("none", "", "", <<"">>, <<>>)

------------------------------------------------------------------------------
\* parseApplyPatchOperations: a line at a time.  Lines of an update that come
\* before its first @@ wait for the next hunk, of whatever file.
Reading == [operations |-> <<>>, current |-> NoOperation, content |-> <<>>,
            hunks |-> <<>>, hunk |-> NoHunk, lines |-> <<>>]

\* Mutant of FlushHunk: the lines are not reset.
FlushHunkKeeps(r) ==
    IF r.hunk = NoHunk THEN r
    ELSE [r EXCEPT !.hunks = Append(@, Hunk(r.hunk.context, r.lines)), !.hunk = NoHunk]

FlushHunk(r) ==
    IF r.hunk = NoHunk THEN r
    ELSE [r EXCEPT !.hunks = Append(@, Hunk(r.hunk.context, r.lines)), !.hunk = NoHunk, !.lines = <<>>]
Joined(lines) == IF lines = <<>> THEN <<"">> ELSE lines
FlushOperation(r) ==
    IF r.current = NoOperation THEN r
    ELSE [r EXCEPT
            !.operations = Append(@,
                CASE r.current.type = "add_file" -> [r.current EXCEPT !.content = Joined(r.content)]
                  [] r.current.type = "update_file" -> [r.current EXCEPT !.hunks = r.hunks]
                  [] OTHER -> r.current),
            !.current = NoOperation, !.content = <<>>, !.hunks = <<>>]

ReadLine(r, l) ==
    LET type == r.current.type IN
    CASE l \in {BeginPatch, EndPatch} -> r
      [] l.mark \in Starts ->
            [FlushOperation(FlushHunk(r)) EXCEPT !.current = Operation(Edit(l.mark), l.text, "", <<"">>, <<>>)]
      [] l.mark = "*** Move to: " /\ type # "none" -> [r EXCEPT !.current.to = l.text]
      [] l.mark = "@@" -> [FlushHunk(r) EXCEPT !.hunk = Hunk(l.text, <<>>)]
      [] l.mark = "+" /\ type = "add_file" -> [r EXCEPT !.content = Append(@, l.text)]
      [] type = "update_file" /\ l.mark \in {"+", "-"} -> [r EXCEPT !.lines = Append(@, l)]
      [] type = "update_file" /\ l.mark \in {" ", "bare"} ->
            [r EXCEPT !.lines = Append(@, PatchLine(" ", l.text))]
      [] OTHER -> r
Parse(text) == FlushOperation(FlushHunk(FoldLeft(ReadLine, Reading, text))).operations

------------------------------------------------------------------------------
\* buildApplyPatchText: one newline at the end of a content is not written.
Added(content) ==
    LET lines == IF Len(content) > 1 /\ Last(content) = "" THEN Front(content) ELSE content
    IN  IF content = <<"">> THEN <<>> ELSE [i \in 1 .. Len(lines) |-> PatchLine("+", lines[i])]
Changed(hunks) == FlattenSeq([i \in 1 .. Len(hunks) |-> <<PatchLine("@@", hunks[i].context)>> \o hunks[i].lines])
Written(o) ==
    CASE o.type = "add_file" -> <<PatchLine("*** Add File: ", o.path)>> \o Added(o.content)
      [] o.type = "delete_file" -> <<PatchLine("*** Delete File: ", o.path)>>
      [] o.type = "replace_file" ->
            <<PatchLine("*** Delete File: ", o.path), PatchLine("*** Add File: ", o.path)>> \o Added(o.content)
      [] o.type = "update_file" ->
            <<PatchLine("*** Update File: ", o.path)>>
            \o (IF o.to = "" THEN <<>> ELSE <<PatchLine("*** Move to: ", o.to)>>) \o Changed(o.hunks)
Build(operations) ==
    <<BeginPatch>> \o FlattenSeq([i \in 1 .. Len(operations) |-> Written(operations[i])]) \o <<EndPatch>>

\* patchOperationArguments
Arguments(o) ==
    CASE o.type = "add_file" -> Operation(o.type, o.path, "", o.content, <<>>)
      [] o.type = "update_file" -> Operation(o.type, o.path, o.to, <<"">>, o.hunks)
      [] o.type = "delete_file" -> Operation(o.type, o.path, "", <<"">>, <<>>)

\* buildCustomToolHistory: a call of the function for one edit, or of the one
\* for a batch, which has the text as well.
Call(operations, raw) == [operations |-> operations, raw |-> raw]
History(text) ==
    LET operations == Parse(text)
    IN  IF Len(operations) = 1 THEN Call(<<Arguments(operations[1])>>, <<>>) ELSE Call(operations, text)
\* reconstructApplyPatchInput
Reconstruct(call) == IF call.raw # <<>> THEN call.raw ELSE Build(call.operations)

------------------------------------------------------------------------------
PatchInit == body = <<>>
WriteLine(l) == Len(body) < MaxPatchLines /\ body' = Append(body, l)
PatchNext == \E l \in PatchLines : WriteLine(l)
PatchSpec == PatchInit /\ [][PatchNext]_body
------------------------------------------------------------------------------
\* Each line is where the grammar of patches has it, with the mark of a context
\* line; the last line of a new file is not blank.
WellShaped(lines) ==
    /\ lines # <<>>
    /\ \A i \in 1 .. Len(lines) :
          LET before == IF i = 1 THEN "" ELSE lines[i - 1].mark
              AddEnds == i = Len(lines) \/ lines[i + 1].mark # "+"
              file == SelectLastInSeq(SubSeq(lines, 1, i), LAMBDA l : l.mark \in Starts)
              hunk == SelectLastInSeq(SubSeq(lines, 1, i), LAMBDA l : l.mark = "@@")
              type == IF file = 0 THEN "" ELSE lines[file].mark
          IN  CASE lines[i].mark \in Starts -> TRUE
                [] lines[i].mark = "*** Move to: " -> before = "*** Update File: "
                [] lines[i].mark = "@@" -> type = "*** Update File: "
                [] lines[i].mark = "+" /\ type = "*** Add File: " -> ~AddEnds \/ lines[i].text # ""
                [] lines[i].mark \in {"+", "-", " "} -> type = "*** Update File: " /\ hunk > file
                [] OTHER -> FALSE

\* A well shaped patch that becomes a call in the history becomes the same text
\* again; a call the supplier made is shown to it as the call it made, and the
\* call for the replacement of a file gives a patch that survives; and what a
\* turn makes of the history the next turn makes of it too, whatever the text.
PatchesComeBack ==
    LET text == <<BeginPatch>> \o body \o <<EndPatch>>
        Again(call) == History(Reconstruct(call))
        Replacing(made) == <<[made EXCEPT !.type = "replace_file"]>>
        EndsBlank(o) == Len(o.content) > 1 /\ Last(o.content) = ""
    IN  /\ WellShaped(body) => Reconstruct(History(text)) = text
        /\ \A made \in {Arguments(o) : o \in ToSet(Parse(text))} :
              /\ ~EndsBlank(made) => History(Build(<<made>>)) = Call(<<made>>, <<>>)
              /\ made.type = "add_file" =>
                    Reconstruct(History(Build(Replacing(made)))) = Build(Replacing(made))
        /\ \A call \in {History(text), History(Append(text, PatchLine("bare", "")))} :
              Again(call) = call \/ \E o \in ToSet(call.operations) : EndsBlank(o)
=============================================================================
