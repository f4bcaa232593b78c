------------------------------ MODULE TomlText ------------------------------
(***************************************************************************)
(* The edits of config.toml (toml.go, context_config.go, toml_semantic.go, *)
(* repair.go): all of them work on the lines of the text and never parse   *)
(* it, save the merge of duplicates.  A document is a sequence of headers  *)
(* and of lines key = value; comments, blank lines, arrays of tables and   *)
(* values of several lines are left out.                                   *)
(*                                                                         *)
(* The same table can be spelled [a.b], [a."b"] or [a.'b'], and something  *)
(* may follow the bracket; a header that is not spelled the way an edit    *)
(* expects is another table to it, or none.  What a document means in TOML *)
(* is given by MeaningOf and Valid.                                        *)
(***************************************************************************)
EXTENDS Naturals, Sequences, SequencesExt

Spellings == {"bare", "double", "single"}
Table(parts, spelling) == [parts |-> parts, spelling |-> spelling]
Root == Table(<<>>, "bare")

Header(table) == [kind |-> "header", table |-> table, plain |-> TRUE, key |-> "", value |-> ""]
\* A header followed by a comment.
CommentedHeader(table) == [Header(table) EXCEPT !.plain = FALSE]
KeyLine(key, value) ==
    [kind |-> "key", table |-> Root, plain |-> TRUE, key |-> key, value |-> value]

\* isTomlHeader wants the closing bracket at the end of the line; the functions
\* for root keys only look at the first character.
IsTomlHeader(line) == line.kind = "header" /\ line.plain
StartsBracket(line) == line.kind = "header"

\* The lines at the given positions.
PickLines(doc, at) ==
    LET kept == SelectSeq([i \in 1 .. Len(doc) |-> i], LAMBDA i : i \in at)
    IN  [k \in 1 .. Len(kept) |-> doc[kept[k]]]
\* The header above a line, 0 for none.
HeaderAbove(doc, i) == SelectLastInSeq(SubSeq(doc, 1, i), IsTomlHeader)

------------------------------------------------------------------------------
\* What a document means.

OwnerOf(doc, i) == SelectLastInSeq(SubSeq(doc, 1, i), StartsBracket)
PartsAt(doc, i) == IF OwnerOf(doc, i) = 0 THEN <<>> ELSE doc[OwnerOf(doc, i)].table.parts
KeyLines(doc) == {i \in 1 .. Len(doc) : doc[i].kind = "key"}
Entry(parts, key, value) == [table |-> parts, key |-> key, value |-> value]
MeaningOf(doc) == {Entry(PartsAt(doc, i), doc[i].key, doc[i].value) : i \in KeyLines(doc)}
TablesOf(doc) == {doc[i].table.parts : i \in {j \in 1 .. Len(doc) : StartsBracket(doc[j])}}

\* tomlHasDuplicateExpressions
Valid(doc) ==
    /\ \A i, j \in 1 .. Len(doc) :
          StartsBracket(doc[i]) /\ StartsBracket(doc[j]) /\ i # j
              => doc[i].table.parts # doc[j].table.parts
    /\ \A i, j \in KeyLines(doc) :
          i # j /\ doc[i].key = doc[j].key => PartsAt(doc, i) # PartsAt(doc, j)

------------------------------------------------------------------------------
\* Edits of one key.

\* Between the lines first and end (excluded) the first line with the key is
\* replaced; a new line comes last.
UpsertIn(doc, first, end, key, value) ==
    LET at == SelectInSubSeq(doc, first, end - 1, LAMBDA l : l.kind = "key" /\ l.key = key)
    IN  IF at # 0 THEN ReplaceAt(doc, at, KeyLine(key, value))
        ELSE InsertAt(doc, end, KeyLine(key, value))

RootEnd(doc) ==
    LET h == SelectInSeq(doc, StartsBracket) IN IF h = 0 THEN Len(doc) + 1 ELSE h
RootKeyString(doc, key) ==
    LET at == SelectInSubSeq(doc, 1, RootEnd(doc) - 1, LAMBDA l : l.key = key)
    IN  IF at = 0 THEN "" ELSE doc[at].value
UpsertRootKey(doc, key, value) == UpsertIn(doc, 1, RootEnd(doc), key, value)
RemoveRootKey(doc, key) == PickLines(doc, {i \in DOMAIN doc : i >= RootEnd(doc) \/ doc[i].key # key})

TableStart(doc, table) ==
    SelectInSeq(doc, LAMBDA l : IsTomlHeader(l) /\ l.table = table)
BlockEnd(doc, start) ==
    LET h == SelectInSubSeq(doc, start + 1, Len(doc), IsTomlHeader)
    IN  IF h = 0 THEN Len(doc) + 1 ELSE h
HasTable(doc, table) == TableStart(doc, table) # 0
\* tableValues: the value of a key in the first block of a table.
TableValue(doc, table, key) ==
    LET start == TableStart(doc, table)
        at == SelectLastInSubSeq(doc, start + 1, BlockEnd(doc, start) - 1, LAMBDA l : l.key = key)
    IN  IF start = 0 \/ at = 0 THEN "" ELSE doc[at].value
AppendTomlBlock(doc, table, body) == doc \o <<Header(table)>> \o body
UpsertTableKey(doc, table, key, value) ==
    LET start == TableStart(doc, table)
    IN  IF start = 0 THEN AppendTomlBlock(doc, table, <<KeyLine(key, value)>>)
        ELSE UpsertIn(doc, start + 1, BlockEnd(doc, start), key, value)
RemoveTableKey(doc, table, key) ==
    LET start == TableStart(doc, table)
    IN  PickLines(doc, {i \in DOMAIN doc :
            start = 0 \/ i <= start \/ i >= BlockEnd(doc, start) \/ doc[i].key # key})

------------------------------------------------------------------------------
\* Edits of whole tables.

\* removeTomlTablesMatching, extractTomlTables: the block of a header reaches
\* to the next one.
TablesIn(doc) == {doc[i].table : i \in {j \in DOMAIN doc : IsTomlHeader(doc[j])}}
ExtractTables(doc, tables) ==
    PickLines(doc, {i \in DOMAIN doc : HeaderAbove(doc, i) # 0 /\ doc[HeaderAbove(doc, i)].table \in tables})
RemoveTablesMatching(doc, tables) ==
    PickLines(doc, {i \in DOMAIN doc : HeaderAbove(doc, i) = 0 \/ doc[HeaderAbove(doc, i)].table \notin tables})
RemoveTable(doc, table) == RemoveTablesMatching(doc, {table})
UpsertTomlTable(doc, table, body) == AppendTomlBlock(RemoveTable(doc, table), table, body)

\* splitTomlRootAndTables
RootSection(doc) == PickLines(doc, {i \in DOMAIN doc : HeaderAbove(doc, i) = 0})
TableSection(doc) == PickLines(doc, {i \in DOMAIN doc : HeaderAbove(doc, i) # 0})
\* dedupeRootTomlLines
DedupeRootLines(doc) ==
    PickLines(doc, {i \in DOMAIN doc :
        doc[i].kind = "key" => \A j \in 1 .. i - 1 : doc[j].kind # "key" \/ doc[j].key # doc[i].key})

\* mergeDuplicateTomlExpressions and toml.Marshal: tables in some order, the
\* last value of a key.  The library writes a part bare if it can and in single
\* quotes otherwise; the parts in bare are those it can.
MergeDuplicates(doc, bare) ==
    LET last == {i \in KeyLines(doc) : \A j \in KeyLines(doc) :
                    j > i => doc[j].key # doc[i].key \/ PartsAt(doc, j) # PartsAt(doc, i)}
        Under(parts) == SetToSeq({KeyLine(doc[i].key, doc[i].value) :
                            i \in {j \in last : PartsAt(doc, j) = parts}})
        Spelled(parts) ==
            Table(parts, IF \A k \in 2 .. Len(parts) : parts[k] \in bare THEN "bare" ELSE "single")
        Block(parts) == <<Header(Spelled(parts))>> \o Under(parts)
    IN  FoldLeft(LAMBDA out, parts : out \o Block(parts), Under(<<>>), SetToSeq(TablesOf(doc)))
\* normalizeDuplicateTomlDocument
NormalizeDuplicates(doc, bare) == IF Valid(doc) THEN doc ELSE MergeDuplicates(doc, bare)

\* joinConfigSectionsRootFirst of two documents.
JoinRootFirst(doc, other, bare) ==
    NormalizeDuplicates(DedupeRootLines(RootSection(doc) \o RootSection(other))
                            \o TableSection(doc) \o TableSection(other), bare)
=============================================================================
