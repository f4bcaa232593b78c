--------------------------- MODULE RemoveObjectKey ---------------------------
(***************************************************************************)
(* removeConversationHistoryObjectKey (conversation_history_repair.go)     *)
(* takes a key out of the text of a JSON object without parsing and        *)
(* printing the rest of it: all other bytes of a record stay as they were. *)
(*                                                                         *)
(* A text is a sequence of tokens: punctuation, blanks, keys and scalars.  *)
(* encoding/json has accepted the record before, so the text is that of an *)
(* object, whose members and blanks ObjectInit chooses.                    *)
(***************************************************************************)
EXTENDS Naturals, FiniteSets, Sequences, SequencesExt

CONSTANTS
    MemberNames, Key,     \* the names of members; the one to remove
    Values,        \* the texts of values, without blanks
    MaxMembers     \* bound

ASSUME ObjectAssumption ==
    /\ Key \in MemberNames
    /\ MemberNames \cap {"{", "}", "[", "]", ",", ":", " "} = {}
    /\ MaxMembers \in Nat

VARIABLES
    object,    \* the members of the original
    text,
    removed    \* how many members were removed

objectVars == <<object, text, removed>>

-----------------------------------------------------------------------------
\* The texts of an object: blanks before keys, before values and after them.

Layouts == [key : BOOLEAN, value : BOOLEAN, after : BOOLEAN]

BlankIf(yes) == IF yes THEN <<" ">> ELSE <<>>

MemberText(member, layout) ==
    BlankIf(layout.key) \o <<member.key>> \o <<":">>
        \o BlankIf(layout.value) \o member.value \o BlankIf(layout.after)

RECURSIVE MembersText(_, _)
MembersText(members, layout) ==
    IF members = <<>> THEN <<>>
    ELSE MemberText(Head(members), layout)
           \o (IF Len(members) = 1 THEN <<>> ELSE <<",">>)
           \o MembersText(Tail(members), layout)

Text(members, layout) == <<"{">> \o MembersText(members, layout) \o <<"}">>

-----------------------------------------------------------------------------
\* parseConversationHistoryObjectMembers.

NotBlank(tok) == tok # " "

Openers == {"{", "["}
Closers == {"}", "]"}

Least(S) == CHOOSE i \in S : \A j \in S : i <= j
Greatest(S) == CHOOSE i \in S : \A j \in S : i >= j

Depth(t, i) ==
    Cardinality({k \in 1 .. i : t[k] \in Openers})
        - Cardinality({k \in 1 .. i : t[k] \in Closers})

\* The commas between members: those in no container but the object.
Commas(t) == {i \in DOMAIN t : t[i] = "," /\ Depth(t, i) = 1}

\* The member between two neighbours of the bounds: where its key starts, the
\* position after its value, the commas before and after it (0: none).
MemberBetween(t, from, to) ==
    LET inked == {i \in from + 1 .. to - 1 : NotBlank(t[i])}
    IN  [key |-> t[Least(inked)], start |-> Least(inked), end |-> Greatest(inked) + 1,
         prevComma  |-> IF t[from] = "," THEN from ELSE 0,
         commaAfter |-> IF t[to] = "," THEN to ELSE 0]

\* The members of the object, as a set: their positions order them.
Members(t) ==
    LET bounds == Commas(t) \cup {1, Len(t)}
        NextBound(i) == Least({j \in bounds : j > i})
    IN  IF \A i \in 2 .. Len(t) - 1 : t[i] = " " THEN {}
        ELSE {MemberBetween(t, i, NextBound(i)) : i \in bounds \ {Len(t)}}

-----------------------------------------------------------------------------
\* Mutant of Cut: the comma after the member goes, even for the last one.
CutForward(t, m) ==
    SubSeq(t, 1, m.start - 1)
        \o SubSeq(t, (IF m.commaAfter # 0 THEN m.commaAfter + 1 ELSE m.end), Len(t))

\* The text without member m and the comma before it, or the one after the
\* first member.
Cut(t, m) ==
    LET start == IF m.prevComma # 0 THEN m.prevComma ELSE m.start
        end   == IF m.prevComma = 0 /\ m.commaAfter # 0 THEN m.commaAfter + 1 ELSE m.end
    IN  SubSeq(t, 1, start - 1) \o SubSeq(t, end, Len(t))

ObjectInit ==
    /\ object \in BoundedSeq([key : MemberNames, value : Values], MaxMembers)
    /\ \E layout \in Layouts : text = Text(object, layout)
    /\ removed = 0

Matches(t) == {m \in Members(t) : m.key = Key}

\* One round of the loop: the text is parsed again and the first match cut.
RemoveMatch ==
    /\ \E m \in Matches(text) :
          /\ \A other \in Matches(text) : m.start <= other.start
          /\ text' = Cut(text, m)
    /\ removed' = removed + 1
    /\ UNCHANGED object

ObjectNext == RemoveMatch

ObjectSpec == ObjectInit /\ [][ObjectNext]_objectVars

-----------------------------------------------------------------------------
\* Properties.

Tight == [key |-> FALSE, value |-> FALSE, after |-> FALSE]
IsOther(member) == member.key # Key

\* Blanks aside, the text is always that of the original object without the
\* matches removed so far: it stays JSON, the other members keep their order
\* and their values, nested members of the same name included.
OnlyMatchesGo ==
    LET NthMatch(n) ==
            object[n].key = Key
            /\ Cardinality({k \in 1 .. n : object[k].key = Key}) <= removed
        kept == SelectSeq([n \in DOMAIN object |-> <<NthMatch(n), object[n]>>],
                          LAMBDA entry : ~entry[1])
    IN  SelectSeq(text, NotBlank) = Text([n \in DOMAIN kept |-> kept[n][2]], Tight)

\* Exactly the members with the key go, however many there are: nothing else at
\* any time, and all of them when the loop finds no further match.
ExactlyMatchesGo ==
    /\ OnlyMatchesGo
    /\ Matches(text) = {} => SelectSeq(text, NotBlank) = Text(SelectSeq(object, IsOther), Tight)
=============================================================================
