--------------------------- MODULE EditAlignment ---------------------------
(***************************************************************************)
(* Steps 1 and 2 of a save (_align_unions of wizard/save.py): which        *)
(* paragraphs an edit touches, and the piece of the current text that      *)
(* replaces each run of them.  The opcodes are difflib's: any sequence in  *)
(* which equal and changed regions alternate.  A character of the saved    *)
(* text is its position; a typed one is a number above them.               *)
(***************************************************************************)
EXTENDS Integers, Sequences, SequencesExt, FiniteSetsExt

CONSTANTS
    MaxSaved,       \* characters of the saved text
    MaxParagraphs,
    MaxTyped        \* characters typed at one place

ASSUME EditBounds == {MaxSaved, MaxParagraphs, MaxTyped} \subseteq Nat

VARIABLES
    borders,    \* where the saved paragraphs end; each begins where the one before
                \* it ends, and their identifiers are 1, 2, ...
    opcodes,    \* [tag, old, oldEnd, new, newEnd]
    unions,     \* [first, last, start, end], or {} before the alignment
    editStage   \* diff, unchanged, aligned or refused

editVars == <<borders, opcodes, unions, editStage>>

Paragraphs == DOMAIN borders
End(p) == borders[p]
Start(p) == IF p = 1 THEN 0 ELSE End(p - 1)
SavedEnd == Last(borders)
OldEnd == IF opcodes = <<>> THEN 0 ELSE Last(opcodes).oldEnd
NewEnd == IF opcodes = <<>> THEN 0 ELSE Last(opcodes).newEnd

\* A document has one empty paragraph, or paragraphs with text.
EditInit ==
    /\ \E n \in 1..MaxParagraphs :
         borders \in {<<0>>} \cup
                     {s \in [1..n -> 1..MaxSaved] : \A p, q \in 1..n : p < q => s[p] < s[q]}
    /\ opcodes = <<>>
    /\ unions = {}
    /\ editStage = "diff"

------------------------------------------------------------------------------
(* The difference: SequenceMatcher(...).get_opcodes().                      *)

AddOpcode(tag, old, new) ==
    /\ editStage = "diff"
    /\ opcodes # <<>> => (Last(opcodes).tag = "equal") # (tag = "equal")
    /\ OldEnd + old <= SavedEnd
    /\ tag = CASE old = 0 -> "insert" [] new = 0 -> "delete"
               [] old = new -> IF tag = "equal" THEN "equal" ELSE "replace"
               [] OTHER -> "replace"
    /\ old + new > 0
    /\ opcodes' = Append(opcodes, [tag |-> tag, old |-> OldEnd, oldEnd |-> OldEnd + old,
                                   new |-> NewEnd, newEnd |-> NewEnd + new])
    /\ UNCHANGED <<borders, unions, editStage>>

\* The two texts, character by character.
OpcodeAt(j) == CHOOSE op \in ToSet(opcodes) : op.new < j /\ j <= op.newEnd
CurrentText ==
    [j \in 1..NewEnd |->
        IF OpcodeAt(j).tag = "equal" THEN OpcodeAt(j).old + (j - OpcodeAt(j).new) ELSE SavedEnd + j]
ParagraphText(p) == [n \in 1..(End(p) - Start(p)) |-> Start(p) + n]

------------------------------------------------------------------------------
(* _align_unions.                                                           *)

Overlapping(start, end) == {p \in Paragraphs : Start(p) < end /\ End(p) > start}

\* An insertion between two paragraphs belongs to both.
AtInsertion(position) ==
    IF position = 0 THEN {1}
    ELSE IF position = SavedEnd THEN {Len(borders)}
    ELSE {p \in Paragraphs : Start(p) <= position /\ position <= End(p)}

Derived ==
    UNION {IF op.old = op.oldEnd THEN AtInsertion(op.old) ELSE Overlapping(op.old, op.oldEnd) :
             op \in {op \in ToSet(opcodes) : op.tag # "equal"}}

Groups(marked) ==
    {g \in marked \X marked : /\ g[1] <= g[2] /\ g[1]..g[2] \subseteq marked
                              /\ g[1] - 1 \notin marked /\ g[2] + 1 \notin marked}

\* Slip: a boundary at an insertion lies after it.
FaultBoundary(op, position) ==
    IF op.tag = "equal" THEN {op.new + (position - op.old)}
    ELSE IF op.old = op.oldEnd THEN {op.newEnd}
    ELSE IF position = op.old THEN {op.new}
    ELSE IF position = op.oldEnd THEN {op.newEnd}
    ELSE {op.new, op.newEnd}

\* Where a boundary of the saved text may lie in the current one.
Boundary(op, position) ==
    CASE op.tag = "equal" -> {op.new + (position - op.old)}
      [] op.tag # "equal" /\ position = op.old /\ op.old # op.oldEnd -> {op.new}
      [] op.tag # "equal" /\ position = op.oldEnd /\ op.old # op.oldEnd -> {op.newEnd}
      [] OTHER -> {op.new, op.newEnd}

BoundaryCandidates(position) ==
    UNION {Boundary(op, position) :
             op \in {op \in ToSet(opcodes) : op.old <= position /\ position <= op.oldEnd}}

UnionOf(group) ==
    [first |-> group[1], last |-> group[2],
     start |-> Min(BoundaryCandidates(Start(group[1]))),
     end |-> Max(BoundaryCandidates(End(group[2])))]
UnionText(u) == SubSeq(CurrentText, u.start + 1, u.end)

\* The union that begins with a paragraph replaces it, one inside a union is left
\* out, and the others keep their text.
Piece(p, us) ==
    IF \E u \in us : u.first = p THEN UnionText(CHOOSE u \in us : u.first = p)
    ELSE IF \E u \in us : u.first < p /\ p <= u.last THEN <<>>
    ELSE ParagraphText(p)
Reconstructed(us) == FlattenSeq([p \in Paragraphs |-> Piece(p, us)])

Align(hinted) ==
    /\ editStage = "diff" /\ OldEnd = SavedEnd
    /\ IF CurrentText = [n \in 1..SavedEnd |-> n]
       THEN editStage' = "unchanged" /\ UNCHANGED unions
       ELSE LET us == {UnionOf(g) : g \in Groups(Derived \cup hinted)}
            IN /\ unions' = us
               /\ editStage' = IF /\ us # {}
                                  /\ \A u \in us : u.start <= u.end
                                  /\ Reconstructed(us) = CurrentText
                               THEN "aligned" ELSE "refused"
    /\ UNCHANGED <<borders, opcodes>>

EditNext ==
    \/ \E k \in 1..MaxSaved : AddOpcode("equal", k, k)
    \/ \E tag \in {"replace", "delete", "insert"}, old \in 0..MaxSaved, new \in 0..MaxTyped :
         AddOpcode(tag, old, new)
    \/ \E hinted \in SUBSET Paragraphs : Align(hinted)

EditSpec == EditInit /\ [][EditNext]_editVars

------------------------------------------------------------------------------
(* Properties.                                                              *)

\* Whatever is edited and hinted, the alignment succeeds, and a union takes no
\* character that was saved in a paragraph outside it (save.py:159-245): a save is
\* never refused for its alignment, and what it replaces is what was edited.
AlignmentExact ==
    /\ editStage # "refused"
    /\ \A u \in unions : \A c \in ToSet(UnionText(u)) :
         c <= SavedEnd => Start(u.first) < c /\ c <= End(u.last)
=============================================================================
