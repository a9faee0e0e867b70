----------------------------- MODULE RagProofs -----------------------------
(***************************************************************************)
(* What the backend computes from texts, objects and scores of any number. *)
(* A save aligns every edit to the saved paragraphs (EditAlignment); a     *)
(* paragraph is cut into sound chunks (TextChunks); a retrieval keeps      *)
(* exactly what may be used, ranks it, cuts where the scores fall, and     *)
(* answers with what the second read confirms, as much as fits             *)
(* (Retrieval).                                                            *)
(*                                                                         *)
(* Retrieval's operators are read from the inside out: AtPlaces, the two   *)
(* loops of the quarantine, Ranked, Collapse, Eligible, AdaptiveK,         *)
(* WithinBudget and Mmr each have a lemma that says what they return.      *)
(* RetInv collects what each stage of a call leaves to the next.           *)
(***************************************************************************)
EXTENDS EditAlignment, TextChunks, Retrieval, SequenceLemmas

---------------------------------------------------------------------------
(* EditAlignment: the paragraphs that an edit touches *)

\* Each opcode's region of the saved text and of the current one.
Count == Len(opcodes)
Old(n) == opcodes[n].old
OldTo(n) == opcodes[n].oldEnd
New(n) == opcodes[n].new
NewTo(n) == opcodes[n].newEnd
Same(n) == opcodes[n].tag = "equal"
Parts == Len(borders)

Tags == {"equal", "replace", "delete", "insert"}
Opcode == [tag : Tags, old : Nat, oldEnd : Nat, new : Nat, newEnd : Nat]

\* A document has text in every paragraph, or is one empty paragraph.
BordersInv ==
    /\ borders \in Seq(Nat) /\ borders # <<>>
    /\ borders = <<0>> \/ \A p \in 1..Parts : borders[p] > 0
    /\ \A p, q \in 1..Parts : p < q => borders[p] < borders[q]

\* The regions are in order and cover both texts, and no two equal ones meet.
OpcodesInv ==
    /\ opcodes \in Seq(Opcode)
    /\ \A n \in 1..Count :
         /\ Old(n) <= OldTo(n) /\ New(n) <= NewTo(n) /\ OldTo(n) <= OldEnd /\ NewTo(n) <= NewEnd
         /\ Same(n) => Old(n) < OldTo(n) /\ OldTo(n) - Old(n) = NewTo(n) - New(n)
         /\ Old(n) < OldTo(n) \/ New(n) < NewTo(n)
    /\ \A m, n \in 1..Count : m < n => OldTo(m) <= Old(n) /\ NewTo(m) <= New(n)
    /\ \A n \in 1..(Count - 1) :
         Old(n + 1) = OldTo(n) /\ New(n + 1) = NewTo(n) /\ (Same(n) <=> ~ Same(n + 1))
    /\ opcodes # <<>> => Old(1) = 0 /\ New(1) = 0
    /\ \A x \in 1..OldEnd : \E n \in 1..Count : Old(n) < x /\ x <= OldTo(n)
    /\ \A y \in 1..NewEnd : \E n \in 1..Count : New(n) < y /\ y <= NewTo(n)
    /\ OldEnd <= SavedEnd

\* A union takes no character that was saved in a paragraph outside it.
UnionExact(u) ==
    \A c \in ToSet(UnionText(u)) : c <= SavedEnd => Start(u.first) < c /\ c <= End(u.last)

EditInv ==
    /\ BordersInv /\ OpcodesInv
    /\ editStage \in {"diff", "unchanged", "aligned"}
    /\ \A u \in unions : UnionExact(u)
    /\ editStage = "diff" => unions = {}

\* The constants are numbers.
LEMMA EditLimits == MaxSaved \in Nat /\ MaxParagraphs \in Nat /\ MaxTyped \in Nat
BY EditBounds

\* What the invariant says of the paragraphs, one after another.
LEMMA Paragraphed ==
  ASSUME EditInv
  PROVE  /\ Parts \in Nat \ {0} /\ Paragraphs = 1..Parts /\ SavedEnd \in Nat
         /\ \A p \in 1..Parts : /\ End(p) \in Nat /\ Start(p) \in Nat /\ Start(p) <= End(p)
                                /\ (SavedEnd > 0 => Start(p) < End(p)) /\ End(p) <= SavedEnd
         /\ Start(1) = 0 /\ End(Parts) = SavedEnd
         /\ \A p \in 2..Parts : Start(p) = End(p - 1) /\ 0 < Start(p) /\ Start(p) < SavedEnd
         /\ \A p \in 1..(Parts - 1) : Start(p + 1) = End(p) /\ End(p) < SavedEnd
         /\ \A p, q \in 1..Parts : p < q => End(p) <= Start(q)
<1>1. borders \in Seq(Nat) /\ Parts \in Nat \ {0} /\ Paragraphs = 1..Parts
  BY DEF EditInv, BordersInv, Parts, Paragraphs
<1>2. \A p \in 1..Parts : End(p) = borders[p] /\ End(p) \in Nat
  BY <1>1 DEF Parts, End
<1>3. SavedEnd = End(Parts) /\ SavedEnd \in Nat
  <2>1. Parts \in 1..Parts
    BY <1>1
  <2> QED
    BY <1>2, <2>1 DEF SavedEnd, Last, Parts, End
<1>4. \A p, q \in 1..Parts : p < q => End(p) < End(q)
  BY <1>2 DEF EditInv, BordersInv
<1>5. Start(1) = 0 /\ \A p \in 2..Parts : Start(p) = End(p - 1) /\ p - 1 \in 1..Parts
  BY <1>1 DEF Start
<1>6. \A p \in 1..(Parts - 1) : p + 1 \in 2..Parts /\ p \in 1..Parts /\ (p + 1) - 1 = p
  BY <1>1
<1>7. \A p \in 1..Parts : End(p) <= SavedEnd
  <2>1. TAKE p \in 1..Parts
  <2>2. p = Parts \/ p < Parts
    BY <1>1
  <2>3. Parts \in 1..Parts
    BY <1>1
  <2> QED
    BY <1>2, <1>3, <1>4, <2>2, <2>3
<1>8. (\A p \in 1..Parts : End(p) > 0) \/ (Parts = 1 /\ SavedEnd = 0)
  <2>1. CASE borders = <<0>>
    <3>1. Parts = 1 /\ borders[1] = 0
      BY <2>1 DEF Parts
    <3> QED
      BY <1>3, <3>1 DEF End
  <2>2. CASE \A p \in 1..Parts : borders[p] > 0
    BY <1>2, <2>2
  <2> QED
    BY <2>1, <2>2 DEF EditInv, BordersInv
<1>9. ASSUME NEW p \in 1..Parts
      PROVE  Start(p) \in Nat /\ Start(p) <= End(p) /\ (SavedEnd > 0 => Start(p) < End(p))
  <2>1. CASE p = 1
    BY <1>1, <1>2, <1>5, <1>8, <2>1
  <2>2. CASE p # 1
    <3>1. p \in 2..Parts /\ p - 1 < p
      BY <1>1, <2>2
    <3> QED
      BY <1>2, <1>4, <1>5, <3>1
  <2> QED
    BY <2>1, <2>2
<1>10. ASSUME NEW p \in 2..Parts
       PROVE  0 < Start(p) /\ Start(p) < SavedEnd
  <2>1. p \in 1..Parts /\ p - 1 \in 1..Parts /\ p - 1 < p /\ Parts # 1
    BY <1>1
  <2> QED
    BY <1>2, <1>4, <1>5, <1>7, <1>8, <1>3, <2>1
<1>11. ASSUME NEW p \in 1..(Parts - 1)
       PROVE  Start(p + 1) = End(p) /\ End(p) < SavedEnd
  BY <1>5, <1>6, <1>10
<1>12. ASSUME NEW p \in 1..Parts, NEW q \in 1..Parts, p < q
       PROVE  End(p) <= Start(q)
  <2>1. q \in 2..Parts /\ (p = q - 1 \/ p < q - 1)
    BY <1>1, <1>12
  <2> QED
    BY <1>2, <1>4, <1>5, <2>1
<1> QED
  BY <1>1, <1>2, <1>3, <1>5, <1>7, <1>9, <1>10, <1>11, <1>12

\* What the invariant says of the opcodes, one after another.
LEMMA Opcoded ==
  ASSUME EditInv
  PROVE  /\ Count \in Nat /\ OldEnd \in Nat /\ NewEnd \in Nat /\ DOMAIN opcodes = 1..Count
         /\ \A n \in 1..Count :
              /\ Old(n) \in Nat /\ OldTo(n) \in Nat /\ New(n) \in Nat /\ NewTo(n) \in Nat
              /\ opcodes[n] \in Opcode
         /\ (opcodes = <<>>) = (Count = 0)
         /\ opcodes = <<>> => OldEnd = 0 /\ NewEnd = 0
         /\ Count # 0 => OldEnd = OldTo(Count) /\ NewEnd = NewTo(Count)
<1>1. opcodes \in Seq(Opcode)
  BY DEF EditInv, OpcodesInv
<1>2. Count \in Nat /\ DOMAIN opcodes = 1..Count /\ \A n \in 1..Count : opcodes[n] \in Opcode
  BY <1>1 DEF Count
<1>3. \A n \in 1..Count : Old(n) \in Nat /\ OldTo(n) \in Nat /\ New(n) \in Nat /\ NewTo(n) \in Nat
  BY <1>2 DEF Old, OldTo, New, NewTo, Opcode
<1>4. (opcodes = <<>>) = (Count = 0)
  BY <1>1 DEF Count
<1>5. opcodes = <<>> => OldEnd = 0 /\ NewEnd = 0
  BY DEF OldEnd, NewEnd
<1>6. Count # 0 => OldEnd = OldTo(Count) /\ NewEnd = NewTo(Count) /\ Count \in 1..Count
  BY <1>2, <1>4 DEF OldEnd, NewEnd, OldTo, NewTo, Last, Count
<1> QED
  BY <1>2, <1>3, <1>4, <1>5, <1>6

\* Before the difference there is nothing to say of it.
LEMMA NoOpcodes ==
  ASSUME BordersInv, opcodes = <<>>, unions = {}, editStage = "diff"
  PROVE  EditInv
<1>1. Count = 0 /\ OldEnd = 0 /\ NewEnd = 0
  BY DEF Count, OldEnd, NewEnd
<1>2. SavedEnd \in Nat
  <2>1. borders \in Seq(Nat) /\ Len(borders) \in 1..Len(borders)
    BY DEF BordersInv
  <2> QED
    BY <2>1 DEF SavedEnd, Last
<1>3. OpcodesInv
  BY <1>1, <1>2 DEF OpcodesInv
<1> QED
  BY <1>3 DEF EditInv

\* A document that is one empty paragraph.
LEMMA EmptyDocument == borders = <<0>> => BordersInv
<1> HAVE borders = <<0>>
<1>1. borders \in Seq(Nat) /\ borders # <<>> /\ Parts = 1
  BY DEF Parts
<1> QED
  BY <1>1 DEF BordersInv

\* The paragraphs of a document are in order.
LEMMA EditStarts == EditInit => EditInv
<1> SUFFICES ASSUME EditInit PROVE EditInv
  OBVIOUS
<1>1. PICK n \in 1..MaxParagraphs :
        \/ borders = <<0>>
        \/ borders \in [1..n -> 1..MaxSaved] /\ \A p, q \in 1..n : p < q => borders[p] < borders[q]
  BY DEF EditInit
<1>2. n \in Nat \ {0} /\ MaxSaved \in Nat
  BY EditLimits
<1>3. BordersInv
  <2>1. CASE borders = <<0>>
    BY <2>1, EmptyDocument
  <2>2. CASE borders \in [1..n -> 1..MaxSaved] /\ \A p, q \in 1..n : p < q => borders[p] < borders[q]
    <3>1. borders \in Seq(Nat) /\ Parts = n
      BY <1>2, <2>2 DEF Parts
    <3>2. borders # <<>>
      BY <1>2, <3>1 DEF Parts
    <3>3. \A p \in 1..Parts : borders[p] > 0
      BY <1>2, <2>2, <3>1
    <3> QED
      BY <2>2, <3>1, <3>2, <3>3 DEF BordersInv
  <2> QED
    BY <1>1, <2>1, <2>2
<1> QED
  BY <1>3, NoOpcodes DEF EditInit

\* One more opcode.
LEMMA OpcodeAdded ==
  ASSUME EditInv, NEW tag, NEW old \in Nat, NEW new \in Nat, AddOpcode(tag, old, new)
  PROVE  EditInv'
<1> DEFINE op == [tag |-> tag, old |-> OldEnd, oldEnd |-> OldEnd + old,
                  new |-> NewEnd, newEnd |-> NewEnd + new]
<1>1. /\ UNCHANGED <<borders, unions, editStage>> /\ editStage = "diff" /\ unions = {}
      /\ opcodes' = Append(opcodes, op) /\ OldEnd + old <= SavedEnd /\ old + new > 0
      /\ opcodes # <<>> => (Last(opcodes).tag = "equal") # (tag = "equal")
  BY DEF AddOpcode, EditInv
<1>2. tag \in Tags /\ (tag = "equal" => old = new /\ old > 0)
  BY DEF AddOpcode, Tags
<1>3. OldEnd \in Nat /\ NewEnd \in Nat /\ Count \in Nat /\ opcodes \in Seq(Opcode)
  BY Opcoded DEF EditInv, OpcodesInv
<1>4. op \in Opcode
  BY <1>2, <1>3 DEF Opcode
<1>5. PICK o : o = op
  OBVIOUS
<1>6. /\ o.tag = tag /\ o.old = OldEnd /\ o.oldEnd = OldEnd + old
      /\ o.new = NewEnd /\ o.newEnd = NewEnd + new /\ o \in Opcode
      /\ opcodes' = Append(opcodes, o)
  BY <1>1, <1>4, <1>5
<1> HIDE DEF op
<1>7. PICK k \in Nat : k = Count
  BY <1>3
<1>8. /\ opcodes' \in Seq(Opcode) /\ opcodes' # <<>> /\ Count' = k + 1
      /\ \A n \in 1..k : opcodes'[n] = opcodes[n]
      /\ opcodes'[k + 1] = o
  BY <1>3, <1>6, <1>7, Appended DEF Count
<1>9. /\ \A n \in 1..k : /\ Old(n)' = Old(n) /\ OldTo(n)' = OldTo(n) /\ New(n)' = New(n)
                         /\ NewTo(n)' = NewTo(n) /\ (Same(n)' <=> Same(n))
      /\ Old(k + 1)' = OldEnd /\ OldTo(k + 1)' = OldEnd + old
      /\ New(k + 1)' = NewEnd /\ NewTo(k + 1)' = NewEnd + new
      /\ (Same(k + 1)' <=> tag = "equal")
  BY <1>6, <1>8 DEF Old, OldTo, New, NewTo, Same
<1>10. OldEnd' = OldEnd + old /\ NewEnd' = NewEnd + new /\ SavedEnd' = SavedEnd
  <2>1. OldEnd' = opcodes'[k + 1].oldEnd /\ NewEnd' = opcodes'[k + 1].newEnd
    BY <1>8 DEF OldEnd, NewEnd, Last, Count
  <2> QED
    BY <1>1, <1>6, <1>8, <2>1 DEF SavedEnd
<1>11. BordersInv'
  BY <1>1 DEF EditInv, BordersInv, Parts
<1>12. /\ \A n \in 1..k : /\ Old(n) \in Nat /\ OldTo(n) \in Nat /\ New(n) \in Nat /\ NewTo(n) \in Nat
                          /\ Old(n) <= OldTo(n) /\ New(n) <= NewTo(n) /\ OldTo(n) <= OldEnd /\ NewTo(n) <= NewEnd
                          /\ (Same(n) => Old(n) < OldTo(n) /\ OldTo(n) - Old(n) = NewTo(n) - New(n))
                          /\ (Old(n) < OldTo(n) \/ New(n) < NewTo(n))
       /\ \A m, n \in 1..k : m < n => OldTo(m) <= Old(n) /\ NewTo(m) <= New(n)
       /\ \A n \in 1..(k - 1) : Old(n + 1) = OldTo(n) /\ New(n + 1) = NewTo(n) /\ (Same(n) <=> ~ Same(n + 1))
       /\ k # 0 => Old(1) = 0 /\ New(1) = 0 /\ OldEnd = OldTo(k) /\ NewEnd = NewTo(k)
       /\ k = 0 => OldEnd = 0 /\ NewEnd = 0
       /\ \A x \in 1..OldEnd : \E n \in 1..k : Old(n) < x /\ x <= OldTo(n)
       /\ \A y \in 1..NewEnd : \E n \in 1..k : New(n) < y /\ y <= NewTo(n)
  BY <1>7, Opcoded DEF EditInv, OpcodesInv
<1>13. \A n \in 1..(k + 1) : n \in 1..k \/ n = k + 1
  BY <1>7
<1>14. OpcodesInv'
  <2>1. ASSUME NEW n \in 1..(k + 1)
        PROVE  /\ Old(n)' <= OldTo(n)' /\ New(n)' <= NewTo(n)' /\ OldTo(n)' <= OldEnd' /\ NewTo(n)' <= NewEnd'
               /\ Same(n)' => Old(n)' < OldTo(n)' /\ OldTo(n)' - Old(n)' = NewTo(n)' - New(n)'
               /\ Old(n)' < OldTo(n)' \/ New(n)' < NewTo(n)'
    <3>1. CASE n \in 1..k
      <4>1. OldTo(n) <= OldEnd' /\ NewTo(n) <= NewEnd'
        <5>1. OldTo(n) \in Nat /\ NewTo(n) \in Nat /\ OldTo(n) <= OldEnd /\ NewTo(n) <= NewEnd
          BY <1>12, <3>1
        <5> QED
          BY <1>3, <1>10, <5>1
      <4> QED
        BY <1>9, <1>12, <3>1, <4>1
    <3>2. CASE n = k + 1
      BY <1>1, <1>2, <1>3, <1>9, <1>10, <3>2
    <3> QED
      BY <1>13, <3>1, <3>2
  <2>2. ASSUME NEW m \in 1..(k + 1), NEW n \in 1..(k + 1), m < n
        PROVE  OldTo(m)' <= Old(n)' /\ NewTo(m)' <= New(n)'
    <3>1. m \in 1..k
      BY <1>7, <2>2
    <3>2. CASE n \in 1..k
      BY <1>9, <1>12, <2>2, <3>1, <3>2
    <3>3. CASE n = k + 1
      BY <1>9, <1>12, <3>1, <3>3
    <3> QED
      BY <1>13, <3>2, <3>3
  <2>3. ASSUME NEW n \in 1..k
        PROVE  Old(n + 1)' = OldTo(n)' /\ New(n + 1)' = NewTo(n)' /\ (Same(n)' <=> ~ Same(n + 1)')
    <3>1. CASE n \in 1..(k - 1)
      <4>1. n + 1 \in 1..k
        BY <1>7, <3>1
      <4> QED
        BY <1>9, <1>12, <3>1, <4>1
    <3>2. CASE n = k
      <4>1. k # 0 /\ opcodes # <<>> /\ Last(opcodes) = opcodes[k]
        BY <1>3, <1>7, <3>2 DEF Last, Count
      <4>2. Same(k) <=> ~(tag = "equal")
        BY <1>1, <4>1 DEF Same
      <4> QED
        BY <1>9, <1>12, <3>2, <4>1, <4>2
    <3> QED
      BY <1>7, <3>1, <3>2
  <2>4. Old(1)' = 0 /\ New(1)' = 0
    <3>1. CASE k = 0
      BY <1>9, <1>12, <3>1
    <3>2. CASE k # 0
      <4>1. 1 \in 1..k
        BY <1>7, <3>2
      <4> QED
        BY <1>9, <1>12, <3>2, <4>1
    <3> QED
      BY <3>1, <3>2
  <2>5. ASSUME NEW x \in 1..(OldEnd + old)
        PROVE  \E n \in 1..(k + 1) : Old(n)' < x /\ x <= OldTo(n)'
    <3>1. CASE x <= OldEnd
      <4>1. x \in 1..OldEnd
        BY <1>3, <2>5, <3>1
      <4>2. PICK n \in 1..k : Old(n) < x /\ x <= OldTo(n)
        BY <1>12, <4>1
      <4> QED
        BY <1>7, <1>9, <4>2
    <3>2. CASE x > OldEnd
      BY <1>7, <1>9, <3>2
    <3> QED
      BY <1>3, <3>1, <3>2
  <2>6. ASSUME NEW y \in 1..(NewEnd + new)
        PROVE  \E n \in 1..(k + 1) : New(n)' < y /\ y <= NewTo(n)'
    <3>1. CASE y <= NewEnd
      <4>1. y \in 1..NewEnd
        BY <1>3, <2>6, <3>1
      <4>2. PICK n \in 1..k : New(n) < y /\ y <= NewTo(n)
        BY <1>12, <4>1
      <4> QED
        BY <1>7, <1>9, <4>2
    <3>2. CASE y > NewEnd
      BY <1>7, <1>9, <3>2
    <3> QED
      BY <1>3, <3>1, <3>2
  <2>7. OldEnd' <= SavedEnd' /\ Count' - 1 = k
    BY <1>1, <1>7, <1>8, <1>10
  <2> QED
    BY <1>8, <1>10, <2>1, <2>2, <2>3, <2>4, <2>5, <2>6, <2>7 DEF OpcodesInv
<1> QED
  BY <1>1, <1>11, <1>14 DEF EditInv
\* The opcodes, at an edge or next to each other.
LEMMA OpcodeOrder ==
  ASSUME EditInv
  PROVE  /\ \A n \in 1..Count :
              /\ Old(n) <= OldTo(n) /\ New(n) <= NewTo(n) /\ OldTo(n) <= OldEnd /\ NewTo(n) <= NewEnd
              /\ (Same(n) => Old(n) < OldTo(n) /\ OldTo(n) - Old(n) = NewTo(n) - New(n))
              /\ (Old(n) < OldTo(n) \/ New(n) < NewTo(n))
         /\ \A m, n \in 1..Count : m < n => OldTo(m) <= Old(n) /\ NewTo(m) <= New(n)
         /\ \A n \in 1..(Count - 1) :
              n + 1 \in 1..Count /\ Old(n + 1) = OldTo(n) /\ New(n + 1) = NewTo(n) /\ (Same(n) <=> ~ Same(n + 1))
         /\ Count # 0 => Old(1) = 0 /\ New(1) = 0
         /\ \A x \in 1..OldEnd : \E n \in 1..Count : Old(n) < x /\ x <= OldTo(n)
         /\ \A y \in 1..NewEnd : \E n \in 1..Count : New(n) < y /\ y <= NewTo(n)
         /\ OldEnd <= SavedEnd
<1>1. Count \in Nat /\ (opcodes = <<>>) = (Count = 0)
  BY Opcoded
<1>2. \A n \in 1..(Count - 1) : n + 1 \in 1..Count
  BY <1>1
<1> QED
  BY <1>1, <1>2 DEF EditInv, OpcodesInv

\* What the regions that are not equal touch: what they overlap and, at an
\* insertion, the paragraphs on both sides.
LEMMA DerivedTouches ==
  ASSUME EditInv
  PROVE  /\ Derived \subseteq 1..Parts
         /\ \A n \in 1..Count, p \in 1..Parts :
              ~ Same(n) /\ Old(n) < OldTo(n) /\ Start(p) < OldTo(n) /\ End(p) > Old(n) => p \in Derived
         /\ \A n \in 1..Count, p \in 1..Parts :
              ~ Same(n) /\ Old(n) = OldTo(n) /\ Start(p) <= Old(n) /\ Old(n) <= End(p) => p \in Derived
<1>1. Derived = UNION {IF op.old = op.oldEnd THEN AtInsertion(op.old) ELSE Overlapping(op.old, op.oldEnd) :
                         op \in {op \in ToSet(opcodes) : op.tag # "equal"}}
  BY DEF Derived
<1>2. ToSet(opcodes) = {opcodes[n] : n \in 1..Count}
  BY Opcoded DEF ToSet
<1>3. Parts \in 1..Parts /\ 1 \in 1..Parts /\ Paragraphs = 1..Parts
  BY Paragraphed
<1>4. \A x : AtInsertion(x) \subseteq 1..Parts
  BY <1>3 DEF AtInsertion, Parts
<1>5. \A x, y : Overlapping(x, y) \subseteq 1..Parts
  BY <1>3 DEF Overlapping
<1>6. ASSUME NEW n \in 1..Count, NEW p, ~ Same(n),
             p \in IF Old(n) = OldTo(n) THEN AtInsertion(Old(n)) ELSE Overlapping(Old(n), OldTo(n))
      PROVE  p \in Derived
  <2>1. opcodes[n] \in {op \in ToSet(opcodes) : op.tag # "equal"}
    BY <1>2, <1>6 DEF Same
  <2> QED
    BY <1>1, <1>6, <2>1, Zenon DEF Old, OldTo
<1>7. ASSUME NEW n \in 1..Count, NEW p \in 1..Parts,
             ~ Same(n), Old(n) < OldTo(n), Start(p) < OldTo(n), End(p) > Old(n)
      PROVE  p \in Derived
  <2>1. Old(n) # OldTo(n)
    BY <1>7, Opcoded
  <2>2. p \in Overlapping(Old(n), OldTo(n))
    BY <1>3, <1>7 DEF Overlapping
  <2> QED
    BY <1>6, <1>7, <2>1, <2>2
<1>8. ASSUME NEW n \in 1..Count, NEW p \in 1..Parts,
             ~ Same(n), Old(n) = OldTo(n), Start(p) <= Old(n), Old(n) <= End(p)
      PROVE  p \in Derived
  <2>1. PICK x \in Nat : x = Old(n)
    BY Opcoded
  <2>2. Start(p) <= x /\ x <= End(p) /\ Start(p) \in Nat /\ End(p) \in Nat /\ Parts \in Nat
    BY <1>8, <2>1, Paragraphed
  <2>3. x = 0 => p = 1
    <3>1. p # 1 => p \in 2..Parts
      BY <2>2
    <3>2. p # 1 => 0 < Start(p)
      BY <3>1, Paragraphed
    <3> QED
      BY <2>2, <3>2
  <2>4. x = SavedEnd => p = Parts
    <3>1. p # Parts => p \in 1..(Parts - 1)
      BY <2>2
    <3>2. p # Parts => End(p) < SavedEnd
      BY <3>1, Paragraphed
    <3> QED
      BY <2>1, <2>2, <3>2, Paragraphed
  <2>5. p \in AtInsertion(x)
    BY <1>3, <2>2, <2>3, <2>4 DEF AtInsertion, Parts
  <2> QED
    BY <1>6, <1>8, <2>1, <2>5
<1>9. Derived \subseteq 1..Parts
  BY <1>1, <1>4, <1>5
<1> QED
  BY <1>7, <1>8, <1>9

\* The equal region that a paragraph lies in.
IsHome(n, p) == Same(n) /\ Old(n) <= Start(p) /\ End(p) <= OldTo(n)
Home(p) == CHOOSE n \in 1..Count : IsHome(n, p)

\* A paragraph that no region touches has text and lies in an equal one.
LEMMA HomeFound ==
  ASSUME EditInv, OldEnd = SavedEnd, opcodes # <<>>, NEW p \in 1..Parts, p \notin Derived
  PROVE  /\ Home(p) \in 1..Count /\ IsHome(Home(p), p)
         /\ Start(p) < End(p) /\ SavedEnd > 0
<1>1. Count \in Nat \ {0} /\ 1 \in 1..Count
  BY Opcoded
<1>2. SavedEnd > 0
  <2>1. SUFFICES ASSUME SavedEnd = 0 PROVE FALSE
    BY Paragraphed
  <2>2. OldTo(1) = 0 /\ Old(1) = 0
    BY <1>1, <2>1, Opcoded, OpcodeOrder
  <2>3. ~ Same(1)
    BY <1>1, <2>2, OpcodeOrder
  <2>4. Start(p) <= 0 /\ 0 <= End(p)
    <3>1. Start(p) \in Nat /\ End(p) \in Nat /\ Start(p) <= End(p) /\ End(p) <= SavedEnd
      BY Paragraphed
    <3> QED
      BY <2>1, <3>1
  <2> QED
    BY <1>1, <2>2, <2>3, <2>4, DerivedTouches
<1>3. /\ Start(p) \in Nat /\ End(p) \in Nat /\ Start(p) < End(p) /\ End(p) <= SavedEnd
      /\ OldEnd \in Nat
  BY <1>2, Paragraphed, Opcoded
<1>4. PICK n \in 1..Count : Old(n) < Start(p) + 1 /\ Start(p) + 1 <= OldTo(n)
  <2>1. Start(p) + 1 \in 1..OldEnd
    BY <1>3
  <2> QED
    BY <2>1, OpcodeOrder
<1>5. Old(n) \in Nat /\ OldTo(n) \in Nat /\ Old(n) <= Start(p) /\ Start(p) < OldTo(n)
  <2>1. Old(n) \in Nat /\ OldTo(n) \in Nat
    BY Opcoded
  <2> QED
    BY <1>3, <1>4, <2>1
<1>6. Same(n)
  BY <1>3, <1>5, DerivedTouches
<1>7. End(p) <= OldTo(n)
  <2>1. SUFFICES ASSUME End(p) > OldTo(n) PROVE FALSE
    BY <1>3, <1>5
  <2>2. n \in 1..(Count - 1)
    <3>1. n # Count
      BY <1>1, <1>3, <1>5, <2>1, Opcoded
    <3> QED
      BY <1>1, <3>1
  <2>3. n + 1 \in 1..Count /\ Old(n + 1) = OldTo(n) /\ ~ Same(n + 1)
    BY <1>6, <2>2, OpcodeOrder
  <2>4. OldTo(n + 1) \in Nat /\ Old(n + 1) <= OldTo(n + 1)
    BY <2>3, Opcoded, OpcodeOrder
  <2>5. CASE Old(n + 1) = OldTo(n + 1)
    BY <1>3, <1>5, <2>1, <2>3, <2>5, DerivedTouches
  <2>6. CASE Old(n + 1) < OldTo(n + 1)
    <3>1. Start(p) < OldTo(n + 1) /\ End(p) > Old(n + 1)
      BY <1>3, <1>5, <2>1, <2>3, <2>4
    <3> QED
      BY <2>3, <2>6, <3>1, DerivedTouches
  <2> QED
    BY <1>5, <2>3, <2>4, <2>5, <2>6
<1>8. \E m \in 1..Count : IsHome(m, p)
  BY <1>5, <1>6, <1>7 DEF IsHome
<1> QED
  BY <1>2, <1>3, <1>8 DEF Home
\* Where a saved position of a paragraph that no region touches lies in the
\* current text.
Image(p, x) == New(Home(p)) + (x - Old(Home(p)))

\* Where a border between paragraphs lies, if one of its sides is not marked.
Edge(p, marked) ==
    IF p = 0 THEN 0
    ELSE IF p = Parts THEN NewEnd
    ELSE IF p \notin marked THEN Image(p, End(p))
    ELSE Image(p + 1, End(p))

\* Both edges of a paragraph that is not marked are where its own region has them:
\* an insertion between it and a neighbour, or at an end of the text, would mark it.
LEMMA KeptEdges ==
  ASSUME EditInv, OldEnd = SavedEnd, opcodes # <<>>, NEW marked, Derived \subseteq marked,
         NEW p \in 1..Parts, p \notin marked
  PROVE  Edge(p - 1, marked) = Image(p, Start(p)) /\ Edge(p, marked) = Image(p, End(p))
<1>1. PICK h \in 1..Count : h = Home(p) /\ IsHome(h, p)
  BY HomeFound
<1>2. /\ Same(h) /\ Old(h) \in Nat /\ OldTo(h) \in Nat /\ New(h) \in Nat /\ NewTo(h) \in Nat
      /\ Old(h) <= Start(p) /\ End(p) <= OldTo(h) /\ OldTo(h) - Old(h) = NewTo(h) - New(h)
      /\ Start(p) \in Nat /\ End(p) \in Nat /\ Start(p) < End(p) /\ End(p) <= SavedEnd
      /\ Count \in Nat \ {0} /\ 1 \in 1..Count /\ OldEnd \in Nat /\ Parts \in Nat \ {0}
  <2>1. Start(p) < End(p) /\ Count \in Nat \ {0}
    BY HomeFound, Opcoded
  <2>2. Same(h) /\ Old(h) <= Start(p) /\ End(p) <= OldTo(h)
    BY <1>1 DEF IsHome
  <2>3. 1 \in 1..Count
    BY <2>1
  <2> QED
    BY <2>1, <2>2, <2>3, Opcoded, OpcodeOrder, Paragraphed
<1>3. ASSUME NEW n \in 1..Count, ~ Same(n), Old(n) = OldTo(n), Start(p) <= Old(n), Old(n) <= End(p)
      PROVE  FALSE
  BY <1>3, DerivedTouches
<1>4. Image(p, Start(p)) = New(h) + (Start(p) - Old(h)) /\ Image(p, End(p)) = New(h) + (End(p) - Old(h))
  BY <1>1 DEF Image
<1>5. Edge(p - 1, marked) = Image(p, Start(p))
  <2>1. CASE p = 1
    <3>1. Start(p) = 0 /\ Old(h) = 0
      BY <1>2, <2>1, Paragraphed
    <3>2. h = 1
      <4>1. SUFFICES ASSUME h # 1 PROVE FALSE
        OBVIOUS
      <4>2. 1 < h
        BY <1>2, <4>1
      <4>3. Old(1) = 0 /\ OldTo(1) = 0
        BY SMTT(30), <1>2, <3>1, <4>2, Opcoded, OpcodeOrder
      <4>4. ~ Same(1)
        BY <1>2, <4>3, OpcodeOrder
      <4> QED
        BY <1>2, <1>3, <3>1, <4>3, <4>4
    <3>3. New(h) = 0
      BY <1>2, <3>2, OpcodeOrder
    <3> QED
      BY <1>4, <2>1, <3>1, <3>3 DEF Edge
  <2>2. CASE p # 1 /\ p - 1 \in marked
    <3>1. p \in 2..Parts /\ p - 1 # 0 /\ p - 1 # Parts /\ (p - 1) + 1 = p
      BY <1>2, <2>2
    <3>2. Start(p) = End(p - 1)
      BY <3>1, Paragraphed
    <3>3. Edge(p - 1, marked) = Image((p - 1) + 1, End(p - 1))
      BY <2>2, <3>1 DEF Edge
    <3> QED
      BY <3>1, <3>2, <3>3
  <2>3. CASE p # 1 /\ p - 1 \notin marked
    <3>1. p \in 2..Parts /\ p - 1 # 0 /\ p - 1 # Parts /\ p - 1 \in 1..Parts
      BY <1>2, <2>3
    <3>2. PICK q \in 1..Parts : q = p - 1 /\ q \notin marked
      BY <2>3, <3>1
    <3>3. Start(p) = End(q) /\ End(q) \in Nat /\ Start(q) \in Nat
      BY <3>1, <3>2, Paragraphed
    <3>4. PICK g \in 1..Count : g = Home(q) /\ IsHome(g, q)
      BY <3>2, HomeFound
    <3>5. /\ Same(g) /\ Old(g) \in Nat /\ OldTo(g) \in Nat /\ New(g) \in Nat /\ NewTo(g) \in Nat
          /\ Old(g) <= Start(q) /\ End(q) <= OldTo(g) /\ Start(q) < End(q)
      BY <3>2, <3>4, HomeFound, Opcoded DEF IsHome
    <3>6. g = h
      <4>1. ~ (h < g)
        <5>1. h < g => OldTo(h) <= Old(g)
          BY OpcodeOrder
        <5> QED
          BY SMTT(30), <1>2, <3>3, <3>5, <5>1
      <4>2. SUFFICES ASSUME g < h PROVE FALSE
        BY <4>1
      <4>3. OldTo(g) = Start(p) /\ Old(h) = Start(p)
        <5>1. OldTo(g) <= Old(h)
          BY <4>2, OpcodeOrder
        <5> QED
          BY SMTT(30), <1>2, <3>3, <3>5, <5>1
      <4>4. PICK n \in 1..Count : n = g + 1 /\ Old(n) = OldTo(g) /\ ~ Same(n)
        <5>1. g \in 1..(Count - 1)
          BY <1>2, <4>2
        <5> QED
          BY <3>5, <5>1, OpcodeOrder
      <4>5. n < h
        BY <1>2, <4>2, <4>4
      <4>6. OldTo(n) <= Old(h) /\ Old(n) <= OldTo(n) /\ Old(n) \in Nat /\ OldTo(n) \in Nat
        BY <4>5, OpcodeOrder, Opcoded
      <4>7. Old(n) = OldTo(n) /\ Start(p) <= Old(n) /\ Old(n) <= End(p)
        BY <1>2, <4>3, <4>4, <4>6
      <4> QED
        BY <1>3, <4>4, <4>7
    <3>7. Edge(q, marked) = Image(q, End(q))
      BY <3>1, <3>2 DEF Edge
    <3> QED
      BY <1>1, <1>4, <3>2, <3>3, <3>4, <3>6, <3>7 DEF Image
  <2> QED
    BY <2>1, <2>2, <2>3
<1>6. Edge(p, marked) = Image(p, End(p))
  <2>1. CASE p = Parts
    <3>1. End(p) = SavedEnd /\ OldTo(h) <= OldEnd
      BY <2>1, Paragraphed, OpcodeOrder
    <3>2. OldTo(h) = OldEnd /\ End(p) = OldEnd
      BY <1>2, <3>1
    <3>3. h = Count
      <4>1. SUFFICES ASSUME h # Count PROVE FALSE
        OBVIOUS
      <4>2. h \in 1..(Count - 1)
        BY <1>2, <4>1
      <4>3. PICK n \in 1..Count : n = h + 1 /\ Old(n) = OldTo(h) /\ ~ Same(n)
        BY <1>2, <4>2, OpcodeOrder
      <4>4. Old(n) <= OldTo(n) /\ OldTo(n) <= OldEnd /\ Old(n) \in Nat /\ OldTo(n) \in Nat
        BY OpcodeOrder, Opcoded
      <4>5. Old(n) = OldTo(n) /\ Start(p) <= Old(n) /\ Old(n) <= End(p)
        BY <1>2, <3>2, <4>3, <4>4
      <4> QED
        BY <1>3, <4>3, <4>5
    <3>4. NewTo(h) = NewEnd
      BY <1>2, <3>3, Opcoded
    <3>5. Edge(p, marked) = NewEnd
      BY <1>2, <2>1 DEF Edge
    <3> QED
      BY <1>2, <1>4, <3>2, <3>4, <3>5
  <2>2. CASE p # Parts
    BY <1>2, <2>2 DEF Edge
  <2> QED
    BY <2>1, <2>2
<1> QED
  BY <1>5, <1>6

\* The characters of a region of the current text.
LEMMA RegionText ==
  ASSUME EditInv
  PROVE  /\ CurrentText \in Seq(Nat) /\ Len(CurrentText) = NewEnd /\ NewEnd \in Nat
         /\ \A n \in 1..Count, j \in 1..NewEnd :
              New(n) < j /\ j <= NewTo(n) =>
                CurrentText[j] = IF Same(n) THEN Old(n) + (j - New(n)) ELSE SavedEnd + j
<1>1. NewEnd \in Nat /\ SavedEnd \in Nat
  BY Opcoded, Paragraphed
<1>2. ToSet(opcodes) = {opcodes[n] : n \in 1..Count}
  BY Opcoded DEF ToSet
<1>3. ASSUME NEW n \in 1..Count, NEW j \in 1..NewEnd, New(n) < j, j <= NewTo(n)
      PROVE  OpcodeAt(j) = opcodes[n]
  <2>1. ASSUME NEW m \in 1..Count, opcodes[m].new < j, j <= opcodes[m].newEnd
        PROVE  m = n
    <3>1. New(m) < j /\ j <= NewTo(m)
      BY <2>1 DEF New, NewTo
    <3>2. /\ New(m) \in Nat /\ NewTo(m) \in Nat /\ New(n) \in Nat /\ NewTo(n) \in Nat
          /\ m < n => NewTo(m) <= New(n)
          /\ n < m => NewTo(n) <= New(m)
      BY Opcoded, OpcodeOrder
    <3> QED
      BY <1>3, <3>1, <3>2
  <2>2. opcodes[n] \in ToSet(opcodes) /\ opcodes[n].new < j /\ j <= opcodes[n].newEnd
    BY <1>2, <1>3 DEF New, NewTo
  <2>3. \A op \in ToSet(opcodes) : op.new < j /\ j <= op.newEnd => op = opcodes[n]
    BY <1>2, <2>1
  <2> QED
    BY <2>2, <2>3 DEF OpcodeAt
<1>4. ASSUME NEW n \in 1..Count, NEW j \in 1..NewEnd, New(n) < j, j <= NewTo(n)
      PROVE  CurrentText[j] = IF Same(n) THEN Old(n) + (j - New(n)) ELSE SavedEnd + j
  BY <1>3, <1>4 DEF CurrentText, Same, Old, New
<1>5. ASSUME NEW j \in 1..NewEnd
      PROVE  CurrentText[j] \in Nat
  <2>1. PICK n \in 1..Count : New(n) < j /\ j <= NewTo(n)
    BY OpcodeOrder
  <2>2. Old(n) \in Nat /\ New(n) \in Nat
    BY Opcoded
  <2>3. Old(n) + (j - New(n)) \in Nat /\ SavedEnd + j \in Nat
    BY <1>1, <2>1, <2>2
  <2> QED
    BY <1>4, <2>1, <2>3
<1>6. CurrentText = [j \in 1..NewEnd |-> CurrentText[j]]
  BY DEF CurrentText
<1>7. CurrentText \in Seq(Nat) /\ Len(CurrentText) = NewEnd
  BY <1>1, <1>5, <1>6
<1> QED
  BY <1>1, <1>4, <1>7
\* Positions within a region are moved with it.
LEMMA ImageBounds ==
  ASSUME NEW o \in Nat, NEW oTo \in Nat, NEW n \in Nat, NEW nTo \in Nat, NEW x \in Nat, NEW y \in Nat,
         o <= x, x <= y, y <= oTo, oTo - o = nTo - n
  PROVE  /\ n + (x - o) \in Nat /\ n + (y - o) \in Nat /\ n + (x - o) <= n + (y - o)
         /\ n <= n + (x - o) /\ n + (y - o) <= nTo
         /\ (n + (y - o)) - (n + (x - o)) = y - x
OBVIOUS

\* A piece of a text is a text, and its i-th letter is the text's at that place.
LEMMA TextSlice ==
  ASSUME NEW s \in Seq(Nat), NEW a \in Nat, NEW b \in Nat, a <= b, b <= Len(s)
  PROVE  \E t \in Seq(Nat) : /\ t = SubSeq(s, a + 1, b) /\ Len(t) = b - a
                             /\ \A i \in 1..(b - a) : t[i] = s[a + i]
<1>1. PICK c \in Nat : c = a + 1
  OBVIOUS
<1>2. SubSeq(s, c, b) \in Seq(Nat) /\ Len(SubSeq(s, c, b)) = b - a
      /\ \A i \in 1..(b - a) : SubSeq(s, c, b)[i] = s[a + i]
  BY <1>1, Slice
<1> QED
  BY <1>1, <1>2

\* A position of a slice, counted from the start of the whole.
LEMMA WithinSlice ==
  ASSUME NEW a \in Nat, NEW b \in Nat, NEW n \in Nat, NEW nTo \in Nat, NEW e \in Nat,
         b <= e, n <= a, b <= nTo
  PROVE  \A i \in 1..(b - a) : a + i \in 1..e /\ n < a + i /\ a + i <= nTo
OBVIOUS

\* A paragraph that is not marked has its text between its edges.
LEMMA KeptText ==
  ASSUME EditInv, OldEnd = SavedEnd, opcodes # <<>>, NEW marked, Derived \subseteq marked,
         NEW p \in 1..Parts, p \notin marked
  PROVE  /\ Edge(p - 1, marked) \in Nat /\ Edge(p, marked) \in Nat
         /\ Edge(p - 1, marked) <= Edge(p, marked) /\ Edge(p, marked) <= NewEnd
         /\ ParagraphText(p) = SubSeq(CurrentText, Edge(p - 1, marked) + 1, Edge(p, marked))
<1>1. PICK h \in 1..Count : h = Home(p) /\ IsHome(h, p)
  BY HomeFound
<1>2. /\ Same(h) /\ Old(h) \in Nat /\ OldTo(h) \in Nat /\ New(h) \in Nat /\ NewTo(h) \in Nat
      /\ Old(h) <= Start(p) /\ End(p) <= OldTo(h) /\ OldTo(h) - Old(h) = NewTo(h) - New(h)
      /\ Start(p) \in Nat /\ End(p) \in Nat /\ Start(p) < End(p)
      /\ NewTo(h) <= NewEnd /\ NewEnd \in Nat
  <2>1. Start(p) < End(p)
    BY HomeFound
  <2>2. Same(h) /\ Old(h) <= Start(p) /\ End(p) <= OldTo(h)
    BY <1>1 DEF IsHome
  <2> QED
    BY <2>1, <2>2, Opcoded, OpcodeOrder, Paragraphed
<1>3. PICK a, b : a = Edge(p - 1, marked) /\ b = Edge(p, marked)
  OBVIOUS
<1>4. a = New(h) + (Start(p) - Old(h)) /\ b = New(h) + (End(p) - Old(h))
  BY <1>1, <1>3, KeptEdges DEF Image
<1>5. a \in Nat /\ b \in Nat /\ a <= b /\ b <= NewEnd /\ New(h) <= a /\ b <= NewTo(h)
      /\ b - a = End(p) - Start(p)
  <2>1. Start(p) <= End(p)
    BY <1>2
  <2>2. /\ a \in Nat /\ b \in Nat /\ a <= b /\ New(h) <= a /\ b <= NewTo(h)
        /\ b - a = End(p) - Start(p)
    <3>1. PICK o \in Nat, oTo \in Nat, n \in Nat, nTo \in Nat, x \in Nat, y \in Nat :
            /\ o = Old(h) /\ oTo = OldTo(h) /\ n = New(h) /\ nTo = NewTo(h) /\ x = Start(p) /\ y = End(p)
      BY <1>2
    <3>2. o <= x /\ x <= y /\ y <= oTo /\ oTo - o = nTo - n
      BY <1>2, <2>1, <3>1
    <3>3. a = n + (x - o) /\ b = n + (y - o)
      BY <1>4, <3>1
    <3>4. /\ n + (x - o) \in Nat /\ n + (y - o) \in Nat /\ n + (x - o) <= n + (y - o)
          /\ n <= n + (x - o) /\ n + (y - o) <= nTo
          /\ (n + (y - o)) - (n + (x - o)) = y - x
      BY <3>2, ImageBounds
    <3> QED
      BY <3>1, <3>3, <3>4
  <2> QED
    BY <1>2, <2>2
<1>6. PICK s \in Seq(Nat) : s = CurrentText /\ Len(s) = NewEnd
  BY RegionText
<1>7. PICK t \in Seq(Nat) : /\ t = SubSeq(s, a + 1, b) /\ Len(t) = b - a
                            /\ \A i \in 1..(b - a) : t[i] = s[a + i]
  <2>1. a \in Nat /\ b \in Nat /\ a <= b /\ b <= Len(s)
    BY <1>5, <1>6
  <2> QED
    BY <2>1, TextSlice
<1>8. ASSUME NEW i \in 1..(b - a)
      PROVE  t[i] = Start(p) + i
  <2>1. a + i \in 1..NewEnd /\ New(h) < a + i /\ a + i <= NewTo(h)
    <3>1. PICK n \in Nat, nTo \in Nat, e \in Nat : n = New(h) /\ nTo = NewTo(h) /\ e = NewEnd
      BY <1>2
    <3>2. a \in Nat /\ b \in Nat /\ b <= e /\ n <= a /\ b <= nTo
      BY <1>5, <3>1
    <3>3. \A k \in 1..(b - a) : a + k \in 1..e /\ n < a + k /\ a + k <= nTo
      BY <3>2, WithinSlice
    <3> QED
      BY <3>1, <3>3
  <2>2. s[a + i] = Old(h) + ((a + i) - New(h))
    BY <1>2, <1>6, <2>1, RegionText
  <2>3. \A o, n, x \in Nat : o + (((n + (x - o)) + i) - n) = x + i
    BY <1>5
  <2>4. Old(h) + ((a + i) - New(h)) = Start(p) + i
    <3>1. PICK o \in Nat, n \in Nat, x \in Nat : o = Old(h) /\ n = New(h) /\ x = Start(p)
      BY <1>2
    <3> QED
      BY <1>4, <2>3, <3>1, ZenonT(40)
  <2> QED
    BY <1>7, <2>2, <2>4
<1>9. ParagraphText(p) = [i \in 1..(b - a) |-> Start(p) + i]
  BY <1>5 DEF ParagraphText
<1>10. t = [i \in 1..(b - a) |-> t[i]]
  <2>1. t = [i \in 1..Len(t) |-> t[i]]
    OBVIOUS
  <2> QED
    BY <1>7, <2>1
<1>11. ParagraphText(p) = t
  BY <1>8, <1>9, <1>10
<1> QED
  BY <1>3, <1>5, <1>6, <1>7, <1>11

\* Where a position of the saved text that lies in a region may lie in the current
\* text: within the image of that region.
LEMMA BoundaryWithin ==
  ASSUME EditInv, NEW n \in 1..Count, NEW x \in Nat, Old(n) <= x, x <= OldTo(n)
  PROVE  /\ \A y \in Boundary(opcodes[n], x) : y \in Nat /\ New(n) <= y /\ y <= NewTo(n)
         /\ Same(n) => Boundary(opcodes[n], x) = {New(n) + (x - Old(n))}
         /\ ~ Same(n) /\ x = Old(n) => New(n) \in Boundary(opcodes[n], x)
         /\ ~ Same(n) /\ x = OldTo(n) => NewTo(n) \in Boundary(opcodes[n], x)
<1>1. /\ Old(n) \in Nat /\ OldTo(n) \in Nat /\ New(n) \in Nat /\ NewTo(n) \in Nat
      /\ New(n) <= NewTo(n) /\ Old(n) <= OldTo(n)
      /\ (Same(n) => OldTo(n) - Old(n) = NewTo(n) - New(n))
  BY Opcoded, OpcodeOrder
<1>2. PICK B : B = Boundary(opcodes[n], x)
  OBVIOUS
<1>3. CASE Same(n)
  <2>1. B = {New(n) + (x - Old(n))}
    BY <1>2, <1>3 DEF Boundary, Same, New, Old
  <2> QED
    BY <1>1, <1>2, <1>3, <2>1
<1>4. CASE ~ Same(n)
  <2>1. /\ x = Old(n) /\ Old(n) # OldTo(n) => B = {New(n)}
        /\ x = OldTo(n) /\ Old(n) # OldTo(n) => B = {NewTo(n)}
        /\ ~ (x = Old(n) /\ Old(n) # OldTo(n)) /\ ~ (x = OldTo(n) /\ Old(n) # OldTo(n)) => B = {New(n), NewTo(n)}
    BY <1>2, <1>4 DEF Boundary, Same, New, NewTo, Old, OldTo
  <2> QED
    BY <1>1, <1>2, <1>4, <2>1
<1> QED
  BY <1>3, <1>4
\* The candidates for a border, opcode by opcode.
LEMMA Candidates ==
  ASSUME EditInv, NEW x \in Nat
  PROVE  /\ \A y : y \in BoundaryCandidates(x) <=>
                     \E n \in 1..Count : Old(n) <= x /\ x <= OldTo(n) /\ y \in Boundary(opcodes[n], x)
         /\ BoundaryCandidates(x) \subseteq 0..NewEnd
<1>1. ToSet(opcodes) = {opcodes[n] : n \in 1..Count}
  BY Opcoded DEF ToSet
<1>2. ASSUME NEW y
      PROVE  y \in BoundaryCandidates(x) <=>
               \E n \in 1..Count : Old(n) <= x /\ x <= OldTo(n) /\ y \in Boundary(opcodes[n], x)
  BY <1>1 DEF BoundaryCandidates, Old, OldTo
<1>3. ASSUME NEW y \in BoundaryCandidates(x) PROVE y \in 0..NewEnd
  <2>1. PICK n \in 1..Count : Old(n) <= x /\ x <= OldTo(n) /\ y \in Boundary(opcodes[n], x)
    BY <1>2
  <2>2. y \in Nat /\ New(n) <= y /\ y <= NewTo(n)
    BY <2>1, BoundaryWithin
  <2>3. NewTo(n) \in Nat /\ NewTo(n) <= NewEnd /\ NewEnd \in Nat
    BY Opcoded, OpcodeOrder
  <2> QED
    BY <2>2, <2>3
<1> QED
  BY <1>2, <1>3

\* The earliest candidate for the start of a union is where the paragraph before it
\* ends.
LEMMA UnionStarts ==
  ASSUME EditInv, OldEnd = SavedEnd, opcodes # <<>>, NEW marked, Derived \subseteq marked,
         NEW p \in 1..Parts, p \in marked, p - 1 \notin marked
  PROVE  /\ Min(BoundaryCandidates(Start(p))) = Edge(p - 1, marked)
         /\ Edge(p - 1, marked) \in 0..NewEnd
<1>1. PICK B, e : B = BoundaryCandidates(Start(p)) /\ e = Edge(p - 1, marked)
  OBVIOUS
<1>2. Start(p) \in Nat /\ NewEnd \in Nat /\ Count \in Nat \ {0} /\ Parts \in Nat
  BY Paragraphed, Opcoded
<1>3. B \subseteq 0..NewEnd
  BY <1>1, <1>2, Candidates
<1>4. e \in B /\ \A y \in B : e <= y
  <2>1. CASE p = 1
    <3>1. e = 0 /\ Start(p) = 0
      BY <1>1, <2>1, Paragraphed DEF Edge
    <3>2. 1 \in 1..Count /\ Old(1) = 0 /\ New(1) = 0 /\ 0 <= OldTo(1)
      <4>1. 1 \in 1..Count
        BY <1>2
      <4> QED
        BY <1>2, <4>1, OpcodeOrder, Opcoded
    <3>3. 0 \in Boundary(opcodes[1], 0)
      <4>1. 0 \in Nat /\ 0 <= 0 /\ 0 + (0 - 0) = 0
        OBVIOUS
      <4>2. Same(1) => Boundary(opcodes[1], 0) = {New(1) + (0 - Old(1))}
        BY <3>2, <4>1, BoundaryWithin
      <4>3. ~ Same(1) => New(1) \in Boundary(opcodes[1], 0)
        BY <3>2, <4>1, BoundaryWithin
      <4> QED
        BY <3>2, <4>1, <4>2, <4>3
    <3>4. 0 \in B
      <4>1. 0 <= 0 /\ 0 \in Nat
        OBVIOUS
      <4> QED
        BY <1>1, <3>1, <3>2, <3>3, <4>1, Candidates
    <3> QED
      BY <1>2, <1>3, <3>1, <3>4
  <2>2. CASE p # 1
    <3>1. PICK q \in 1..Parts : q = p - 1 /\ q \notin marked /\ q # 0 /\ q # Parts
      BY <1>2, <2>2
    <3>2. Start(p) = End(q)
      <4>1. p \in 2..Parts
        BY <1>2, <2>2
      <4> QED
        BY <3>1, <4>1, Paragraphed
    <3>3. PICK h \in 1..Count : h = Home(q) /\ IsHome(h, q)
      BY <3>1, HomeFound
    <3>4. /\ Same(h) /\ Old(h) \in Nat /\ OldTo(h) \in Nat /\ New(h) \in Nat /\ NewTo(h) \in Nat
          /\ Old(h) <= Start(q) /\ End(q) <= OldTo(h) /\ Start(q) < End(q)
          /\ Start(q) \in Nat /\ End(q) \in Nat /\ OldTo(h) - Old(h) = NewTo(h) - New(h)
      <4>1. Start(q) < End(q)
        BY <3>1, HomeFound
      <4>2. Same(h) /\ Old(h) <= Start(q) /\ End(q) <= OldTo(h)
        BY <3>3 DEF IsHome
      <4> QED
        BY <4>1, <4>2, Opcoded, OpcodeOrder, Paragraphed
    <3>5. e = New(h) + (End(q) - Old(h))
      BY <1>1, <3>1, <3>3 DEF Edge, Image
    <3>6. Old(h) < End(q) /\ Old(h) <= End(q) /\ e <= NewTo(h)
      BY <3>4, <3>5
    <3>7. Boundary(opcodes[h], End(q)) = {e}
      <4>1. PICK x \in Nat : x = End(q)
        BY <3>4
      <4>2. Boundary(opcodes[h], x) = {New(h) + (x - Old(h))}
        <5>1. Old(h) <= x /\ x <= OldTo(h)
          BY <3>4, <3>6, <4>1
        <5> QED
          BY <3>4, <5>1, BoundaryWithin
      <4> QED
        BY <3>5, <4>1, <4>2
    <3>8. e \in B
      BY <1>1, <1>2, <3>2, <3>4, <3>6, <3>7, Candidates
    <3>9. ASSUME NEW y \in B PROVE e <= y
      <4>1. PICK n \in 1..Count : Old(n) <= End(q) /\ End(q) <= OldTo(n) /\ y \in Boundary(opcodes[n], End(q))
        BY <1>1, <1>2, <3>2, Candidates
      <4>2. y \in Nat /\ New(n) <= y
        BY <3>4, <4>1, BoundaryWithin
      <4>3. CASE n = h
        BY <1>3, <3>7, <3>8, <4>1, <4>3
      <4>4. CASE n < h
        <5>1. OldTo(n) <= Old(h) /\ OldTo(n) \in Nat
          BY <4>4, OpcodeOrder, Opcoded
        <5> QED
          BY <3>4, <3>6, <4>1, <5>1
      <4>5. CASE h < n
        <5>1. NewTo(h) <= New(n) /\ New(n) \in Nat
          BY <4>5, OpcodeOrder, Opcoded
        <5> QED
          BY <1>3, <3>4, <3>6, <3>8, <4>2, <5>1
      <4> QED
        BY <4>3, <4>4, <4>5
    <3> QED
      BY <3>8, <3>9
  <2> QED
    BY <2>1, <2>2
<1>5. Min(B) \in B /\ \A y \in B : Min(B) <= y
  <2>1. B # {}
    BY <1>4
  <2> QED
    BY <1>2, <1>3, <2>1, Extremes
<1> QED
  BY <1>1, <1>2, <1>3, <1>4, <1>5

\* The latest candidate for the end of a union is where the paragraph after it
\* starts.
LEMMA UnionEnds ==
  ASSUME EditInv, OldEnd = SavedEnd, opcodes # <<>>, NEW marked, Derived \subseteq marked,
         NEW p \in 1..Parts, p \in marked, p + 1 \notin marked
  PROVE  /\ Max(BoundaryCandidates(End(p))) = Edge(p, marked)
         /\ Edge(p, marked) \in 0..NewEnd
<1>1. PICK B, e : B = BoundaryCandidates(End(p)) /\ e = Edge(p, marked)
  OBVIOUS
<1>2. End(p) \in Nat /\ NewEnd \in Nat /\ Count \in Nat \ {0} /\ Parts \in Nat
  BY Paragraphed, Opcoded
<1>3. B \subseteq 0..NewEnd
  BY <1>1, <1>2, Candidates
<1>4. e \in B /\ \A y \in B : y <= e
  <2>1. CASE p = Parts
    <3>1. e = NewEnd /\ End(p) = OldEnd
      BY <1>1, <2>1, Paragraphed DEF Edge
    <3>2. /\ Count \in 1..Count /\ OldTo(Count) = OldEnd /\ NewTo(Count) = NewEnd
          /\ Old(Count) <= OldTo(Count) /\ Old(Count) \in Nat /\ OldTo(Count) \in Nat
          /\ New(Count) \in Nat /\ NewTo(Count) \in Nat
          /\ (Same(Count) => OldTo(Count) - Old(Count) = NewTo(Count) - New(Count))
      <4>1. Count \in 1..Count
        BY <1>2
      <4> QED
        BY <1>2, <4>1, OpcodeOrder, Opcoded
    <3>3. PICK n \in 1..Count : n = Count
      BY <3>2
    <3>4. OldTo(n) <= OldTo(n)
      BY <3>2, <3>3
    <3>5. NewTo(n) \in Boundary(opcodes[n], OldTo(n))
      <4>1. Same(n) => NewTo(n) = New(n) + (OldTo(n) - Old(n))
        BY <3>2, <3>3
      <4> QED
        BY <3>2, <3>3, <3>4, <4>1, BoundaryWithin
    <3>6. e \in B
      BY <1>1, <1>2, <3>1, <3>2, <3>3, <3>4, <3>5, Candidates
    <3> QED
      BY <1>2, <1>3, <3>1, <3>6
  <2>2. CASE p # Parts
    <3>1. PICK q \in 1..Parts : q = p + 1 /\ q \notin marked /\ p # 0
      BY <1>2, <2>2
    <3>2. Start(q) = End(p)
      <4>1. p \in 1..(Parts - 1)
        BY <1>2, <2>2
      <4> QED
        BY <3>1, <4>1, Paragraphed
    <3>3. PICK h \in 1..Count : h = Home(q) /\ IsHome(h, q)
      BY <3>1, HomeFound
    <3>4. /\ Same(h) /\ Old(h) \in Nat /\ OldTo(h) \in Nat /\ New(h) \in Nat /\ NewTo(h) \in Nat
          /\ Old(h) <= Start(q) /\ End(q) <= OldTo(h) /\ Start(q) < End(q)
          /\ Start(q) \in Nat /\ End(q) \in Nat /\ OldTo(h) - Old(h) = NewTo(h) - New(h)
      <4>1. Start(q) < End(q)
        BY <3>1, HomeFound
      <4>2. Same(h) /\ Old(h) <= Start(q) /\ End(q) <= OldTo(h)
        BY <3>3 DEF IsHome
      <4> QED
        BY <4>1, <4>2, Opcoded, OpcodeOrder, Paragraphed
    <3>5. e = New(h) + (Start(q) - Old(h))
      BY <1>1, <2>2, <3>1, <3>2, <3>3 DEF Edge, Image
    <3>6. Start(q) < OldTo(h) /\ Start(q) <= OldTo(h) /\ New(h) <= e
      BY <3>4, <3>5
    <3>7. Boundary(opcodes[h], Start(q)) = {e}
      <4>1. PICK x \in Nat : x = Start(q)
        BY <3>4
      <4>2. Boundary(opcodes[h], x) = {New(h) + (x - Old(h))}
        <5>1. Old(h) <= x /\ x <= OldTo(h)
          BY <3>4, <3>6, <4>1
        <5> QED
          BY <3>4, <5>1, BoundaryWithin
      <4> QED
        BY <3>5, <4>1, <4>2
    <3>8. e \in B
      BY <1>1, <1>2, <3>2, <3>4, <3>6, <3>7, Candidates
    <3>9. ASSUME NEW y \in B PROVE y <= e
      <4>1. PICK n \in 1..Count : Old(n) <= Start(q) /\ Start(q) <= OldTo(n) /\ y \in Boundary(opcodes[n], Start(q))
        BY <1>1, <1>2, <3>2, Candidates
      <4>2. y \in Nat /\ y <= NewTo(n)
        BY <3>4, <4>1, BoundaryWithin
      <4>3. CASE n = h
        BY <1>3, <3>7, <3>8, <4>1, <4>3
      <4>4. CASE n < h
        <5>1. NewTo(n) <= New(h) /\ NewTo(n) \in Nat
          BY <4>4, OpcodeOrder, Opcoded
        <5> QED
          BY <1>3, <3>4, <3>6, <3>8, <4>2, <5>1
      <4>5. CASE h < n
        <5>1. OldTo(h) <= Old(n) /\ Old(n) \in Nat
          BY <4>5, OpcodeOrder, Opcoded
        <5> QED
          BY <3>4, <3>6, <4>1, <5>1
      <4> QED
        BY <4>3, <4>4, <4>5
    <3> QED
      BY <3>8, <3>9
  <2> QED
    BY <2>1, <2>2
<1>5. Max(B) \in B /\ \A y \in B : y <= Max(B)
  <2>1. B # {}
    BY <1>4
  <2> QED
    BY <1>2, <1>3, <2>1, Extremes
<1> QED
  BY <1>1, <1>2, <1>3, <1>4, <1>5
\* A character's place in a region, and a border's.
LEMMA SamePlace ==
  ASSUME NEW o \in Nat, NEW n \in Nat, NEW x \in Nat, NEW j \in Nat, NEW e, e = n + (x - o)
  PROVE  (e < j <=> x < o + (j - n)) /\ (j <= e <=> o + (j - n) <= x)
OBVIOUS

\* The images of untouched paragraphs are in order.
LEMMA ImagesOrdered ==
  ASSUME EditInv, OldEnd = SavedEnd, opcodes # <<>>, NEW l \in 1..Parts, NEW r \in 1..Parts,
         l \notin Derived, r \notin Derived, l < r
  PROVE  /\ Image(l, End(l)) \in Nat /\ Image(r, Start(r)) \in Nat
         /\ Image(l, End(l)) <= Image(r, Start(r))
<1>1. PICK h \in 1..Count : h = Home(l) /\ IsHome(h, l)
  BY HomeFound
<1>2. PICK k \in 1..Count : k = Home(r) /\ IsHome(k, r)
  BY HomeFound
<1>3. Start(l) < End(l) /\ Start(r) < End(r) /\ End(l) <= Start(r)
  BY HomeFound, Paragraphed
<1>4. Same(h) /\ Old(h) <= Start(l) /\ End(l) <= OldTo(h)
      /\ Same(k) /\ Old(k) <= Start(r) /\ End(r) <= OldTo(k)
  BY <1>1, <1>2 DEF IsHome
<1>5. PICK o \in Nat, oTo \in Nat, m \in Nat, mTo \in Nat, x \in Nat, y \in Nat :
        /\ o = Old(h) /\ oTo = OldTo(h) /\ m = New(h) /\ mTo = NewTo(h) /\ x = Start(l) /\ y = End(l)
  BY Opcoded, Paragraphed
<1>6. PICK o2 \in Nat, oTo2 \in Nat, m2 \in Nat, mTo2 \in Nat, x2 \in Nat, y2 \in Nat :
        /\ o2 = Old(k) /\ oTo2 = OldTo(k) /\ m2 = New(k) /\ mTo2 = NewTo(k) /\ x2 = Start(r) /\ y2 = End(r)
  BY Opcoded, Paragraphed
<1>7. /\ o <= x /\ x <= y /\ y <= oTo /\ oTo - o = mTo - m
      /\ o2 <= x2 /\ x2 <= y2 /\ y2 <= oTo2 /\ oTo2 - o2 = mTo2 - m2
      /\ x < y /\ x2 < y2 /\ y <= x2
  <2>1. OldTo(h) - Old(h) = NewTo(h) - New(h)
    BY <1>4, OpcodeOrder
  <2>2. OldTo(k) - Old(k) = NewTo(k) - New(k)
    BY <1>4, OpcodeOrder
  <2>3. o <= x /\ x < y /\ y <= oTo /\ oTo - o = mTo - m
    BY <1>3, <1>4, <1>5, <2>1
  <2>4. o2 <= x2 /\ x2 < y2 /\ y2 <= oTo2 /\ oTo2 - o2 = mTo2 - m2 /\ y <= x2
    BY <1>3, <1>4, <1>5, <1>6, <2>2
  <2> QED
    BY <2>3, <2>4
<1>8. PICK a, b : a = m + (y - o) /\ b = m2 + (x2 - o2)
  OBVIOUS
<1>9. a = Image(l, End(l)) /\ b = Image(r, Start(r))
  BY <1>1, <1>2, <1>5, <1>6, <1>8 DEF Image
<1>10. a \in Nat /\ a <= mTo /\ b \in Nat /\ m2 <= b
  BY <1>7, <1>8
<1>11. CASE h = k
  <2>1. o = o2 /\ m = m2
    BY <1>5, <1>6, <1>11
  <2>2. a <= b
    BY <1>7, <1>8, <2>1
  <2> QED
    BY <1>9, <1>10, <2>2
<1>12. CASE h < k
  <2>1. mTo <= m2
    BY <1>5, <1>6, <1>12, OpcodeOrder
  <2> QED
    BY <1>9, <1>10, <2>1
<1>13. CASE k < h
  <2>1. oTo2 <= o
    BY <1>5, <1>6, <1>13, OpcodeOrder
  <2> QED
    BY <1>7, <2>1
<1> QED
  BY <1>11, <1>12, <1>13

\* The characters of an equal region lie on the same side of an untouched paragraph
\* in both texts.
LEMMA SameSide ==
  ASSUME EditInv, OldEnd = SavedEnd, opcodes # <<>>, NEW p \in 1..Parts, p \notin Derived,
         NEW n \in 1..Count, Same(n), NEW j \in Nat, New(n) < j, j <= NewTo(n)
  PROVE  /\ Image(p, End(p)) < j => End(p) < Old(n) + (j - New(n))
         /\ j <= Image(p, Start(p)) => Old(n) + (j - New(n)) <= Start(p)
<1>1. PICK h \in 1..Count : h = Home(p) /\ IsHome(h, p)
  BY HomeFound
<1>2. Start(p) < End(p)
  BY HomeFound
<1>3. Same(h) /\ Old(h) <= Start(p) /\ End(p) <= OldTo(h)
  BY <1>1 DEF IsHome
<1>4. PICK o \in Nat, oTo \in Nat, m \in Nat, mTo \in Nat, x \in Nat, y \in Nat :
        /\ o = Old(h) /\ oTo = OldTo(h) /\ m = New(h) /\ mTo = NewTo(h) /\ x = Start(p) /\ y = End(p)
  BY Opcoded, Paragraphed
<1>5. PICK o2 \in Nat, oTo2 \in Nat, m2 \in Nat, mTo2 \in Nat :
        /\ o2 = Old(n) /\ oTo2 = OldTo(n) /\ m2 = New(n) /\ mTo2 = NewTo(n)
  BY Opcoded
<1>6. /\ o <= x /\ x < y /\ y <= oTo /\ oTo - o = mTo - m /\ oTo2 - o2 = mTo2 - m2
      /\ m2 < j /\ j <= mTo2
  BY <1>2, <1>3, <1>4, <1>5, OpcodeOrder
<1>7. PICK a, b, c : a = m + (x - o) /\ b = m + (y - o) /\ c = o2 + (j - m2)
  OBVIOUS
<1>8. Image(p, Start(p)) = a /\ Image(p, End(p)) = b /\ Old(n) + (j - New(n)) = c
  BY <1>1, <1>4, <1>5, <1>7 DEF Image
<1>9. /\ a \in Nat /\ b \in Nat /\ c \in Nat /\ m <= a /\ a < b /\ b <= mTo
      /\ o2 < c /\ c <= oTo2
  BY <1>6, <1>7
<1>10. (b < j => y < c) /\ (j <= a => c <= x)
  <2>1. CASE n = h
    <3>1. c = o + (j - m)
      BY <1>4, <1>5, <1>7, <2>1
    <3>2. (b < j <=> y < o + (j - m)) /\ (j <= a <=> o + (j - m) <= x)
      BY <1>7, SamePlace
    <3> QED
      BY <3>1, <3>2
  <2>2. CASE n < h
    <3>1. oTo2 <= o /\ mTo2 <= m
      BY <1>4, <1>5, <2>2, OpcodeOrder
    <3> QED
      BY <1>6, <1>9, <3>1
  <2>3. CASE h < n
    <3>1. oTo <= o2 /\ mTo <= m2
      BY <1>4, <1>5, <2>3, OpcodeOrder
    <3> QED
      BY <1>6, <1>9, <3>1
  <2> QED
    BY <2>1, <2>2, <2>3
<1> QED
  BY <1>4, <1>8, <1>10

\* What a group of marked paragraphs is.
LEMMA Grouped ==
  ASSUME EditInv, NEW marked, marked \subseteq 1..Parts, NEW g \in Groups(marked)
  PROVE  /\ g[1] \in 1..Parts /\ g[2] \in 1..Parts /\ g[1] <= g[2] /\ g[1]..g[2] \subseteq marked
         /\ g[1] \in marked /\ g[2] \in marked /\ g[1] - 1 \notin marked /\ g[2] + 1 \notin marked
<1>1. g \in marked \X marked /\ g[1] <= g[2] /\ g[1]..g[2] \subseteq marked
      /\ g[1] - 1 \notin marked /\ g[2] + 1 \notin marked
  BY DEF Groups
<1>2. g[1] \in marked /\ g[2] \in marked
  BY <1>1
<1> QED
  BY <1>1, <1>2

\* Unmarked neighbours of a group, where there are any.
LEMMA Neighbours ==
  ASSUME EditInv, OldEnd = SavedEnd, opcodes # <<>>, NEW marked, Derived \subseteq marked,
         NEW p \in marked, NEW q \in marked, p \in 1..Parts, q \in 1..Parts, p <= q,
         p - 1 \notin marked, q + 1 \notin marked
  PROVE  /\ p = 1 => Edge(p - 1, marked) = 0 /\ Start(p) = 0
         /\ p # 1 => /\ p - 1 \in 1..Parts /\ p - 1 \notin Derived /\ Start(p) = End(p - 1)
                     /\ Edge(p - 1, marked) = Image(p - 1, End(p - 1))
         /\ q = Parts => Edge(q, marked) = NewEnd /\ End(q) = SavedEnd
         /\ q # Parts => /\ q + 1 \in 1..Parts /\ q + 1 \notin Derived /\ End(q) = Start(q + 1)
                         /\ Edge(q, marked) = Image(q + 1, Start(q + 1))
         /\ p - 1 < q + 1
<1>1. Parts \in Nat \ {0}
  BY Paragraphed
<1>2. ASSUME p = 1
      PROVE  Edge(p - 1, marked) = 0 /\ Start(p) = 0
  <2>1. p - 1 = 0
    BY <1>2
  <2> QED
    BY <1>2, <2>1, Paragraphed DEF Edge
<1>3. ASSUME p # 1
      PROVE  /\ p - 1 \in 1..Parts /\ p - 1 \notin Derived /\ Start(p) = End(p - 1)
             /\ Edge(p - 1, marked) = Image(p - 1, End(p - 1))
  <2>1. p \in 2..Parts /\ p - 1 \in 1..Parts /\ p - 1 # 0 /\ p - 1 # Parts
    BY <1>1, <1>3
  <2> QED
    BY <2>1, Paragraphed DEF Edge
<1>4. q = Parts => Edge(q, marked) = NewEnd /\ End(q) = SavedEnd
  BY <1>1, Paragraphed DEF Edge
<1>5. ASSUME q # Parts
      PROVE  /\ q + 1 \in 1..Parts /\ q + 1 \notin Derived /\ End(q) = Start(q + 1)
             /\ Edge(q, marked) = Image(q + 1, Start(q + 1))
  <2>1. q \in 1..(Parts - 1) /\ q + 1 \in 1..Parts /\ q # 0
    BY <1>1, <1>5
  <2>2. End(q) = Start(q + 1)
    BY <2>1, Paragraphed
  <2>3. Edge(q, marked) = Image(q + 1, End(q))
    BY <1>5, <2>1 DEF Edge
  <2> QED
    BY <2>1, <2>2, <2>3
<1>6. p - 1 < q + 1
  BY <1>1
<1> QED
  BY <1>2, <1>3, <1>4, <1>5, <1>6

\* The union of a group lies between two edges, in order.
LEMMA UnionEdges ==
  ASSUME EditInv, OldEnd = SavedEnd, opcodes # <<>>,
         NEW marked, Derived \subseteq marked, marked \subseteq 1..Parts, NEW g \in Groups(marked)
  PROVE  /\ UnionOf(g) = [first |-> g[1], last |-> g[2],
                          start |-> Edge(g[1] - 1, marked), end |-> Edge(g[2], marked)]
         /\ Edge(g[1] - 1, marked) \in 0..NewEnd /\ Edge(g[2], marked) \in 0..NewEnd
         /\ Edge(g[1] - 1, marked) <= Edge(g[2], marked)
<1>1. PICK p \in 1..Parts, q \in 1..Parts : p = g[1] /\ q = g[2]
  BY Grouped
<1>2. p <= q /\ p \in marked /\ q \in marked /\ p - 1 \notin marked /\ q + 1 \notin marked
  BY <1>1, Grouped
<1>3. PICK a, b : a = Edge(p - 1, marked) /\ b = Edge(q, marked)
  OBVIOUS
<1>4. a \in 0..NewEnd /\ Min(BoundaryCandidates(Start(p))) = a
  BY <1>2, <1>3, UnionStarts
<1>5. b \in 0..NewEnd /\ Max(BoundaryCandidates(End(q))) = b
  BY <1>2, <1>3, UnionEnds
<1>6. UnionOf(g) = [first |-> p, last |-> q, start |-> a, end |-> b]
  BY <1>1, <1>4, <1>5, Zenon DEF UnionOf
<1>7. NewEnd \in Nat
  BY Opcoded
<1>8. a <= b
  <2>1. CASE p = 1
    <3>1. a = 0
      BY <1>2, <1>3, <2>1, Neighbours
    <3> QED
      BY <1>5, <1>7, <3>1
  <2>2. CASE q = Parts
    <3>1. b = NewEnd
      BY <1>2, <1>3, <2>2, Neighbours
    <3> QED
      BY <1>4, <1>7, <3>1
  <2>3. CASE p # 1 /\ q # Parts
    <3>1. PICK l \in 1..Parts, r \in 1..Parts :
            l = p - 1 /\ r = q + 1 /\ l \notin Derived /\ r \notin Derived /\ l < r
      BY <1>2, <2>3, Neighbours
    <3>2. a = Image(l, End(l)) /\ b = Image(r, Start(r))
      BY <1>2, <1>3, <2>3, <3>1, Neighbours
    <3> QED
      BY <3>1, <3>2, ImagesOrdered
  <2> QED
    BY <2>1, <2>2, <2>3
<1> QED
  BY <1>1, <1>3, <1>4, <1>5, <1>6, <1>8

\* A union holds no character of a paragraph outside it.
LEMMA UnionsExact ==
  ASSUME EditInv, OldEnd = SavedEnd, opcodes # <<>>,
         NEW marked, Derived \subseteq marked, marked \subseteq 1..Parts, NEW g \in Groups(marked)
  PROVE  UnionExact(UnionOf(g))
<1>1. PICK p \in 1..Parts, q \in 1..Parts : p = g[1] /\ q = g[2]
  BY Grouped
<1>2. p <= q /\ p \in marked /\ q \in marked /\ p - 1 \notin marked /\ q + 1 \notin marked
  BY <1>1, Grouped
<1>3. PICK a, b : a = Edge(p - 1, marked) /\ b = Edge(q, marked)
  OBVIOUS
<1>4. PICK u : u = UnionOf(g) /\ u.first = p /\ u.last = q /\ u.start = a /\ u.end = b
  <2>1. UnionOf(g) = [first |-> p, last |-> q, start |-> a, end |-> b]
    BY <1>1, <1>3, UnionEdges
  <2> QED
    BY <2>1
<1>5. a \in 0..NewEnd /\ b \in 0..NewEnd /\ a <= b /\ NewEnd \in Nat
  BY <1>1, <1>3, UnionEdges, Opcoded
<1>6. PICK s \in Seq(Nat) : s = CurrentText /\ Len(s) = NewEnd
  BY RegionText
<1>7. PICK t : t = SubSeq(s, a + 1, b)
  OBVIOUS
<1>8. t \in Seq(Nat) /\ Len(t) = b - a /\ \A i \in 1..(b - a) : t[i] = s[a + i]
  <2>1. PICK m \in Nat, n \in Nat, c \in Nat : m = a /\ n = b /\ c = a + 1
    BY <1>5
  <2>2. m <= n /\ n <= Len(s) /\ c = m + 1
    BY <1>5, <1>6, <2>1
  <2>3. SubSeq(s, c, n) \in Seq(Nat) /\ Len(SubSeq(s, c, n)) = n - m
        /\ \A i \in 1..(n - m) : SubSeq(s, c, n)[i] = s[m + i]
    BY <2>2, Slice
  <2> QED
    BY <1>7, <2>1, <2>3
<1>9. ASSUME NEW c \in ToSet(t), c <= SavedEnd
      PROVE  Start(p) < c /\ c <= End(q)
  <2>1. PICK i \in 1..(b - a) : c = s[a + i]
    <3>1. DOMAIN t = 1..(b - a)
      BY <1>8
    <3> QED
      BY <1>8, <3>1 DEF ToSet
  <2>2. PICK j \in Nat : j \in 1..NewEnd /\ j = a + i /\ a < j /\ j <= b
    BY <1>5
  <2>3. PICK n \in 1..Count : New(n) < j /\ j <= NewTo(n)
    BY <2>2, OpcodeOrder
  <2>4. c = IF Same(n) THEN Old(n) + (j - New(n)) ELSE SavedEnd + j
    BY <1>6, <2>1, <2>2, <2>3, RegionText
  <2>5. Same(n)
    <3>1. SavedEnd \in Nat /\ j > 0
      BY <2>2, Paragraphed
    <3> QED
      BY <1>9, <2>4, <3>1
  <2>6. c = Old(n) + (j - New(n))
    BY <2>4, <2>5
  <2>7. Old(n) < c /\ c <= SavedEnd /\ Old(n) \in Nat
    <3>1. Old(n) \in Nat /\ New(n) \in Nat
      BY Opcoded
    <3> QED
      BY <1>9, <2>3, <2>6, <3>1
  <2>8. Start(p) < c
    <3>1. CASE p = 1
      <4>1. Start(p) = 0
        BY <1>2, <3>1, Neighbours
      <4>2. s[j] \in Nat
        BY <1>6, <2>2
      <4>3. c \in Nat
        BY <2>1, <2>2, <4>2
      <4> QED
        BY <2>7, <4>1, <4>3
    <3>2. CASE p # 1
      <4>1. PICK l \in 1..Parts : l = p - 1 /\ l \notin Derived /\ Start(p) = End(l) /\ a = Image(l, End(l))
        BY <1>2, <1>3, <3>2, Neighbours
      <4>2. Image(l, End(l)) < j
        BY <2>2, <4>1
      <4> QED
        BY <2>3, <2>5, <2>6, <4>1, <4>2, SameSide
    <3> QED
      BY <3>1, <3>2
  <2>9. c <= End(q)
    <3>1. CASE q = Parts
      BY <1>2, <2>7, <3>1, Neighbours
    <3>2. CASE q # Parts
      <4>1. PICK r \in 1..Parts : r = q + 1 /\ r \notin Derived /\ End(q) = Start(r) /\ b = Image(r, Start(r))
        BY <1>2, <1>3, <3>2, Neighbours
      <4>2. j <= Image(r, Start(r))
        BY <2>2, <4>1
      <4> QED
        BY <2>3, <2>5, <2>6, <4>1, <4>2, SameSide
    <3> QED
      BY <3>1, <3>2
  <2> QED
    BY <2>8, <2>9
<1>10. UnionText(u) = t
  BY <1>4, <1>6, <1>7 DEF UnionText
<1> QED
  BY <1>4, <1>9, <1>10 DEF UnionExact
\* A marked paragraph is in a group.
LEMMA GroupFound ==
  ASSUME NEW m \in Nat, NEW marked, marked \subseteq 1..m, NEW p \in marked
  PROVE  \E g \in Groups(marked) : g[1] <= p /\ p <= g[2]
<1>1. p \in 1..m
  OBVIOUS
<1>2. PICK A : A = {x \in 1..p : x..p \subseteq marked}
  OBVIOUS
<1>3. PICK B : B = {y \in p..m : p..y \subseteq marked}
  OBVIOUS
<1>4. p \in A /\ A \subseteq 0..m /\ p \in B /\ B \subseteq 0..m
  <2>1. p..p = {p} /\ p \in 1..p /\ p \in p..m
    BY <1>1
  <2> QED
    BY <1>1, <1>2, <1>3, <2>1
<1>5. PICK a \in A : \A x \in A : a <= x
  <2>1. Min(A) \in A /\ \A x \in A : Min(A) <= x
    BY <1>4, Extremes
  <2> QED
    BY <2>1
<1>6. PICK b \in B : \A x \in B : x <= b
  <2>1. Max(B) \in B /\ \A x \in B : x <= Max(B)
    BY <1>4, Extremes
  <2> QED
    BY <2>1
<1>7. a \in 1..p /\ a..p \subseteq marked /\ b \in p..m /\ p..b \subseteq marked
  BY <1>2, <1>3, <1>5, <1>6
<1>8. a - 1 \notin marked
  <2>1. SUFFICES ASSUME a - 1 \in marked PROVE FALSE
    OBVIOUS
  <2>2. a - 1 \in 1..p
    BY <1>1, <1>7, <2>1
  <2>3. (a - 1)..p \subseteq marked
    <3>1. \A x \in (a - 1)..p : x = a - 1 \/ x \in a..p
      BY <1>1, <1>7
    <3> QED
      BY <1>7, <2>1, <3>1
  <2>4. a - 1 \in A
    BY <1>2, <2>2, <2>3
  <2> QED
    BY <1>1, <1>5, <1>7, <2>4
<1>9. b + 1 \notin marked
  <2>1. SUFFICES ASSUME b + 1 \in marked PROVE FALSE
    OBVIOUS
  <2>2. b + 1 \in p..m
    BY <1>1, <1>7, <2>1
  <2>3. p..(b + 1) \subseteq marked
    <3>1. \A x \in p..(b + 1) : x = b + 1 \/ x \in p..b
      BY <1>1, <1>7
    <3> QED
      BY <1>7, <2>1, <3>1
  <2>4. b + 1 \in B
    BY <1>3, <2>2, <2>3
  <2> QED
    BY <1>1, <1>6, <1>7, <2>4
<1>10. a..b \subseteq marked /\ a \in marked /\ b \in marked /\ a <= b
  <2>1. \A x \in a..b : x \in a..p \/ x \in p..b
    BY <1>1, <1>7
  <2>2. a \in a..p /\ b \in p..b /\ a <= b
    BY <1>1, <1>7
  <2> QED
    BY <1>7, <2>1, <2>2
<1>11. \E g : g = <<a, b>> /\ g[1] = a /\ g[2] = b
  <2>1. <<a, b>>[1] = a /\ <<a, b>>[2] = b
    OBVIOUS
  <2> QED
    BY <2>1
<1>12. PICK g : g = <<a, b>> /\ g[1] = a /\ g[2] = b
  BY <1>11
<1>13. g \in marked \X marked
  BY <1>10, <1>12
<1>14. g \in Groups(marked)
  BY <1>8, <1>9, <1>10, <1>12, <1>13 DEF Groups
<1> QED
  BY <1>1, <1>7, <1>12, <1>14

\* Two groups that meet are one.
LEMMA GroupAlone ==
  ASSUME NEW m \in Nat, NEW marked, marked \subseteq 1..m, NEW p \in 1..m,
         NEW g \in Groups(marked), NEW h \in Groups(marked),
         g[1] <= p, p <= g[2], h[1] <= p, p <= h[2]
  PROVE  g = h /\ g[1] = h[1] /\ g[2] = h[2]
<1>1. PICK a \in 1..m, b \in 1..m :
        /\ g = <<a, b>> /\ a = g[1] /\ b = g[2] /\ a..b \subseteq marked
        /\ a - 1 \notin marked /\ b + 1 \notin marked
  <2>1. g \in marked \X marked /\ g[1]..g[2] \subseteq marked
        /\ g[1] - 1 \notin marked /\ g[2] + 1 \notin marked
    BY DEF Groups
  <2>2. g = <<g[1], g[2]>> /\ g[1] \in marked /\ g[2] \in marked
    BY <2>1
  <2> QED
    BY <2>1, <2>2
<1>2. PICK c \in 1..m, d \in 1..m :
        /\ h = <<c, d>> /\ c = h[1] /\ d = h[2] /\ c..d \subseteq marked
        /\ c - 1 \notin marked /\ d + 1 \notin marked
  <2>1. h \in marked \X marked /\ h[1]..h[2] \subseteq marked
        /\ h[1] - 1 \notin marked /\ h[2] + 1 \notin marked
    BY DEF Groups
  <2>2. h = <<h[1], h[2]>> /\ h[1] \in marked /\ h[2] \in marked
    BY <2>1
  <2> QED
    BY <2>1, <2>2
<1>3. a <= p /\ p <= b /\ c <= p /\ p <= d
  BY <1>1, <1>2
<1>4. a < c => c - 1 \in a..b
  BY <1>3
<1>5. c < a => a - 1 \in c..d
  BY <1>3
<1>6. b < d => b + 1 \in c..d
  BY <1>3
<1>7. d < b => d + 1 \in a..b
  BY <1>3
<1>8. ~ (a < c) /\ ~ (c < a) /\ ~ (b < d) /\ ~ (d < b)
  BY <1>1, <1>2, <1>4, <1>5, <1>6, <1>7
<1>9. a = c /\ b = d
  BY <1>8
<1> QED
  BY <1>1, <1>2, <1>9

GroupOf(p, marked) == CHOOSE g \in Groups(marked) : g[1] <= p /\ p <= g[2]

\* How far the text is rebuilt with the first p paragraphs.
Reach(p, marked) ==
    IF p \notin marked THEN Edge(p, marked) ELSE Edge(GroupOf(p, marked)[2], marked)

LEMMA GroupOfFound ==
  ASSUME EditInv, NEW marked, marked \subseteq 1..Parts, NEW p \in marked
  PROVE  /\ GroupOf(p, marked) \in Groups(marked)
         /\ GroupOf(p, marked)[1] <= p /\ p <= GroupOf(p, marked)[2]
<1>1. Parts \in Nat
  BY Paragraphed
<1>2. \E g \in Groups(marked) : g[1] <= p /\ p <= g[2]
  BY <1>1, GroupFound
<1> QED
  BY <1>2 DEF GroupOf

\* The pieces that a save puts together are slices of the current text that follow
\* one another: a union reaches from its first paragraph to the end of the group.
LEMMA PieceIsSlice ==
  ASSUME EditInv, OldEnd = SavedEnd, opcodes # <<>>,
         NEW marked, Derived \subseteq marked, marked \subseteq 1..Parts, NEW p \in 1..Parts
  PROVE  /\ Reach(p - 1, marked) \in 0..NewEnd /\ Reach(p, marked) \in 0..NewEnd
         /\ Reach(p - 1, marked) <= Reach(p, marked)
         /\ Piece(p, {UnionOf(g) : g \in Groups(marked)}) =
              SubSeq(CurrentText, Reach(p - 1, marked) + 1, Reach(p, marked))
<1> DEFINE us == {UnionOf(g) : g \in Groups(marked)}
<1>1. Parts \in Nat \ {0} /\ NewEnd \in Nat
  BY Paragraphed, Opcoded
<1>2. PICK P \in Nat : P = Parts
  BY <1>1
<1>3. \A g \in Groups(marked) :
        /\ g[1] \in 1..P /\ g[2] \in 1..P /\ g[1] <= g[2] /\ g[1]..g[2] \subseteq marked
        /\ g[1] - 1 \notin marked /\ g[2] + 1 \notin marked
        /\ UnionOf(g).first = g[1] /\ UnionOf(g).last = g[2]
        /\ UnionOf(g).start = Edge(g[1] - 1, marked) /\ UnionOf(g).end = Edge(g[2], marked)
        /\ Edge(g[1] - 1, marked) \in 0..NewEnd /\ Edge(g[2], marked) \in 0..NewEnd
        /\ Edge(g[1] - 1, marked) <= Edge(g[2], marked)
  <2>1. TAKE g \in Groups(marked)
  <2>2. UnionOf(g) = [first |-> g[1], last |-> g[2],
                      start |-> Edge(g[1] - 1, marked), end |-> Edge(g[2], marked)]
    BY UnionEdges
  <2>3. /\ g[1] \in 1..P /\ g[2] \in 1..P /\ g[1] <= g[2] /\ g[1]..g[2] \subseteq marked
        /\ g[1] - 1 \notin marked /\ g[2] + 1 \notin marked
    BY <1>2, Grouped
  <2>4. /\ Edge(g[1] - 1, marked) \in 0..NewEnd /\ Edge(g[2], marked) \in 0..NewEnd
        /\ Edge(g[1] - 1, marked) <= Edge(g[2], marked)
    BY UnionEdges
  <2> QED
    BY <2>2, <2>3, <2>4
<1>4. \A u : u \in us <=> \E g \in Groups(marked) : u = UnionOf(g)
  OBVIOUS
<1> HIDE DEF us
\* Before an unmarked paragraph, and before a group, the text reaches to the border.
<1>5. ASSUME p - 1 \in marked, p \notin marked \/ (\E g \in Groups(marked) : g[1] = p)
      PROVE  Reach(p - 1, marked) = Edge(p - 1, marked)
  <2>1. PICK h : /\ h = GroupOf(p - 1, marked) /\ h \in Groups(marked)
                 /\ h[1] <= p - 1 /\ p - 1 <= h[2]
    BY <1>5, GroupOfFound
  <2>2. h[1] \in 1..P /\ h[2] \in 1..P /\ h[1]..h[2] \subseteq marked
    BY <1>3, <2>1
  <2>3. h[2] = p - 1
    <3>1. SUFFICES ASSUME h[2] # p - 1 PROVE FALSE
      OBVIOUS
    <3>2. p \in h[1]..h[2] /\ p - 1 \in h[1]..h[2]
      BY <1>2, <2>1, <2>2, <3>1
    <3>3. p \in marked
      BY <2>2, <3>2
    <3>4. PICK g \in Groups(marked) : g[1] = p
      BY <1>5, <3>3
    <3>5. p - 1 \notin marked
      BY <1>3, <3>4
    <3> QED
      BY <1>5, <3>5
  <2> QED
    BY <1>5, <2>1, <2>3 DEF Reach
<1>6. CASE p \notin marked
  <2>1. /\ Edge(p - 1, marked) \in Nat /\ Edge(p, marked) \in Nat
        /\ Edge(p - 1, marked) <= Edge(p, marked) /\ Edge(p, marked) <= NewEnd
        /\ ParagraphText(p) = SubSeq(CurrentText, Edge(p - 1, marked) + 1, Edge(p, marked))
    BY <1>6, KeptText
  <2>2. Reach(p - 1, marked) = Edge(p - 1, marked) /\ Reach(p, marked) = Edge(p, marked)
    BY <1>5, <1>6 DEF Reach
  <2>3. ASSUME NEW u \in us PROVE ~ (u.first = p) /\ ~ (u.first < p /\ p <= u.last)
    <3>1. PICK g \in Groups(marked) : u = UnionOf(g)
      BY <1>4
    <3>2. u.first = g[1] /\ u.last = g[2] /\ g[1] \in 1..P /\ g[2] \in 1..P /\ g[1] <= g[2]
          /\ g[1]..g[2] \subseteq marked
      BY <1>3, <3>1
    <3>3. p \notin g[1]..g[2]
      BY <1>6, <3>2
    <3> QED
      BY <1>2, <3>2, <3>3
  <2>4. Piece(p, us) = ParagraphText(p)
    BY <2>3 DEF Piece
  <2>5. PICK a \in Nat, b \in Nat : a = Edge(p - 1, marked) /\ b = Edge(p, marked)
    BY <2>1
  <2>6. a \in 0..NewEnd /\ b \in 0..NewEnd /\ a <= b
    BY <1>1, <2>1, <2>5
  <2>7. ParagraphText(p) = SubSeq(CurrentText, a + 1, b)
    BY <2>1, <2>5
  <2> QED
    BY <2>2, <2>4, <2>5, <2>6, <2>7 DEF us
<1>7. CASE p \in marked
  <2>1. PICK g : g = GroupOf(p, marked) /\ g \in Groups(marked) /\ g[1] <= p /\ p <= g[2]
    BY <1>7, GroupOfFound
  <2>2. g[1] \in 1..P /\ g[2] \in 1..P /\ g[1] <= g[2] /\ g[1]..g[2] \subseteq marked
        /\ g[1] - 1 \notin marked
    BY <1>3, <2>1
  <2>3. Reach(p, marked) = Edge(g[2], marked)
    BY <1>7, <2>1 DEF Reach
  <2>4. \A h \in Groups(marked) : h[1] <= p /\ p <= h[2] => h = g
    BY <1>2, <2>1, GroupAlone
  <2>5. CASE p = g[1]
    <3>1. Reach(p - 1, marked) = Edge(g[1] - 1, marked)
      BY <2>1, <2>2, <2>5 DEF Reach
    <3>2. ASSUME NEW u \in us, u.first = p PROVE u = UnionOf(g)
      <4>1. PICK h \in Groups(marked) : u = UnionOf(h)
        BY <1>4
      <4>2. h[1] = p /\ h[1] <= h[2] /\ h[1] \in 1..P /\ h[2] \in 1..P
        BY <1>3, <3>2, <4>1
      <4>3. h[1] <= p /\ p <= h[2]
        BY <1>2, <4>2
      <4> QED
        BY <2>4, <4>1, <4>3
    <3>3. UnionOf(g) \in us /\ UnionOf(g).first = p
      BY <1>3, <1>4, <2>1, <2>5
    <3>4. (CHOOSE u \in us : u.first = p) = UnionOf(g)
      BY <3>2, <3>3
    <3>5. Piece(p, us) = UnionText(UnionOf(g))
      BY <3>3, <3>4 DEF Piece
    <3>6. UnionText(UnionOf(g)) = SubSeq(CurrentText, Edge(g[1] - 1, marked) + 1, Edge(g[2], marked))
      BY <1>3, <2>1 DEF UnionText
    <3> QED
      BY <1>3, <2>1, <2>3, <3>1, <3>5, <3>6 DEF us
  <2>6. CASE p # g[1]
    <3>1. g[1] < p /\ p - 1 \in g[1]..g[2] /\ p - 1 \in 1..P
      BY <1>2, <2>1, <2>2, <2>6
    <3>2. p - 1 \in marked
      BY <2>2, <3>1
    <3>3. GroupOf(p - 1, marked) = g
      <4>1. PICK h : /\ h = GroupOf(p - 1, marked) /\ h \in Groups(marked)
                     /\ h[1] <= p - 1 /\ p - 1 <= h[2]
        BY <3>2, GroupOfFound
      <4>2. g[1] <= p - 1 /\ p - 1 <= g[2]
        BY <1>2, <2>2, <3>1
      <4>3. PICK q \in 1..P : q = p - 1
        BY <3>1
      <4>4. marked \subseteq 1..P
        BY <1>2
      <4>5. h[1] <= q /\ q <= h[2] /\ g[1] <= q /\ q <= g[2]
        BY <4>1, <4>2, <4>3
      <4>6. h = g
        BY <1>2, <2>1, <4>1, <4>3, <4>4, <4>5, GroupAlone, ZenonT(40)
      <4> QED
        BY <4>1, <4>6
    <3>4. Reach(p - 1, marked) = Edge(g[2], marked)
      BY <3>2, <3>3 DEF Reach
    <3>5. ASSUME NEW u \in us PROVE ~ (u.first = p)
      <4>1. PICK h \in Groups(marked) : u = UnionOf(h)
        BY <1>4
      <4>2. h[1] = u.first /\ h[1] - 1 \notin marked
        BY <1>3, <4>1
      <4> QED
        BY <3>2, <4>2
    <3>6. UnionOf(g) \in us /\ UnionOf(g).first < p /\ p <= UnionOf(g).last
      BY <1>3, <1>4, <2>1, <3>1
    <3>7. Piece(p, us) = <<>>
      BY <3>5, <3>6 DEF Piece
    <3>8. PICK e \in Nat : e = Edge(g[2], marked) /\ e \in 0..NewEnd
      BY <1>1, <1>3, <2>1
    <3>9. SubSeq(CurrentText, e + 1, e) = <<>>
      OBVIOUS
    <3> QED
      BY <1>1, <2>3, <3>4, <3>7, <3>8, <3>9 DEF us
  <2> QED
    BY <2>5, <2>6
<1> QED
  BY <1>6, <1>7

\* What a save puts together is the text that was given.
LEMMA Rebuilt ==
  ASSUME EditInv, OldEnd = SavedEnd, opcodes # <<>>,
         NEW marked, Derived \subseteq marked, marked \subseteq 1..Parts
  PROVE  Reconstructed({UnionOf(g) : g \in Groups(marked)}) = CurrentText
<1> DEFINE us == {UnionOf(g) : g \in Groups(marked)}
<1>1. PICK P \in Nat \ {0} : P = Parts /\ Paragraphs = 1..P
  BY Paragraphed
<1>2. PICK ss : ss = [p \in 1..P |-> Piece(p, us)] /\ Reconstructed(us) = FlattenSeq(ss)
  BY <1>1 DEF Reconstructed
<1>3. PICK at : at = [p \in 0..P |-> Reach(p, marked)]
  OBVIOUS
<1>4. PICK s \in Seq(Nat) : s = CurrentText /\ Len(s) = NewEnd
  BY RegionText
<1>5. Len(ss) = P
  BY <1>1, <1>2
<1>6. at[0] = 0
  <2>1. 0 \notin marked
    BY <1>1
  <2>2. at[0] = Reach(0, marked)
    BY <1>1, <1>3
  <2> QED
    BY <2>1, <2>2 DEF Reach, Edge
<1>7. at[P] = NewEnd
  <2>1. at[P] = Reach(P, marked)
    BY <1>1, <1>3
  <2>2. Edge(P, marked) = NewEnd
    BY <1>1 DEF Edge
  <2>3. CASE P \notin marked
    BY <2>1, <2>2, <2>3 DEF Reach
  <2>4. CASE P \in marked
    <3>1. PICK g : g = GroupOf(P, marked) /\ g \in Groups(marked) /\ P <= g[2]
      BY <2>4, GroupOfFound
    <3>2. g[2] \in 1..P
      BY <1>1, <3>1, Grouped
    <3>3. g[2] = P
      BY <1>1, <3>1, <3>2
    <3> QED
      BY <2>1, <2>2, <2>4, <3>1, <3>3 DEF Reach
  <2> QED
    BY <2>3, <2>4
<1>8. ASSUME NEW p \in 1..P
      PROVE  /\ at[p - 1] \in 0..NewEnd /\ at[p] \in 0..NewEnd /\ at[p - 1] <= at[p]
             /\ ss[p] = SubSeq(s, at[p - 1] + 1, at[p])
  <2>1. p - 1 \in 0..P /\ p \in 0..P
    BY <1>1
  <2>2. at[p - 1] = Reach(p - 1, marked) /\ at[p] = Reach(p, marked)
    BY <1>3, <2>1
  <2>3. ss[p] = Piece(p, us)
    BY <1>2
  <2>4. p \in 1..Parts
    BY <1>1
  <2> QED
    BY <1>4, <2>2, <2>3, <2>4, PieceIsSlice
<1>9. ASSUME NEW p \in 0..P PROVE at[p] \in Nat /\ at[p] <= Len(s)
  <2>1. NewEnd \in Nat
    BY Opcoded
  <2>2. p = 0 \/ p \in 1..P
    BY <1>1
  <2>3. at[p] \in 0..NewEnd
    BY <1>6, <1>8, <2>1, <2>2
  <2> QED
    BY <1>4, <2>1, <2>3
<1>10. FlattenSeq(ss) = s
  BY <1>1, <1>4, <1>5, <1>6, <1>7, <1>8, <1>9, FlattenSlices
<1> QED
  BY <1>2, <1>4, <1>10
\* A position of the saved text is in a paragraph.
LEMMA ParagraphAt ==
  ASSUME EditInv, NEW x \in 1..SavedEnd
  PROVE  \E p \in 1..Parts : Start(p) < x /\ x <= End(p)
<1>1. PICK P \in Nat \ {0} : P = Parts /\ SavedEnd = End(P)
  BY Paragraphed
<1>2. SavedEnd \in Nat
  BY Paragraphed
<1>3. PICK A : A = {p \in 1..P : x <= End(p)}
  OBVIOUS
<1>4. P \in A /\ A \in SUBSET Nat
  BY <1>1, <1>2, <1>3
<1>5. PICK p \in A : \A q \in A : p <= q
  BY <1>4, LeastNatural
<1>6. p \in 1..P /\ x <= End(p)
  BY <1>3
<1>7. Start(p) < x
  <2>1. CASE p = 1
    BY <1>2, <2>1, Paragraphed
  <2>2. CASE p # 1
    <3>1. p \in 2..P /\ p - 1 \in 1..P /\ p - 1 < p
      BY <1>1, <1>6, <2>2
    <3>2. ~ (x <= End(p - 1))
      BY <1>1, <1>3, <1>5, <3>1
    <3>3. Start(p) = End(p - 1) /\ End(p - 1) \in Nat
      BY <1>1, <3>1, Paragraphed
    <3> QED
      BY <1>2, <3>2, <3>3
  <2> QED
    BY <2>1, <2>2
<1> QED
  BY <1>1, <1>6, <1>7

\* A text that differs has a region that is not equal, and it touches a paragraph.
LEMMA SomethingDerived ==
  ASSUME EditInv, OldEnd = SavedEnd, CurrentText # [n \in 1..SavedEnd |-> n]
  PROVE  opcodes # <<>> /\ Derived # {}
<1>1. Count \in Nat /\ OldEnd \in Nat /\ NewEnd \in Nat /\ SavedEnd \in Nat /\ Parts \in Nat \ {0}
  BY Opcoded, Paragraphed
<1>2. opcodes # <<>>
  <2>1. SUFFICES ASSUME opcodes = <<>> PROVE FALSE
    OBVIOUS
  <2>2. OldEnd = 0 /\ NewEnd = 0
    BY <2>1, Opcoded
  <2>3. CurrentText = [n \in 1..SavedEnd |-> n]
    BY <2>2 DEF CurrentText
  <2> QED
    BY <2>3
<1>3. ASSUME NEW n \in 1..Count, ~ Same(n)
      PROVE  Derived # {}
  <2>1. PICK x \in Nat, y \in Nat : x = Old(n) /\ y = OldTo(n) /\ x <= y /\ y <= SavedEnd
    BY Opcoded, OpcodeOrder
  <2>2. CASE x = 0 /\ y = 0
    <3>1. 1 \in 1..Parts /\ Start(1) = 0 /\ End(1) \in Nat
      <4>1. 1 \in 1..Parts
        BY <1>1
      <4> QED
        BY <4>1, Paragraphed
    <3>2. Start(1) <= Old(n) /\ Old(n) <= End(1) /\ Old(n) = OldTo(n)
      BY <2>1, <2>2, <3>1
    <3> QED
      BY <1>3, <3>1, <3>2, DerivedTouches
  <2>3. CASE x = y /\ x # 0
    <3>1. x \in 1..SavedEnd
      BY <1>1, <2>1, <2>3
    <3>2. PICK p \in 1..Parts : Start(p) < x /\ x <= End(p)
      BY <3>1, ParagraphAt
    <3>3. Start(p) <= x
      BY <3>2, Paragraphed
    <3> QED
      BY <1>3, <2>1, <2>3, <3>2, <3>3, DerivedTouches
  <2>4. CASE x < y
    <3>1. x + 1 \in 1..SavedEnd
      BY <1>1, <2>1, <2>4
    <3>2. PICK p \in 1..Parts : Start(p) < x + 1 /\ x + 1 <= End(p)
      BY <3>1, ParagraphAt
    <3>3. Start(p) \in Nat /\ End(p) \in Nat
      BY Paragraphed
    <3>4. Start(p) < y /\ End(p) > x
      BY <2>4, <3>2, <3>3
    <3> QED
      BY <1>3, <2>1, <2>4, <3>4, DerivedTouches
  <2> QED
    BY <2>1, <2>2, <2>3, <2>4
<1>4. Derived # {}
  <2>1. SUFFICES ASSUME \A n \in 1..Count : Same(n) PROVE FALSE
    BY <1>3
  <2>2. Count = 1
    <3>1. Count # 0
      BY <1>2, Opcoded
    <3>2. ~ (Count > 1)
      <4>1. SUFFICES ASSUME Count > 1 PROVE FALSE
        OBVIOUS
      <4>2. 1 \in 1..(Count - 1) /\ 1 \in 1..Count /\ 1 + 1 \in 1..Count
        BY <1>1, <4>1
      <4>3. Same(1) <=> ~ Same(1 + 1)
        BY <4>2, OpcodeOrder
      <4> QED
        BY <2>1, <4>2, <4>3
    <3> QED
      BY <1>1, <3>1, <3>2
  <2>3. 1 \in 1..Count /\ Same(1)
    BY <2>1, <2>2
  <2>4. Old(1) = 0 /\ New(1) = 0 /\ OldTo(1) = OldEnd /\ NewTo(1) = NewEnd
        /\ OldTo(1) - Old(1) = NewTo(1) - New(1)
    BY <2>2, <2>3, Opcoded, OpcodeOrder
  <2>5. NewEnd = SavedEnd
    BY <1>1, <2>4
  <2>6. ASSUME NEW j \in 1..NewEnd PROVE CurrentText[j] = j
    <3>1. New(1) < j /\ j <= NewTo(1)
      BY <1>1, <2>4
    <3>2. CurrentText[j] = Old(1) + (j - New(1))
      BY <2>3, <3>1, RegionText
    <3> QED
      BY <2>4, <3>2
  <2>7. CurrentText = [j \in 1..NewEnd |-> CurrentText[j]]
    BY DEF CurrentText
  <2> QED
    BY <2>5, <2>6, <2>7
<1> QED
  BY <1>2, <1>4

\* The alignment of an edit succeeds, whatever was hinted.
LEMMA AlignKeeps ==
  ASSUME EditInv, NEW hinted \in SUBSET Paragraphs, Align(hinted)
  PROVE  EditInv'
<1>1. /\ editStage = "diff" /\ OldEnd = SavedEnd /\ UNCHANGED <<borders, opcodes>> /\ unions = {}
  BY DEF Align, EditInv
<1>2. BordersInv' /\ OpcodesInv'
  BY <1>1 DEF EditInv, BordersInv, OpcodesInv, Parts, Count, Old, OldTo, New, NewTo, Same,
              OldEnd, NewEnd, SavedEnd
<1>3. CASE CurrentText = [n \in 1..SavedEnd |-> n]
  <2>1. editStage' = "unchanged" /\ unions' = {}
    BY <1>1, <1>3 DEF Align
  <2> QED
    BY <1>2, <2>1 DEF EditInv
<1>4. CASE CurrentText # [n \in 1..SavedEnd |-> n]
  <2>1. opcodes # <<>> /\ Derived # {}
    BY <1>1, <1>4, SomethingDerived
  <2>2. PICK marked : marked = Derived \cup hinted
    OBVIOUS
  <2>3. marked \subseteq 1..Parts /\ Derived \subseteq marked /\ marked # {}
    BY <2>1, <2>2, DerivedTouches, Paragraphed
  <2>4. PICK us : us = {UnionOf(g) : g \in Groups(marked)}
    OBVIOUS
  <2>5. unions' = us /\ editStage' = IF /\ us # {} /\ \A u \in us : u.start <= u.end
                                        /\ Reconstructed(us) = CurrentText
                                     THEN "aligned" ELSE "refused"
    BY <1>4, <2>2, <2>4 DEF Align
  <2>6. us # {}
    <3>1. PICK p \in marked : TRUE
      BY <2>3
    <3>2. GroupOf(p, marked) \in Groups(marked)
      BY <2>3, GroupOfFound
    <3> QED
      BY <2>4, <3>2
  <2>7. ASSUME NEW u \in us PROVE u.start <= u.end /\ UnionExact(u)
    <3>1. PICK g \in Groups(marked) : u = UnionOf(g)
      BY <2>4
    <3>2. UnionExact(u)
      BY <1>1, <2>1, <2>3, <3>1, UnionsExact
    <3>3. /\ UnionOf(g) = [first |-> g[1], last |-> g[2],
                           start |-> Edge(g[1] - 1, marked), end |-> Edge(g[2], marked)]
          /\ Edge(g[1] - 1, marked) <= Edge(g[2], marked)
      BY <1>1, <2>1, <2>3, UnionEdges
    <3> QED
      BY <3>1, <3>2, <3>3
  <2>8. Reconstructed(us) = CurrentText
    BY <1>1, <2>1, <2>3, <2>4, Rebuilt
  <2>9. editStage' = "aligned"
    BY <2>5, <2>6, <2>7, <2>8
  <2>10. \A u \in unions' : UnionExact(u)'
    BY <1>1, <2>5, <2>7 DEF UnionExact, UnionText, CurrentText, OpcodeAt, SavedEnd, NewEnd, Start, End
  <2> QED
    BY <1>2, <2>9, <2>10 DEF EditInv
<1> QED
  BY <1>3, <1>4

\* Every step keeps the invariant of the edit.
LEMMA EditKeeps ==
  ASSUME EditInv, [EditNext]_editVars
  PROVE  EditInv'
<1>1. CASE UNCHANGED editVars
  <2>1. UNCHANGED <<borders, opcodes, unions, editStage>>
    BY <1>1 DEF editVars
  <2>2. BordersInv' /\ OpcodesInv'
    BY <2>1 DEF EditInv, BordersInv, OpcodesInv, Parts, Count, Old, OldTo, New, NewTo, Same,
                OldEnd, NewEnd, SavedEnd
  <2>3. \A u : UnionExact(u)' = UnionExact(u)
    BY <2>1 DEF UnionExact, UnionText, CurrentText, OpcodeAt, SavedEnd, NewEnd, Start, End
  <2> QED
    BY <2>1, <2>2, <2>3 DEF EditInv
<1>2. ASSUME NEW k \in 1..MaxSaved, AddOpcode("equal", k, k) PROVE EditInv'
  <2>1. k \in Nat
    BY EditLimits
  <2> QED
    BY <1>2, <2>1, OpcodeAdded
<1>3. ASSUME NEW tag, NEW old \in 0..MaxSaved, NEW new \in 0..MaxTyped, AddOpcode(tag, old, new)
      PROVE  EditInv'
  <2>1. old \in Nat /\ new \in Nat
    BY EditLimits
  <2> QED
    BY <1>3, <2>1, OpcodeAdded
<1> QED
  BY <1>1, <1>2, <1>3, AlignKeeps DEF EditNext

\* What the invariant says of an edit that was aligned.
LEMMA EditTold == EditInv => AlignmentExact
BY DEF EditInv, AlignmentExact, UnionExact

\* Whatever is edited and whatever paragraphs are hinted, a save is not refused for its
\* alignment, and it replaces no paragraph that the edit does not touch
\* (save.py:105-237).
THEOREM EditsAlwaysAligned == EditSpec => []AlignmentExact
<1>1. EditInv /\ [EditNext]_editVars => EditInv'
  BY EditKeeps
<1> QED
  BY <1>1, EditStarts, EditTold, PTL DEF EditSpec

---------------------------------------------------------------------------
(* TextChunks: the chunks of a paragraph *)

Texts == Seq(BOOLEAN) \ {<<>>}

ChunksType ==
    /\ blank \in Texts
    /\ DOMAIN similarity \subseteq 1..(Length - 1)
    /\ \A b \in DOMAIN similarity : similarity[b] \in {Low, High}
    /\ ends \in Seq(Nat)
    /\ index \in 0..(Len(ends) + 1)
    /\ chunked \in BOOLEAN

\* The merging is done with the chunk: it is large enough, or no neighbour can
\* take it.
Settled(i) == SpanTokens(i, i) >= MinTokens \/ Mergeable(i) = {}

ChunksInv ==
    /\ ChunksType
    /\ \A i \in DOMAIN ends : SpanTokens(i, i) \in 1..MaxTokens /\ ends[i] <= Length
    /\ index = 0 => \A b \in DOMAIN similarity : similarity[b] = Low /\ b < Cut => b \in ToSet(ends)
    /\ index # 0 => ends # <<>> /\ Last(ends) = Length
    /\ \A i \in 1..(index - 1) : Settled(i)
    /\ chunked => index > Len(ends)

\* The constants are numbers, and in order.
LEMMA Limits ==
  /\ MinTokens \in Nat /\ TargetTokens \in Nat /\ MaxTokens \in Nat /\ MaxLength \in Nat
  /\ 0 < MinTokens /\ MinTokens <= TargetTokens /\ TargetTokens <= MaxTokens
BY ChunkingOrdered

\* Where the text is cut: within it, after the last cut.
LEMMA CutWithin ==
  ASSUME ChunksInv
  PROVE  /\ Length \in Nat \ {0} /\ Cut \in 0..Length /\ Len(ends) \in Nat
         /\ DOMAIN ends = 1..Len(ends) /\ \A i \in 1..Len(ends) : ends[i] \in Nat
<1>1. Length \in Nat \ {0} /\ Len(ends) \in Nat /\ DOMAIN ends = 1..Len(ends)
      /\ \A i \in 1..Len(ends) : ends[i] \in Nat
  BY DEF ChunksInv, ChunksType, Texts, Length
<1>2. CASE ends = <<>>
  BY <1>1, <1>2 DEF Cut
<1>3. CASE ends # <<>>
  <2>1. Len(ends) \in 1..Len(ends)
    BY <1>1, <1>3 DEF ChunksInv, ChunksType
  <2> QED
    BY <1>1, <1>3, <2>1 DEF Cut, Last, ChunksInv
<1> QED
  BY <1>1, <1>2, <1>3

\* Some offset is the nearest to the target, and the least of those.
LEMMA NearestChosen ==
  ASSUME ChunksInv, NEW S, S \subseteq 0..Length, S # {}
  PROVE  Nearest(S) \in S
<1>1. Cut \in Nat /\ Length \in Nat /\ TargetTokens \in Nat
  BY CutWithin, Limits
<1> DEFINE dist(b) == Apart(b - Cut, TargetTokens)
<1>2. \A b \in S : dist(b) \in Nat
  BY <1>1 DEF Apart
<1>3. PICK d \in {dist(b) : b \in S} : \A e \in {dist(b) : b \in S} : d <= e
  <2>1. {dist(b) : b \in S} \in SUBSET Nat /\ {dist(b) : b \in S} # {}
    BY <1>2
  <2> QED
    BY <2>1, LeastNatural
<1> DEFINE Best == {b \in S : dist(b) = d}
<1>4. PICK b \in Best : \A c \in Best : b <= c
  <2>1. Best \in SUBSET Nat /\ Best # {}
    BY <1>1, <1>3
  <2> QED
    BY <2>1, LeastNatural
<1>5. ASSUME NEW c \in S PROVE dist(b) < dist(c) \/ (dist(b) = dist(c) /\ b <= c)
  <2>1. dist(b) = d /\ d <= dist(c) /\ dist(b) \in Nat /\ dist(c) \in Nat
    BY <1>2, <1>3, <1>4, <1>5
  <2>2. CASE dist(c) = d
    <3>1. c \in Best
      BY <1>5, <2>2
    <3>2. b <= c
      BY <1>4, <3>1
    <3> QED
      BY <2>1, <2>2, <3>2
  <2>3. CASE dist(c) # d
    <3> HIDE DEF dist
    <3> QED
      BY <2>1, <2>3
  <2> QED
    BY <2>2, <2>3
<1> QED
  BY <1>4, <1>5 DEF Nearest

\* _prefix_end_for_limit cuts within the limit, and after the cut before.
LEMMA PrefixWithin ==
  ASSUME ChunksInv, Cut < Length, NEW limit \in Nat, limit > 0
  PROVE  PrefixEnd(limit) \in (Cut + 1)..Length /\ PrefixEnd(limit) - Cut <= limit
<1>1. Cut \in Nat /\ Length \in Nat /\ MinTokens \in Nat /\ MinTokens > 0
  BY CutWithin, Limits
<1>2. PICK best : best = Min({Cut + limit, Length})
  OBVIOUS
<1>3. best \in (Cut + 1)..Length /\ best - Cut <= limit
  <2>1. {Cut + limit, Length} \subseteq 0..(Cut + limit + Length) /\ Cut + limit + Length \in Nat
    BY <1>1
  <2>2. best \in {Cut + limit, Length} /\ \A x \in {Cut + limit, Length} : best <= x
    BY <1>2, <2>1, Extremes
  <2> QED
    BY <1>1, <2>2
<1>4. PICK spaces : spaces = {n \in (Cut + 1)..best : blank[n]}
  OBVIOUS
<1>5. CASE spaces # {}
  <2>1. Max(spaces) \in spaces
    <3>1. spaces \subseteq 0..best /\ best \in Nat
      BY <1>1, <1>3, <1>4
    <3> QED
      BY <1>5, <3>1, Extremes
  <2>2. Max(spaces) \in (Cut + 1)..Length /\ Max(spaces) - Cut <= limit
    BY <1>1, <1>3, <1>4, <2>1
  <2> QED
    BY <1>2, <1>3, <1>4, <2>2 DEF PrefixEnd
<1>6. CASE spaces = {}
  BY <1>2, <1>3, <1>4, <1>6 DEF PrefixEnd
<1> QED
  BY <1>5, <1>6

\* _select_next_end ends a chunk within the hard maximum, and cuts over no topic
\* change.
LEMMA NextEndWithin ==
  ASSUME ChunksInv, Cut < Length
  PROVE  /\ NextEnd \in (Cut + 1)..Length /\ NextEnd - Cut <= MaxTokens
         /\ \A b \in DOMAIN similarity : similarity[b] = Low => ~(Cut < b /\ b < NextEnd)
<1>1. /\ Cut \in Nat /\ Length \in Nat
      /\ MinTokens \in Nat /\ TargetTokens \in Nat /\ MaxTokens \in Nat
      /\ 0 < MinTokens /\ MinTokens <= TargetTokens /\ TargetTokens <= MaxTokens
  BY CutWithin, Limits
<1>2. Available \subseteq (Cut + 1)..Length /\ \A b \in Available : b - Cut <= MaxTokens
  BY <1>1 DEF Available, ChunksInv, ChunksType
<1>3. NextEnd \in (Cut + 1)..Length /\ NextEnd - Cut <= MaxTokens
      /\ (TopicChanges # {} => \A b \in TopicChanges : NextEnd <= b)
  <2>1. CASE TopicChanges # {}
    <3>1. TopicChanges \subseteq 0..Length /\ TopicChanges \subseteq Available
      <4>1. TopicChanges \subseteq Available
        BY DEF TopicChanges
      <4>2. \A b \in (Cut + 1)..Length : b \in 0..Length
        BY <1>1
      <4> QED
        BY <1>2, <4>1, <4>2
    <3>2. Min(TopicChanges) \in TopicChanges /\ \A x \in TopicChanges : Min(TopicChanges) <= x
      BY <1>1, <2>1, <3>1, Extremes
    <3> QED
      BY <1>2, <2>1, <3>1, <3>2 DEF NextEnd
  <2>2. CASE TopicChanges = {} /\ SizeCandidates # {}
    <3>1. SizeCandidates \subseteq Available \cup {n \in {Length} : Remaining <= MaxTokens}
      <4>1. LargeEnough \subseteq Available
        BY DEF LargeEnough
      <4>2. Remaining <= MaxTokens \/ ~(Remaining <= MaxTokens)
        OBVIOUS
      <4> QED
        BY <4>1 DEF SizeCandidates
    <3>2. SizeCandidates \subseteq (Cut + 1)..Length /\ \A b \in SizeCandidates : b - Cut <= MaxTokens
      BY <1>1, <1>2, <3>1 DEF Remaining
    <3>3. Nearest(SizeCandidates) \in SizeCandidates
      <4>1. SizeCandidates \subseteq 0..Length
        BY <1>1, <3>2
      <4> QED
        BY <2>2, <4>1, NearestChosen
    <3> QED
      BY <2>2, <3>2, <3>3 DEF NextEnd
  <2>3. CASE TopicChanges = {} /\ SizeCandidates = {}
    <3>1. PICK limit \in {TargetTokens, MaxTokens} : NextEnd = PrefixEnd(limit)
      BY <2>3 DEF NextEnd
    <3>2. limit \in Nat /\ limit > 0 /\ limit <= MaxTokens
      BY <1>1, <3>1
    <3>3. PrefixEnd(limit) \in (Cut + 1)..Length /\ PrefixEnd(limit) - Cut <= limit
      BY <3>2, PrefixWithin
    <3> QED
      BY <1>1, <2>3, <3>1, <3>2, <3>3
  <2> QED
    BY <2>1, <2>2, <2>3
<1>4. ASSUME NEW b \in DOMAIN similarity, similarity[b] = Low, Cut < b, b < NextEnd PROVE FALSE
  <2>1. b \in Nat
    BY DEF ChunksInv, ChunksType
  <2>2. b \in TopicChanges
    BY <1>1, <1>3, <1>4, <2>1 DEF TopicChanges, Available
  <2> QED
    BY <1>1, <1>3, <1>4, <2>1, <2>2
<1> QED
  BY <1>3, <1>4

\* Before the first cut there is nothing to say of the chunks.
LEMMA ChunksStart == ChunksInit => ChunksInv
<1> SUFFICES ASSUME ChunksInit PROVE ChunksInv
  OBVIOUS
<1>1. PICK n \in 1..MaxLength : blank \in [1..n -> BOOLEAN]
  BY DEF ChunksInit
<1>2. n \in Nat \ {0} /\ Length = n /\ blank \in Texts
  <2>1. n \in Nat \ {0}
    BY Limits
  <2>2. blank \in Seq(BOOLEAN) /\ Len(blank) = n
    BY <1>1, <2>1
  <2>3. blank # <<>>
    BY <2>1, <2>2
  <2> QED
    BY <2>1, <2>2, <2>3 DEF Texts, Length
<1>3. DOMAIN similarity \subseteq 1..(Length - 1) /\ \A b \in DOMAIN similarity : similarity[b] \in {Low, High}
  BY DEF ChunksInit, Length
<1>4. ends = <<>> /\ index = 0 /\ chunked = FALSE
  BY DEF ChunksInit
<1>5. ends \in Seq(Nat) /\ Len(ends) = 0 /\ DOMAIN ends = {} /\ Cut = 0
  BY <1>4 DEF Cut
<1>6. ASSUME NEW b \in DOMAIN similarity PROVE ~(b < Cut)
  BY <1>2, <1>3, <1>5
<1>7. ChunksType
  <2>1. index \in 0..(Len(ends) + 1)
    BY <1>4, <1>5
  <2>2. chunked \in BOOLEAN
    BY <1>4
  <2> QED
    BY <1>2, <1>3, <1>5, <2>1, <2>2 DEF ChunksType
<1> QED
  BY <1>4, <1>5, <1>6, <1>7 DEF ChunksInv

\* A cut makes a chunk within the bounds, and passes over no topic change.
LEMMA CutNextKeeps == ChunksInv /\ CutNext => ChunksInv'
<1> SUFFICES ASSUME ChunksInv, CutNext PROVE ChunksInv'
  OBVIOUS
<1>1. /\ index = 0 /\ Cut < Length /\ ends' = Append(ends, NextEnd)
      /\ UNCHANGED <<blank, similarity, index, chunked>>
  BY DEF CutNext
<1>2. PICK e \in (Cut + 1)..Length :
         /\ e = NextEnd /\ e - Cut <= MaxTokens
         /\ \A b \in DOMAIN similarity : similarity[b] = Low => ~(Cut < b /\ b < e)
  BY <1>1, NextEndWithin
<1>3. PICK k \in Nat : k = Len(ends)
  BY CutWithin
<1>4. /\ Cut \in Nat /\ Length \in Nat \ {0} /\ MaxTokens \in Nat
      /\ DOMAIN ends = 1..k /\ \A i \in 1..k : ends[i] \in Nat
  BY <1>3, CutWithin, Limits
<1>5. e \in Nat /\ e > Cut
  BY <1>4
<1>6. /\ ends' \in Seq(Nat) /\ Len(ends') = k + 1 /\ DOMAIN ends' = 1..(k + 1)
      /\ \A i \in 1..k : ends'[i] = ends[i]
      /\ ends'[k + 1] = e
  <2>1. ends \in Seq(Nat)
    BY DEF ChunksInv, ChunksType
  <2> QED
    BY <1>1, <1>2, <1>3, <1>5, <2>1
<1>7. Length' = Length
  BY <1>1 DEF Length
<1>8. Cut = IF k = 0 THEN 0 ELSE ends[k]
  <2>1. k = 0 <=> ends = <<>>
    BY <1>3 DEF ChunksInv, ChunksType
  <2> QED
    BY <1>3, <2>1 DEF Cut, Last
<1>9. Cut' = e
  BY <1>6 DEF Cut, Last
<1>10. ASSUME NEW i \in 1..(k + 1)
       PROVE  SpanTokens(i, i)' \in 1..MaxTokens /\ ends'[i] <= Length
  <2>1. CASE i = k + 1
    <3>1. ChunkStart(i)' = Cut
      BY <1>3, <1>6, <1>8, <2>1 DEF ChunkStart
    <3> QED
      BY <1>2, <1>4, <1>5, <1>6, <2>1, <3>1 DEF SpanTokens
  <2>2. CASE i # k + 1
    <3>1. i \in 1..k /\ (i # 1 => i - 1 \in 1..k)
      BY <1>3, <2>2
    <3>2. ends'[i] = ends[i] /\ ChunkStart(i)' = ChunkStart(i)
      BY <1>6, <3>1 DEF ChunkStart
    <3>3. SpanTokens(i, i) \in 1..MaxTokens /\ ends[i] <= Length
      BY <1>4, <3>1 DEF ChunksInv
    <3> QED
      BY <3>2, <3>3 DEF SpanTokens
  <2> QED
    BY <2>1, <2>2
<1>11. ASSUME NEW b \in DOMAIN similarity, similarity[b] = Low, b < e
       PROVE  b \in ToSet(ends')
  <2>1. b \in Nat /\ ~(Cut < b)
    BY <1>2, <1>11 DEF ChunksInv, ChunksType
  <2>2. CASE b < Cut
    <3>1. b \in ToSet(ends)
      BY <1>1, <1>11, <2>2 DEF ChunksInv
    <3>2. PICK i \in 1..k : b = ends[i]
      BY <1>4, <3>1 DEF ToSet
    <3>3. i \in 1..(k + 1) /\ ends'[i] = b
      BY <1>3, <1>6, <3>2
    <3> QED
      BY <1>6, <3>3 DEF ToSet
  <2>3. CASE b = Cut
    <3>1. b # 0
      BY <2>1 DEF ChunksInv, ChunksType
    <3>2. k # 0 /\ ends[k] = b
      BY <1>8, <2>3, <3>1
    <3>3. k \in 1..(k + 1) /\ ends'[k] = b
      BY <1>3, <1>6, <3>2
    <3> QED
      BY <1>6, <3>3 DEF ToSet
  <2> QED
    BY <1>4, <2>1, <2>2, <2>3
<1>12. ChunksType'
  BY <1>1, <1>3, <1>6, <1>7 DEF ChunksType, ChunksInv
<1>13. chunked' = FALSE /\ index' = 0
  BY <1>1, <1>3 DEF ChunksInv, ChunksType
<1>14. \A i \in DOMAIN ends' : SpanTokens(i, i)' \in 1..MaxTokens /\ ends'[i] <= Length
  BY <1>6, <1>10
<1>15. \A b \in DOMAIN similarity' : similarity'[b] = Low /\ b < Cut' => b \in ToSet(ends')
  BY <1>1, <1>9, <1>11
<1>16. \A i \in 1..(index' - 1) : Settled(i)'
  BY <1>13
<1> QED
  BY <1>7, <1>12, <1>13, <1>14, <1>15, <1>16 DEF ChunksInv, Length

\* When all is cut the merging begins.
LEMMA BeginMergeKeeps == ChunksInv /\ BeginMerge => ChunksInv'
<1> SUFFICES ASSUME ChunksInv, BeginMerge PROVE ChunksInv'
  OBVIOUS
<1>1. /\ index = 0 /\ Cut = Length /\ index' = 1
      /\ UNCHANGED <<blank, similarity, ends, chunked>>
  BY DEF BeginMerge
<1>2. Length \in Nat \ {0} /\ Len(ends) \in Nat
  BY CutWithin
<1>3. ends # <<>> /\ Last(ends) = Length
  BY <1>1, <1>2 DEF Cut
<1>4. Len(ends) # 0
  BY <1>3 DEF ChunksInv, ChunksType
<1>5. chunked = FALSE
  BY <1>1, <1>2 DEF ChunksInv, ChunksType
<1> QED
  BY <1>1, <1>2, <1>3, <1>5 DEF ChunksInv, ChunksType, Length, SpanTokens, ChunkStart, Last

\* Of the ends that may be dropped for a chunk one is the best.
LEMMA DroppedChosen ==
  ASSUME ChunksInv, NEW i \in DOMAIN ends, Mergeable(i) # {}
  PROVE  DroppedEnd(i) \in Mergeable(i)
<1>1. Mergeable(i) \subseteq {i - 1, i} /\ \A n \in Mergeable(i) : n \in 1..(Len(ends) - 1)
  BY CutWithin DEF Mergeable
<1>2. \A n \in DOMAIN ends : Across(ends[n]) \in {0, 1, 2}
  BY DEF Across, ChunksInv, ChunksType, Low, High, Certain
<1>3. \A n \in 1..(Len(ends) - 1) : Apart(SpanTokens(n, n + 1), TargetTokens) \in Int
  <2> SUFFICES ASSUME NEW n \in 1..(Len(ends) - 1)
               PROVE  Apart(SpanTokens(n, n + 1), TargetTokens) \in Int
    OBVIOUS
  <2>1. Len(ends) \in Nat /\ TargetTokens \in Nat /\ \A m \in 1..Len(ends) : ends[m] \in Nat
    BY CutWithin, Limits
  <2>2. n + 1 \in 1..Len(ends) /\ (n # 1 => n - 1 \in 1..Len(ends))
    BY <2>1
  <2>3. SpanTokens(n, n + 1) \in Int
    BY <2>1, <2>2 DEF SpanTokens, ChunkStart
  <2> QED
    BY <2>1, <2>3 DEF Apart
<1>4. \A m, n \in Mergeable(i) : Better(m, n) \/ Better(n, m)
  <2> SUFFICES ASSUME NEW m \in Mergeable(i), NEW n \in Mergeable(i)
               PROVE  Better(m, n) \/ Better(n, m)
    OBVIOUS
  <2>1. m \in DOMAIN ends /\ n \in DOMAIN ends /\ m \in Nat /\ n \in Nat
    BY <1>1, CutWithin
  <2>2. /\ Across(ends[m]) \in {0, 1, 2} /\ Across(ends[n]) \in {0, 1, 2}
        /\ Apart(SpanTokens(m, m + 1), TargetTokens) \in Int
        /\ Apart(SpanTokens(n, n + 1), TargetTokens) \in Int
    BY <1>1, <1>2, <1>3, <2>1
  <2> QED
    BY <2>1, <2>2 DEF Better
<1>5. \E m \in Mergeable(i) : \A n \in Mergeable(i) : Better(m, n)
  BY <1>1, <1>4
<1> QED
  BY <1>5 DEF DroppedEnd

\* Dropping an end merges the two chunks it lay between, and leaves the others.
LEMMA EndDropped ==
  ASSUME ChunksInv, NEW n \in 1..(Len(ends) - 1), ends' = RemoveAt(ends, n)
  PROVE  /\ ends' \in Seq(Nat) /\ Len(ends') = Len(ends) - 1
         /\ \A k \in 1..(Len(ends) - 1) : ends'[k] = IF k < n THEN ends[k] ELSE ends[k + 1]
         /\ \A k \in 1..(Len(ends) - 1) : ChunkStart(k)' = ChunkStart(IF k <= n THEN k ELSE k + 1)
<1>1. PICK len \in Nat : len = Len(ends)
  BY CutWithin
<1>2. PICK s \in Seq(Nat) : s = ends
  BY DEF ChunksInv, ChunksType
<1>3. PICK l, r : l = SubSeq(s, 1, n - 1) /\ r = SubSeq(s, n + 1, len)
  OBVIOUS
<1>4. /\ l \in Seq(Nat) /\ Len(l) = n - 1 /\ \A k \in 1..(n - 1) : l[k] = s[k]
      /\ r \in Seq(Nat) /\ Len(r) = len - n /\ \A k \in 1..(len - n) : r[k] = s[n + k]
  <2>1. PICK m \in Nat, p \in Nat : m = n - 1 /\ p = n + 1 /\ m <= len /\ 1 <= p /\ p <= len
    BY <1>1
  <2>2. \A k \in 1..len : s[k] \in Nat
    BY <1>1, <1>2
  <2>3. l \in Seq(Nat) /\ Len(l) = m /\ \A k \in 1..m : l[k] = s[k]
    BY <1>1, <1>2, <1>3, <2>1, <2>2
  <2>4. r \in Seq(Nat) /\ Len(r) = len - p + 1 /\ \A k \in 1..(len - p + 1) : r[k] = s[p + k - 1]
    BY <1>1, <1>2, <1>3, <2>1, <2>2
  <2>5. len - p + 1 = len - n /\ \A k \in 1..(len - n) : p + k - 1 = n + k
    BY <1>1, <2>1
  <2> QED
    BY <2>1, <2>3, <2>4, <2>5
<1>5. ends' = l \o r
  BY <1>1, <1>2, <1>3 DEF RemoveAt
<1>6. /\ ends' \in Seq(Nat) /\ Len(ends') = len - 1
      /\ \A k \in 1..(len - 1) : ends'[k] = IF k <= n - 1 THEN l[k] ELSE r[k - (n - 1)]
  <2>1. Len(l) + Len(r) = len - 1 /\ Len(l) \in Nat /\ Len(r) \in Nat
    BY <1>1, <1>4
  <2>2. l \o r \in Seq(Nat) /\ Len(l \o r) = Len(l) + Len(r)
    <3>1. PICK a \in Seq(Nat), b \in Seq(Nat) : a = l /\ b = r
      BY <1>4
    <3>2. a \o b \in Seq(Nat) /\ Len(a \o b) = Len(a) + Len(b)
      OBVIOUS
    <3> QED
      BY <3>1, <3>2
  <2>3. \A k \in 1..(Len(l) + Len(r)) : (l \o r)[k] = IF k <= Len(l) THEN l[k] ELSE r[k - Len(l)]
    BY SMTT(30), <1>4
  <2> QED
    BY <1>4, <1>5, <2>1, <2>2, <2>3
<1>7. ASSUME NEW k \in 1..(len - 1)
      PROVE  ends'[k] = IF k < n THEN ends[k] ELSE ends[k + 1]
  <2>1. CASE k < n
    <3>1. k <= n - 1 /\ k \in 1..(n - 1)
      BY <1>1, <2>1
    <3>2. ends'[k] = l[k]
      BY <1>6, <1>7, <3>1
    <3>3. l[k] = s[k]
      BY <1>4, <3>1
    <3> QED
      BY <1>2, <2>1, <3>2, <3>3
  <2>2. CASE k >= n
    <3>1. k - (n - 1) \in 1..(len - n) /\ n + (k - (n - 1)) = k + 1
      BY <1>1, <2>2
    <3> QED
      BY <1>1, <1>2, <1>4, <1>6, <2>2, <3>1
  <2> QED
    BY <1>1, <2>1, <2>2
<1>8. ASSUME NEW k \in 1..(len - 1)
      PROVE  ChunkStart(k)' = ChunkStart(IF k <= n THEN k ELSE k + 1)
  <2>1. CASE k = 1
    BY <1>1, <2>1 DEF ChunkStart
  <2>2. CASE k # 1
    <3>1. k - 1 \in 1..(len - 1) /\ (k <= n <=> k - 1 < n) /\ (k - 1) + 1 = k /\ (k + 1) - 1 = k
          /\ k + 1 # 1
      BY <1>1, <2>2
    <3>2. ChunkStart(k)' = ends'[k - 1]
      BY <2>2 DEF ChunkStart
    <3> QED
      BY <1>7, <2>2, <3>1, <3>2 DEF ChunkStart
  <2> QED
    BY <2>1, <2>2
<1> QED
  BY <1>1, <1>6, <1>7, <1>8
\* The merging settles a chunk, or merges two and goes on with what it made of them:
\* what lies before it has only grown, or has a greater neighbour.
LEMMA MergeKeeps == ChunksInv /\ Merge => ChunksInv'
<1> SUFFICES ASSUME ChunksInv, Merge PROVE ChunksInv'
  OBVIOUS
<1>1. /\ index \in DOMAIN ends /\ UNCHANGED <<blank, similarity, chunked>>
      /\ Length' = Length
  BY DEF Merge, Length
<1>2. PICK len \in Nat : len = Len(ends)
  BY CutWithin
<1>3. /\ DOMAIN ends = 1..len /\ index \in 1..len /\ \A k \in 1..len : ends[k] \in Nat
      /\ MaxTokens \in Nat /\ MinTokens \in Nat /\ Length \in Nat
  BY <1>1, <1>2, CutWithin, Limits
<1>4. index # 0 /\ ends # <<>> /\ Last(ends) = Length /\ chunked = FALSE
  BY <1>2, <1>3 DEF ChunksInv, ChunksType
<1>5. CASE Settled(index)
  <2>1. index' = index + 1 /\ UNCHANGED ends
    BY <1>5 DEF Merge, Settled
  <2>2. \A i \in 1..(index' - 1) : Settled(i)
    BY <1>3, <1>5, <2>1 DEF ChunksInv
  <2>3. \A i \in 1..(index' - 1) : Settled(i)'
    BY <2>1, <2>2 DEF Settled, SpanTokens, ChunkStart, Mergeable
  <2>4. index' \in 0..(Len(ends) + 1) /\ index' # 0
    BY <1>2, <1>3, <2>1
  <2> QED
    BY <1>1, <1>4, <2>1, <2>3, <2>4 DEF ChunksInv, ChunksType, SpanTokens, ChunkStart, Last
<1>6. CASE ~Settled(index)
  <2>1. PICK n : n = DroppedEnd(index)
    OBVIOUS
  <2>2. /\ ends' = RemoveAt(ends, n)
        /\ index' = IF n = index THEN index ELSE Max({1, index - 1})
    BY <1>6, <2>1 DEF Merge, Settled
  <2>3. n \in Mergeable(index)
    BY <1>1, <1>6, <2>1, DroppedChosen DEF Settled
  <2>4. n \in {index - 1, index} /\ n \in 1..(len - 1) /\ SpanTokens(n, n + 1) <= MaxTokens
    BY <1>2, <1>3, <2>3 DEF Mergeable
  <2>5. index' = n
    <3>1. CASE n = index
      BY <2>2, <3>1
    <3>2. CASE n # index
      <4>1. n = index - 1 /\ index - 1 >= 1
        BY <1>3, <2>4, <3>2
      <4>2. PICK m : m = Max({1, n})
        OBVIOUS
      <4>3. m \in {1, n} /\ \A x \in {1, n} : x <= m
        <5>1. {1, n} \subseteq 0..n /\ n \in Nat
          BY <2>4, <4>1
        <5> QED
          BY <4>2, <5>1, Extremes
      <4> QED
        BY <2>2, <2>4, <3>2, <4>1, <4>2, <4>3
    <3> QED
      BY <3>1, <3>2
  <2>6. /\ ends' \in Seq(Nat) /\ Len(ends') = len - 1
        /\ \A k \in 1..(len - 1) : ends'[k] = IF k < n THEN ends[k] ELSE ends[k + 1]
        /\ \A k \in 1..(len - 1) : ChunkStart(k)' = ChunkStart(IF k <= n THEN k ELSE k + 1)
    BY <1>2, <2>2, <2>4, EndDropped
  <2>7. DOMAIN ends' = 1..(len - 1)
    BY <2>6
  <2>8. \A k \in 1..len : ChunkStart(k) \in Nat /\ SpanTokens(k, k) \in 1..MaxTokens
    <3>1. \A k \in 1..len : k # 1 => k - 1 \in 1..len
      BY <1>2
    <3>2. \A k \in 1..len : ChunkStart(k) \in Nat
      BY <1>3, <3>1 DEF ChunkStart
    <3> QED
      BY <1>3, <3>2 DEF ChunksInv
  <2>9. \A i \in 1..(len - 1), j \in 1..(len - 1) :
           SpanTokens(i, j)' = ends'[j] - ChunkStart(i)'
    BY DEF SpanTokens
  <2>10. ASSUME NEW k \in 1..(len - 1)
         PROVE  SpanTokens(k, k)' \in 1..MaxTokens /\ ends'[k] <= Length
    <3>1. k \in 1..len /\ k + 1 \in 1..len
      BY <1>2
    <3>2. ends[k] <= Length /\ ends[k + 1] <= Length
      BY <1>3, <3>1 DEF ChunksInv
    <3>3. CASE k < n
      <4>1. SpanTokens(k, k)' = SpanTokens(k, k)
        BY <2>4, <2>6, <2>9, <3>3 DEF SpanTokens
      <4> QED
        BY <2>6, <2>8, <3>1, <3>2, <3>3, <4>1
    <3>4. CASE k = n
      <4>1. SpanTokens(k, k)' = SpanTokens(n, n + 1)
        BY <2>4, <2>6, <2>9, <3>4 DEF SpanTokens
      <4>2. SpanTokens(n, n + 1) = SpanTokens(n, n) + SpanTokens(n + 1, n + 1)
        <5>1. n \in 1..len /\ n + 1 \in 1..len /\ ChunkStart(n + 1) = ends[n]
          BY <1>2, <2>4 DEF ChunkStart
        <5> QED
          BY <1>3, <2>8, <5>1 DEF SpanTokens
      <4>3. SpanTokens(n, n) \in 1..MaxTokens /\ SpanTokens(n + 1, n + 1) \in 1..MaxTokens
        BY <2>8, <3>1, <3>4
      <4>4. SpanTokens(n, n + 1) \in 1..MaxTokens
        BY <1>3, <2>4, <4>2, <4>3
      <4> QED
        BY <2>6, <3>2, <3>4, <4>1, <4>4
    <3>5. CASE k > n
      <4>1. SpanTokens(k, k)' = SpanTokens(k + 1, k + 1)
        BY <2>4, <2>6, <2>9, <3>5 DEF SpanTokens
      <4> QED
        BY <2>4, <2>6, <2>8, <3>1, <3>2, <3>5, <4>1
    <3> QED
      BY <2>4, <3>3, <3>4, <3>5
  <2>11. Last(ends') = Length
    <3>1. len - 1 \in 1..(len - 1) /\ ~(len - 1 < n) /\ (len - 1) + 1 = len
      BY <1>2, <2>4
    <3>2. ends'[len - 1] = ends[len]
      BY <2>6, <3>1
    <3> QED
      BY <1>2, <1>4, <2>6, <3>2 DEF Last
  <2>12. ASSUME NEW k \in 1..(n - 1)
         PROVE  Settled(k)'
    <3>1. k \in 1..(index - 1) /\ k \in 1..(len - 1) /\ k \in 1..len /\ k < n
      BY <1>2, <1>3, <2>4
    <3>2. Settled(k)
      BY <3>1 DEF ChunksInv
    <3>3. SpanTokens(k, k)' = SpanTokens(k, k)
      BY <2>4, <2>6, <2>9, <3>1 DEF SpanTokens
    <3>4. ASSUME Mergeable(k) = {} PROVE Mergeable(k)' = {}
      <4>1. ASSUME NEW m \in {k - 1, k}, 1 <= m, m < len - 1, SpanTokens(m, m + 1)' <= MaxTokens
            PROVE  FALSE
        <5>1. m \in 1..(len - 1) /\ m + 1 \in 1..(len - 1) /\ m < len /\ m + 1 \in 1..len
              /\ m < n
          BY <1>2, <2>4, <3>1, <4>1
        <5>2. SpanTokens(m, m + 1) > MaxTokens
          <6>1. ~(SpanTokens(m, m + 1) <= MaxTokens)
            BY <1>2, <3>4, <4>1, <5>1 DEF Mergeable
          <6>2. SpanTokens(m, m + 1) \in Int
            BY <1>3, <2>8, <5>1 DEF SpanTokens
          <6> QED
            BY <1>3, <6>1, <6>2
        <5>3. ChunkStart(m)' = ChunkStart(m)
          BY <2>4, <2>6, <5>1
        <5>4. ends'[m + 1] >= ends[m + 1]
          <6>1. CASE m + 1 < n
            BY <1>3, <2>6, <5>1, <6>1
          <6>2. CASE m + 1 = n
            <7>1. ends'[n] = ends[n + 1] /\ n \in 1..len /\ n + 1 \in 1..len
                  /\ ChunkStart(n + 1) = ends[n]
              BY <1>2, <2>4, <2>6, <5>1, <6>2 DEF ChunkStart
            <7>2. SpanTokens(n + 1, n + 1) \in 1..MaxTokens
              BY <2>8, <7>1
            <7> QED
              BY <1>3, <6>2, <7>1, <7>2 DEF SpanTokens
          <6> QED
            BY <2>4, <5>1, <6>1, <6>2
        <5>5. SpanTokens(m, m + 1)' = ends'[m + 1] - ChunkStart(m)
          BY <2>9, <5>1, <5>3
        <5>6. ends'[m + 1] \in Nat
          BY <2>6, <2>7, <5>1
        <5>7. ChunkStart(m) \in Nat /\ ends[m + 1] \in Nat
          BY SMTT(30), <1>2, <1>3, <2>8, <5>1
        <5>8. ends[m + 1] - ChunkStart(m) > MaxTokens
          BY <5>2 DEF SpanTokens
        <5>9. ends'[m + 1] - ChunkStart(m) <= MaxTokens
          BY <4>1, <5>5
        <5> QED
          BY <1>3, <5>4, <5>6, <5>7, <5>8, <5>9
      <4>2. (len - 1) = Len(ends')
        BY <2>6
      <4> QED
        BY <4>1, <4>2 DEF Mergeable
    <3> QED
      BY <1>1, <3>2, <3>3, <3>4 DEF Settled
  <2>13. index' \in 0..(Len(ends') + 1) /\ index' # 0
    BY <1>2, <2>4, <2>5, <2>6
  <2>14. ends' # <<>>
    BY <1>2, <2>4, <2>6
  <2>15. ChunksType'
    BY <1>1, <2>6, <2>13 DEF ChunksInv, ChunksType
  <2> QED
    BY <1>1, <1>4, <2>5, <2>7, <2>10, <2>11, <2>12, <2>13, <2>14, <2>15 DEF ChunksInv
<1> QED
  BY <1>5, <1>6

\* chunk_paragraph returns when the last chunk is settled.
LEMMA ReturnKeeps == ChunksInv /\ Return => ChunksInv'
BY DEF Return, ChunksInv, ChunksType, Length, SpanTokens, ChunkStart, Cut, Settled, Mergeable

\* Every step keeps the invariant of the chunks.
LEMMA ChunksKeep ==
  ASSUME ChunksInv, [ChunksNext]_chunkVars
  PROVE  ChunksInv'
<1>1. CASE UNCHANGED chunkVars
  BY <1>1 DEF chunkVars, ChunksInv, ChunksType, Length, SpanTokens, ChunkStart, Cut, Settled, Mergeable
<1> QED
  BY <1>1, CutNextKeeps, BeginMergeKeeps, MergeKeeps, ReturnKeeps DEF ChunksNext

\* What the invariant says of the chunks, and of those that are returned.
LEMMA ChunksTold == ChunksInv => ChunksSound
<1> SUFFICES ASSUME ChunksInv PROVE ChunksSound
  OBVIOUS
<1>1. ASSUME chunked
      PROVE  /\ Last(ends) = Length
             /\ \A i \in DOMAIN ends, n \in 1..(Len(ends) - 1) :
                  SpanTokens(i, i) < MinTokens /\ n \in {i - 1, i} => SpanTokens(n, n + 1) > MaxTokens
  <2>1. PICK len \in Nat : len = Len(ends)
    BY CutWithin
  <2>2. /\ DOMAIN ends = 1..len /\ \A k \in 1..len : ends[k] \in Nat
        /\ MaxTokens \in Nat /\ MinTokens \in Nat
    BY <2>1, CutWithin, Limits
  <2>3. index \in Nat /\ index > len
    BY <1>1, <2>1 DEF ChunksInv, ChunksType
  <2>4. Last(ends) = Length
    BY <2>1, <2>3 DEF ChunksInv
  <2>5. ASSUME NEW i \in 1..len, NEW n \in 1..(len - 1), SpanTokens(i, i) < MinTokens, n \in {i - 1, i}
        PROVE  SpanTokens(n, n + 1) > MaxTokens
    <3>1. Settled(i)
      <4>1. i \in 1..(index - 1)
        BY <2>1, <2>3
      <4> QED
        BY <4>1 DEF ChunksInv
    <3>2. SpanTokens(i, i) \in Int
      BY <2>2 DEF ChunksInv
    <3>3. Mergeable(i) = {}
      BY <2>2, <2>5, <3>1, <3>2 DEF Settled
    <3>4. n < len /\ 1 <= n /\ n + 1 \in 1..len /\ (n # 1 => n - 1 \in 1..len)
      BY <2>1
    <3>5. SpanTokens(n, n + 1) \in Int
      BY <2>2, <3>4 DEF SpanTokens, ChunkStart
    <3> QED
      BY <2>1, <2>2, <2>5, <3>3, <3>4, <3>5 DEF Mergeable
  <2> QED
    BY <2>1, <2>2, <2>4, <2>5
<1> QED
  BY <1>1 DEF ChunksSound, ChunksInv

\* Whatever is chunked, no text is lost, no chunk breaks the bounds, no topic change
\* is cut over, and a small chunk is left only where no neighbour could take it
\* (chunker.py:128-279), for any text and any bounds in order.
THEOREM ChunksAlwaysSound == ChunksSpec => []ChunksSound
<1>1. ChunksInv /\ [ChunksNext]_chunkVars => ChunksInv'
  BY ChunksKeep
<1> QED
  BY <1>1, ChunksStart, ChunksTold, PTL DEF ChunksSpec

---------------------------------------------------------------------------
(* Retrieval: the members of a list at some of its places *)

\* A list of what stands at places of another, in their order.
Takes(kept, at, list, places, n) ==
    /\ \A k \in 1..Len(kept) : at[k] \in places /\ at[k] \in 1..n /\ kept[k] = list[at[k]]
    /\ \A k, l \in 1..Len(kept) : k < l => at[k] < at[l]
    /\ \A i \in places : i \in 1..n => \E k \in 1..Len(kept) : at[k] = i

\* AtPlaces goes through the list once.
LEMMA PlacesTaken ==
  ASSUME NEW S, NEW list \in Seq(S), NEW places
  PROVE  /\ AtPlaces(list, places) \in Seq(S)
         /\ \E at : Takes(AtPlaces(list, places), at, list, places, Len(list))
<1> DEFINE N == Len(list)
           Def(g) == [n \in 0..N |->
                        IF n = 0 THEN <<>>
                        ELSE IF n \in places THEN Append(g[n - 1], list[n]) ELSE g[n - 1]]
           f == CHOOSE g : g = Def(g)
           T == [n \in 0..N |-> {s \in Seq(S) : \E at : Takes(s, at, list, places, n)}]
           next == [n \in 1..N |-> [s \in Seq(S) |-> IF n \in places THEN Append(s, list[n]) ELSE s]]
<1>1. N \in Nat /\ \A n \in 1..N : list[n] \in S
  OBVIOUS
<1>2. <<>> \in T[0]
  <2>1. Takes(<<>>, <<>>, list, places, 0)
    BY DEF Takes
  <2> QED
    BY <1>1, <2>1
<1>3. ASSUME NEW n \in 1..N, NEW s \in T[n - 1] PROVE next[n][s] \in T[n]
  <2>1. n - 1 \in 0..N /\ n \in 0..N /\ n \in Nat \ {0}
    BY <1>1
  <2>2. s \in Seq(S) /\ \E at : Takes(s, at, list, places, n - 1)
    BY <1>3, <2>1
  <2>3. PICK at : Takes(s, at, list, places, n - 1)
    BY <2>2
  <2>4. next[n][s] = IF n \in places THEN Append(s, list[n]) ELSE s
    BY <2>2
  <2>5. CASE n \notin places
    <3>1. \A i \in places : i \in 1..n => i \in 1..(n - 1)
      BY <2>1, <2>5
    <3>2. \A i \in 1..(n - 1) : i \in 1..n
      BY <2>1
    <3>3. Takes(s, at, list, places, n)
      BY <2>3, <3>1, <3>2, Zenon DEF Takes
    <3> QED
      BY <2>1, <2>2, <2>4, <2>5, <3>3
  <2>6. CASE n \in places
    <3> DEFINE m == Len(s) + 1
               at2 == [k \in 1..m |-> IF k = m THEN n ELSE at[k]]
    <3>1. PICK t : t = Append(s, list[n])
      OBVIOUS
    <3>2. /\ t \in Seq(S) /\ Len(t) = m /\ Len(s) \in Nat
          /\ \A k \in 1..Len(s) : t[k] = s[k]
          /\ t[m] = list[n]
      BY <1>1, <2>2, <3>1, Appended
    <3>3. at2[m] = n /\ m \in 1..m /\ \A k \in 1..m : k # m => k \in 1..Len(s) /\ at2[k] = at[k]
      BY <3>2
    <3> HIDE DEF at2
    <3>4. \A k \in 1..Len(t) : at2[k] \in places /\ at2[k] \in 1..n /\ t[k] = list[at2[k]]
      <4>1. SUFFICES ASSUME NEW k \in 1..m
                     PROVE  at2[k] \in places /\ at2[k] \in 1..n /\ t[k] = list[at2[k]]
        BY <3>2
      <4>2. CASE k = m
        BY <2>1, <2>6, <3>2, <3>3, <4>2
      <4>3. CASE k # m
        <5>1. k \in 1..Len(s) /\ at2[k] = at[k] /\ t[k] = s[k]
          BY <3>2, <3>3, <4>1, <4>3
        <5>2. at[k] \in places /\ at[k] \in 1..(n - 1) /\ s[k] = list[at[k]]
          BY <2>3, <5>1 DEF Takes
        <5>3. at[k] \in 1..n
          BY <2>1, <5>2
        <5> QED
          BY <5>1, <5>2, <5>3
      <4> QED
        BY <4>2, <4>3
    <3>5. \A k, l \in 1..Len(t) : k < l => at2[k] < at2[l]
      <4>1. SUFFICES ASSUME NEW k \in 1..m, NEW l \in 1..m, k < l PROVE at2[k] < at2[l]
        BY <3>2
      <4>2. k \in 1..Len(s) /\ at2[k] = at[k] /\ at[k] \in 1..(n - 1)
        BY <2>3, <3>2, <3>3, <4>1 DEF Takes
      <4>3. CASE l = m
        BY <2>1, <3>3, <4>2, <4>3
      <4>4. CASE l # m
        BY <2>3, <3>3, <4>1, <4>2, <4>4 DEF Takes
      <4> QED
        BY <4>3, <4>4
    <3>6. \A i \in places : i \in 1..n => \E k \in 1..Len(t) : at2[k] = i
      <4>1. SUFFICES ASSUME NEW i \in places, i \in 1..n PROVE \E k \in 1..m : at2[k] = i
        BY <3>2
      <4>2. CASE i = n
        BY <3>3, <4>2
      <4>3. CASE i # n
        <5>1. i \in 1..(n - 1)
          BY <2>1, <4>1, <4>3
        <5>2. PICK k \in 1..Len(s) : at[k] = i
          BY <2>3, <4>1, <5>1 DEF Takes
        <5>3. k \in 1..m /\ k # m
          BY <3>2, <5>2
        <5> QED
          BY <3>3, <5>2, <5>3
      <4> QED
        BY <4>2, <4>3
    <3>7. Takes(t, at2, list, places, n)
      BY <3>4, <3>5, <3>6 DEF Takes
    <3> QED
      BY <2>1, <2>4, <2>6, <3>1, <3>2, <3>7
  <2> QED
    BY <2>5, <2>6
<1>4. PICK g : Solves(g, next, T, <<>>, N)
  <2>1. StepsInto(next, T, <<>>, N)
    BY <1>2, <1>3 DEF StepsInto
  <2> HIDE DEF T, next, f, N
  <2> QED
    BY <1>1, <2>1, Iterates
<1>5. \A n \in 0..N : T[n] \subseteq Seq(S)
  OBVIOUS
<1>6. \A n \in 1..N : next[n][g[n - 1]] = IF n \in places THEN Append(g[n - 1], list[n]) ELSE g[n - 1]
  <2>1. \A n \in 1..N : n - 1 \in 0..N
    BY <1>1
  <2>2. \A n \in 1..N : g[n - 1] \in Seq(S)
    <3> HIDE DEF T
    <3> QED
      BY <1>4, <1>5, <2>1 DEF Solves
  <2> QED
    BY <2>2
<1> HIDE DEF T, next
<1> DEFINE h == [n \in 0..N |-> g[n]]
<1>7. h = Def(h)
  <2>1. \A n \in 0..N : n # 0 => n - 1 \in 0..N /\ n \in 1..N
    BY <1>1
  <2>2. h = [n \in 0..N |-> IF n = 0 THEN <<>>
                            ELSE IF n \in places THEN Append(h[n - 1], list[n]) ELSE h[n - 1]]
    BY <1>4, <1>6, <2>1 DEF Solves
  <2> QED
    BY <2>2
<1>8. f = Def(f)
  <2> HIDE DEF h
  <2> QED
    BY <1>7, Zenon
<1>9. AtPlaces(list, places) = f[N]
  BY Zenon DEF AtPlaces
<1> HIDE DEF f
<1>10. \A n \in 0..N : f[n] = g[n]
  <2> DEFINE G == {n \in 0..N : f[n] = g[n]}
  <2>1. 0 \in G
    BY <1>1, <1>4, <1>8 DEF Solves
  <2>2. ASSUME NEW n \in 1..N, n - 1 \in G PROVE n \in G
    <3>1. n \in 0..N /\ n # 0 /\ f[n - 1] = g[n - 1]
      BY <1>1, <2>2
    <3>2. f[n] = IF n \in places THEN Append(f[n - 1], list[n]) ELSE f[n - 1]
      BY <1>8, <3>1
    <3> QED
      BY <1>4, <1>6, <3>1, <3>2 DEF Solves
  <2> HIDE DEF G
  <2>3. \A n \in 0..N : n \in G
    BY <1>1, <2>1, <2>2, Upward
  <2> USE DEF G
  <2> QED
    BY <2>3
<1>11. f[N] \in T[N]
  BY <1>1, <1>4, <1>10 DEF Solves
<1> QED
  BY <1>1, <1>9, <1>11 DEF T

---------------------------------------------------------------------------
(* Retrieval: the quarantine *)

RowFaults == {"none", "other_user"} \cup Recoverable \cup Dropped
RowRecords == [id : 1..4, fault : RowFaults, canonical : Nat, segment : Nat]
Accumulated == [results : Seq(RowRecords), seen : SUBSET Nat, ids : SUBSET Nat, canonicals : SUBSET Nat]

\* Each row of a list has an identifier of its own.
EachOnce(list) == \A p, q \in 1..Len(list) : list[p].id = list[q].id => p = q

\* What the storage client's loop knows after n rows: the first sound row of each
\* identifier, the identifiers it saw twice, and the conversations it gives up.
Usable(list, i) == list[i].fault = "none"
FirstOf(list, i) == Usable(list, i) /\ \A j \in 1..(i - 1) : Usable(list, j) => list[j].id # list[i].id
TwiceIn(list, n, i) ==
    Usable(list, i) /\ \E j \in 1..n : j # i /\ Usable(list, j) /\ list[j].id = list[i].id
SpoiledIn(list, n, i) == list[i].fault \in Recoverable \/ TwiceIn(list, n, i)
StorageRead(acc, list, n) ==
    /\ acc \in Accumulated /\ EachOnce(acc.results)
    /\ \A x : Occurs(acc.results, x) <=> \E i \in 1..n : FirstOf(list, i) /\ x = list[i]
    /\ \A x : x \in acc.seen <=> \E i \in 1..n : Usable(list, i) /\ x = list[i].id
    /\ \A x : x \in acc.ids <=> \E i \in 1..n : TwiceIn(list, n, i) /\ x = list[i].id
    /\ \A x : x \in acc.canonicals <=>
                 Conversations /\ \E i \in 1..n : SpoiledIn(list, n, i) /\ x = list[i].canonical

\* What one more row adds to what is known twice.
LEMMA OneMoreRow ==
  ASSUME NEW list \in Seq(RowRecords), NEW n \in 1..Len(list)
  PROVE  /\ \A i \in 1..n : i \in 1..(n - 1) \/ i = n
         /\ \A i \in 1..(n - 1) : i \in 1..n /\ i # n
         /\ \A i \in 1..n : TwiceIn(list, n, i) <=>
               \/ i # n /\ TwiceIn(list, n - 1, i)
               \/ i # n /\ Usable(list, i) /\ Usable(list, n) /\ list[i].id = list[n].id
               \/ i = n /\ Usable(list, n) /\ \E j \in 1..(n - 1) : Usable(list, j) /\ list[j].id = list[n].id
<1>1. /\ \A i \in 1..n : i \in 1..(n - 1) \/ i = n
      /\ \A i \in 1..(n - 1) : i \in 1..n /\ i # n
  OBVIOUS
<1>2. n \in 1..n
  OBVIOUS
<1> QED
  BY <1>1, <1>2, Zenon DEF TwiceIn

\* A row that is dropped, or only gives its conversation up.
LEMMA UnusableRow ==
  ASSUME NEW list \in Seq(RowRecords), NEW n \in 1..Len(list), NEW acc, StorageRead(acc, list, n - 1),
         list[n].fault \in Recoverable \cup Dropped
  PROVE  StorageRead(StorageRow(acc, list[n]), list, n)
<1>1. ~Usable(list, n) /\ list[n] \in RowRecords
  BY DEF Usable, Recoverable, Dropped
<1>2. acc \in Accumulated
  BY DEF StorageRead
<1>3. \A i \in 1..n : FirstOf(list, i) => i \in 1..(n - 1)
  BY <1>1, OneMoreRow DEF FirstOf
<1>4. \A i \in 1..n : TwiceIn(list, n, i) <=> i \in 1..(n - 1) /\ TwiceIn(list, n - 1, i)
  BY <1>1, OneMoreRow
<1>5. /\ \A x : (\E i \in 1..n : FirstOf(list, i) /\ x = list[i])
                  <=> \E i \in 1..(n - 1) : FirstOf(list, i) /\ x = list[i]
      /\ \A x : (\E i \in 1..n : Usable(list, i) /\ x = list[i].id)
                  <=> \E i \in 1..(n - 1) : Usable(list, i) /\ x = list[i].id
      /\ \A x : (\E i \in 1..n : TwiceIn(list, n, i) /\ x = list[i].id)
                  <=> \E i \in 1..(n - 1) : TwiceIn(list, n - 1, i) /\ x = list[i].id
  <2>1. \A i \in 1..n : Usable(list, i) => i \in 1..(n - 1)
    BY <1>1, OneMoreRow
  <2> QED
    BY <1>3, <1>4, <2>1, OneMoreRow, Zenon
<1>6. acc \in Accumulated /\ EachOnce(acc.results)
  BY DEF StorageRead
<1>7. \A x : Occurs(acc.results, x) <=> \E i \in 1..n : FirstOf(list, i) /\ x = list[i]
  BY <1>5, Zenon DEF StorageRead
<1>8. \A x : x \in acc.seen <=> \E i \in 1..n : Usable(list, i) /\ x = list[i].id
  BY <1>5, ZenonT(40) DEF StorageRead
<1>9. \A x : x \in acc.ids <=> \E i \in 1..n : TwiceIn(list, n, i) /\ x = list[i].id
  BY <1>5, ZenonT(40) DEF StorageRead
<1>10. CASE list[n].fault \in Dropped
  <2>1. StorageRow(acc, list[n]) = acc
    BY <1>10 DEF StorageRow, Dropped, Recoverable
  <2>2. list[n].fault \notin Recoverable
    BY <1>10 DEF Dropped, Recoverable
  <2>3. \A i \in 1..n : SpoiledIn(list, n, i) <=> i \in 1..(n - 1) /\ SpoiledIn(list, n - 1, i)
    BY <1>4, <2>2, OneMoreRow DEF SpoiledIn
  <2>4. \A x : (\E i \in 1..n : SpoiledIn(list, n, i) /\ x = list[i].canonical)
                <=> \E i \in 1..(n - 1) : SpoiledIn(list, n - 1, i) /\ x = list[i].canonical
    BY <2>3, OneMoreRow, Zenon
  <2>5. \A x : x \in acc.canonicals <=>
                 Conversations /\ \E i \in 1..n : SpoiledIn(list, n, i) /\ x = list[i].canonical
    BY <2>4, Zenon DEF StorageRead
  <2> QED
    BY <1>6, <1>7, <1>8, <1>9, <2>1, <2>5, Zenon DEF StorageRead
<1>11. CASE list[n].fault \in Recoverable
  <2>1. PICK given \in SUBSET Nat : given = acc.canonicals \cup IF Conversations THEN {list[n].canonical} ELSE {}
    BY <1>1, <1>2 DEF Accumulated, RowRecords
  <2>2. PICK new : new = StorageRow(acc, list[n])
    OBVIOUS
  <2>3. new = [acc EXCEPT !.canonicals = given]
    BY <1>11, <2>1, <2>2 DEF StorageRow, Dropped, Recoverable
  <2>4. /\ new \in Accumulated /\ new.results = acc.results /\ new.seen = acc.seen
        /\ new.ids = acc.ids /\ new.canonicals = given
    BY <1>2, <2>1, <2>3, Zenon DEF Accumulated
  <2>5. \A i \in 1..n : SpoiledIn(list, n, i) <=> i = n \/ (i \in 1..(n - 1) /\ SpoiledIn(list, n - 1, i))
    BY <1>4, <1>11, OneMoreRow DEF SpoiledIn
  <2>6. \A x : x \in new.canonicals <=>
           Conversations /\ \E i \in 1..n : SpoiledIn(list, n, i) /\ x = list[i].canonical
    <3>1. n \in 1..n
      OBVIOUS
    <3> QED
      BY <2>1, <2>4, <2>5, <3>1, OneMoreRow DEF StorageRead
  <2>7. StorageRead(new, list, n)
    BY <1>6, <1>7, <1>8, <1>9, <2>4, <2>6, Zenon DEF StorageRead
  <2> QED
    BY <2>2, <2>7
<1> QED
  BY <1>10, <1>11

\* A sound row with an identifier that was not seen is taken.
LEMMA FirstRow ==
  ASSUME NEW list \in Seq(RowRecords), NEW n \in 1..Len(list), NEW acc, StorageRead(acc, list, n - 1),
         Usable(list, n), list[n].id \notin acc.seen
  PROVE  StorageRead(StorageRow(acc, list[n]), list, n)
<1>1. acc \in Accumulated /\ list[n] \in RowRecords /\ acc.results \in Seq(RowRecords)
  BY DEF StorageRead, Accumulated
<1>2. \A x : Occurs(acc.results, x) <=> \E i \in 1..(n - 1) : FirstOf(list, i) /\ x = list[i]
  BY Zenon DEF StorageRead
<1>3. \A x : x \in acc.seen <=> \E i \in 1..(n - 1) : Usable(list, i) /\ x = list[i].id
  BY Zenon DEF StorageRead
<1>4. \A x : x \in acc.ids <=> \E i \in 1..(n - 1) : TwiceIn(list, n - 1, i) /\ x = list[i].id
  BY Zenon DEF StorageRead
<1>5. \A x : x \in acc.canonicals <=>
                 Conversations /\ \E i \in 1..(n - 1) : SpoiledIn(list, n - 1, i) /\ x = list[i].canonical
  BY Zenon DEF StorageRead
<1>6. /\ \A i \in 1..n : i \in 1..(n - 1) \/ i = n
      /\ \A i \in 1..(n - 1) : i \in 1..n /\ i # n
  BY OneMoreRow
<1>7. PICK row \in RowRecords : row = list[n]
  BY <1>1
<1>8. PICK results \in Seq(RowRecords) : results = Append(acc.results, row)
  BY <1>1, <1>7, Appended
<1>9. PICK seen \in SUBSET Nat : seen = acc.seen \cup {row.id}
  <2>1. row.id \in Nat /\ acc.seen \subseteq Nat
    BY <1>1, <1>7, SMTT(40) DEF Accumulated, RowRecords
  <2> QED
    BY <2>1
<1>10. PICK new : new = StorageRow(acc, list[n])
  OBVIOUS
<1>11. new = [acc EXCEPT !.seen = seen, !.results = results]
  <2>1. row.fault \notin Dropped /\ row.fault \notin Recoverable
    BY <1>7 DEF Usable, Dropped, Recoverable
  <2> QED
    BY <1>7, <1>8, <1>9, <1>10, <2>1 DEF StorageRow, Accept
<1>12. /\ new \in Accumulated /\ new.results = results /\ new.seen = seen
      /\ new.ids = acc.ids /\ new.canonicals = acc.canonicals
  BY <1>1, <1>8, <1>9, <1>11, Zenon DEF Accumulated
<1>13. \A i \in 1..(n - 1) : Usable(list, i) => list[i].id # row.id
  BY <1>7, <1>3, Zenon
<1>14. n \in 1..n /\ FirstOf(list, n)
  BY <1>7, <1>13 DEF FirstOf
<1>15. \A i \in 1..n : TwiceIn(list, n, i) <=> i \in 1..(n - 1) /\ TwiceIn(list, n - 1, i)
  BY <1>7, <1>13, OneMoreRow
<1>16. \A i \in 1..n : SpoiledIn(list, n, i) <=> i \in 1..(n - 1) /\ SpoiledIn(list, n - 1, i)
  <2>1. ~SpoiledIn(list, n, n)
    <3>1. list[n].fault \notin Recoverable
      BY DEF Usable, Recoverable
    <3>2. ~ n \in 1..(n - 1)
      OBVIOUS
    <3> QED
      BY <1>14, <1>15, <3>1, <3>2 DEF SpoiledIn
  <2> QED
    BY <1>15, <2>1, OneMoreRow, Zenon DEF SpoiledIn
<1>17. \A x : Occurs(results, x) <=> Occurs(acc.results, x) \/ x = row
  <2>1. /\ Len(results) = Len(acc.results) + 1 /\ Len(acc.results) \in Nat
        /\ \A k \in 1..Len(acc.results) : results[k] = acc.results[k]
        /\ results[Len(acc.results) + 1] = row
    BY <1>1, <1>8, Appended
  <2>2. \A k \in 1..Len(results) : k \in 1..Len(acc.results) \/ k = Len(acc.results) + 1
    BY <2>1
  <2>3. \A k \in 1..Len(acc.results) : k \in 1..Len(results)
    BY <2>1
  <2>4. Len(acc.results) + 1 \in 1..Len(results)
    BY <2>1
  <2> QED
    BY <2>1, <2>2, <2>3, <2>4, Zenon DEF Occurs
<1>18. \A x : Occurs(new.results, x) <=> \E i \in 1..n : FirstOf(list, i) /\ x = list[i]
  BY <1>7, <1>12, <1>14, <1>17, <1>2, <1>6, Zenon
<1>19. EachOnce(new.results)
  <2>1. \A k \in 1..Len(acc.results) : acc.results[k].id # row.id
    <3>1. \A k \in 1..Len(acc.results) : \E i \in 1..(n - 1) : FirstOf(list, i) /\ acc.results[k] = list[i]
      BY <1>2, Zenon DEF Occurs
    <3> QED
      BY <1>13, <3>1 DEF FirstOf
  <2>2. /\ Len(results) = Len(acc.results) + 1 /\ Len(acc.results) \in Nat
        /\ \A k \in 1..Len(acc.results) : results[k] = acc.results[k]
        /\ results[Len(acc.results) + 1] = row
    BY <1>1, <1>8, Appended
  <2>3. \A k \in 1..Len(results) : k \in 1..Len(acc.results) \/ k = Len(acc.results) + 1
    BY <2>2
  <2> QED
    <3>1. \A k, l \in 1..Len(acc.results) : acc.results[k].id = acc.results[l].id => k = l
      BY DEF StorageRead, EachOnce
    <3>2. SUFFICES ASSUME NEW p \in 1..Len(results), NEW q \in 1..Len(results), results[p].id = results[q].id
                   PROVE  p = q
      BY <1>12, Zenon DEF EachOnce
    <3>3. p \in 1..Len(acc.results) => q \in 1..Len(acc.results)
      BY <2>1, <2>2, <2>3, <3>2, Zenon
    <3>4. q \in 1..Len(acc.results) => p \in 1..Len(acc.results)
      BY <2>1, <2>2, <2>3, <3>2, Zenon
    <3> QED
      BY <2>2, <2>3, <3>1, <3>2, <3>3, <3>4, Zenon
<1>20. \A x : x \in new.seen <=> \E i \in 1..n : Usable(list, i) /\ x = list[i].id
  <2>1. \A x : x \in new.seen <=> x \in acc.seen \/ x = row.id
    BY <1>9, <1>12
  <2> QED
    BY <1>7, <1>14, <1>3, <1>6, <2>1, Zenon
<1>21. \A x : x \in new.ids <=> \E i \in 1..n : TwiceIn(list, n, i) /\ x = list[i].id
  BY <1>12, <1>15, <1>4, <1>6, Zenon
<1>22. \A x : x \in new.canonicals <=>
                 Conversations /\ \E i \in 1..n : SpoiledIn(list, n, i) /\ x = list[i].canonical
  BY <1>12, <1>16, <1>5, <1>6, Zenon
<1>23. StorageRead(new, list, n)
  BY <1>12, <1>18, <1>19, <1>20, <1>21, <1>22, Zenon DEF StorageRead
<1> QED
  BY <1>10, <1>23

\* A sound row with an identifier that was seen: it and the first one are given up.
LEMMA SecondRow ==
  ASSUME NEW list \in Seq(RowRecords), NEW n \in 1..Len(list), NEW acc, StorageRead(acc, list, n - 1),
         Usable(list, n), list[n].id \in acc.seen
  PROVE  StorageRead(StorageRow(acc, list[n]), list, n)
<1>1. acc \in Accumulated /\ list[n] \in RowRecords /\ acc.results \in Seq(RowRecords)
  BY DEF StorageRead, Accumulated
<1>2. \A x : Occurs(acc.results, x) <=> \E i \in 1..(n - 1) : FirstOf(list, i) /\ x = list[i]
  BY Zenon DEF StorageRead
<1>3. \A x : x \in acc.seen <=> \E i \in 1..(n - 1) : Usable(list, i) /\ x = list[i].id
  BY Zenon DEF StorageRead
<1>4. \A x : x \in acc.ids <=> \E i \in 1..(n - 1) : TwiceIn(list, n - 1, i) /\ x = list[i].id
  BY Zenon DEF StorageRead
<1>5. \A x : x \in acc.canonicals <=>
                 Conversations /\ \E i \in 1..(n - 1) : SpoiledIn(list, n - 1, i) /\ x = list[i].canonical
  BY Zenon DEF StorageRead
<1>6. /\ \A i \in 1..n : i \in 1..(n - 1) \/ i = n
      /\ \A i \in 1..(n - 1) : i \in 1..n /\ i # n
  BY OneMoreRow
<1>7. PICK row \in RowRecords : row = list[n]
  BY <1>1
<1> DEFINE Firsts == {s \in Range(acc.results) : s.id = row.id}
<1>8. PICK ids \in SUBSET Nat : ids = acc.ids \cup {row.id}
  BY <1>1, <1>7 DEF Accumulated, RowRecords
<1>9. Range(acc.results) \subseteq RowRecords
  BY <1>1 DEF Range
<1>10. PICK given \in SUBSET Nat :
         given = acc.canonicals \cup IF Conversations THEN {row.canonical} \cup {r.canonical : r \in Firsts} ELSE {}
  <2>1. \A r \in RowRecords : r.canonical \in Nat
    BY DEF RowRecords
  <2>2. PICK theirs : theirs = {r.canonical : r \in Firsts}
    OBVIOUS
  <2>3. \A x \in theirs : x \in Nat
    BY <1>9, <2>1, <2>2
  <2>4. acc.canonicals \subseteq Nat /\ row.canonical \in Nat
    BY <1>1, <1>7, <2>1 DEF Accumulated
  <2> HIDE DEF Firsts
  <2> QED
    BY <2>2, <2>3, <2>4
<1>11. PICK new : new = StorageRow(acc, list[n])
  OBVIOUS
<1>12. new = [acc EXCEPT !.ids = ids, !.canonicals = given]
  <2>1. row.fault \notin Dropped /\ row.fault \notin Recoverable
    BY <1>7 DEF Usable, Dropped, Recoverable
  <2> QED
    BY <1>7, <1>8, <1>10, <1>11, <2>1 DEF StorageRow, QuarantineTwice
<1>13. /\ new \in Accumulated /\ new.results = acc.results /\ new.seen = acc.seen
      /\ new.ids = ids /\ new.canonicals = given
  BY <1>1, <1>8, <1>10, <1>12, Zenon DEF Accumulated
<1>14. \E i \in 1..(n - 1) : Usable(list, i) /\ list[i].id = row.id
  BY <1>7, <1>3, Zenon
<1>15. n \in 1..n /\ ~ FirstOf(list, n) /\ TwiceIn(list, n, n) /\ Usable(list, n)
  BY <1>7, <1>14, OneMoreRow DEF FirstOf
<1>16. \A i \in 1..(n - 1) : TwiceIn(list, n, i) <=>
          TwiceIn(list, n - 1, i) \/ (Usable(list, i) /\ list[i].id = row.id)
  BY <1>7, OneMoreRow
<1>17. \A x : Occurs(new.results, x) <=> \E i \in 1..n : FirstOf(list, i) /\ x = list[i]
  BY <1>13, <1>15, <1>2, <1>6, Zenon
<1>18. \A x : x \in new.seen <=> \E i \in 1..n : Usable(list, i) /\ x = list[i].id
  BY <1>7, <1>13, <1>14, <1>15, <1>3, <1>6, Zenon
<1>19. \A x : x \in new.ids <=> \E i \in 1..n : TwiceIn(list, n, i) /\ x = list[i].id
  <2>1. \A x : x \in new.ids <=> x \in acc.ids \/ x = row.id
    BY <1>8, <1>13
  <2>2. \A x : x = row.id <=> x = list[n].id
    BY <1>7
  <2>3. \A x : x \in new.ids => \E i \in 1..n : TwiceIn(list, n, i) /\ x = list[i].id
    BY <1>15, <1>16, <1>4, <1>6, <2>1, <2>2
  <2>4. \A x : (\E i \in 1..n : TwiceIn(list, n, i) /\ x = list[i].id) => x \in new.ids
    BY <1>15, <1>16, <1>4, <1>6, <2>1, <2>2
  <2> QED
    BY <2>3, <2>4, Zenon
<1>20. \A x : x \in new.canonicals <=>
                 Conversations /\ \E i \in 1..n : SpoiledIn(list, n, i) /\ x = list[i].canonical
  <2>2. \A x : x \in new.canonicals <=>
           \/ x \in acc.canonicals
           \/ Conversations /\ (x = row.canonical \/ \E r \in Firsts : x = r.canonical)
    <3> HIDE DEF Firsts
    <3> QED
      BY <1>10, <1>13
  <2>3. \A r : r \in Firsts <=> r.id = row.id /\ \E i \in 1..(n - 1) : FirstOf(list, i) /\ r = list[i]
    <3>1. \A r : r \in Range(acc.results) <=> Occurs(acc.results, r)
      BY <1>1, RangeOccurs
    <3> QED
      BY <1>2, <3>1, Zenon
  <2>4. \A i \in 1..n : SpoiledIn(list, n, i) <=>
           \/ i = n
           \/ i \in 1..(n - 1) /\ SpoiledIn(list, n - 1, i)
           \/ i \in 1..(n - 1) /\ FirstOf(list, i) /\ list[i].id = row.id
    <3>1. \A i \in 1..(n - 1) : Usable(list, i) => FirstOf(list, i) \/ TwiceIn(list, n - 1, i)
      <4>1. \A i \in 1..(n - 1) : \A j \in 1..(i - 1) : j \in 1..(n - 1) /\ j # i
        OBVIOUS
      <4> QED
        BY <4>1, Zenon DEF FirstOf, TwiceIn
    <3>2. \A i \in 1..(n - 1) : FirstOf(list, i) => Usable(list, i)
      BY DEF FirstOf
    <3> QED
      BY <1>15, <1>16, <3>1, <3>2, OneMoreRow, Zenon DEF SpoiledIn
  <2> HIDE DEF Firsts
  <2> QED
    <3>1. \A x : x \in new.canonicals =>
             Conversations /\ \E i \in 1..n : SpoiledIn(list, n, i) /\ x = list[i].canonical
      BY <1>7, <1>15, <1>5, <1>6, <2>2, <2>3, <2>4
    <3>2. \A x : Conversations /\ (\E i \in 1..n : SpoiledIn(list, n, i) /\ x = list[i].canonical)
             => x \in new.canonicals
      BY <1>7, <1>15, <1>5, <1>6, <2>2, <2>3, <2>4
    <3> QED
      BY <3>1, <3>2, Zenon
<1>21. StorageRead(new, list, n)
  BY <1>13, <1>17, <1>18, <1>19, <1>20, Zenon DEF StorageRead
<1> QED
  BY <1>11, <1>21

\* The storage client's loop, over a whole answer of one user.
LEMMA AnswerRead ==
  ASSUME NEW answer \in Seq(RowRecords), \A i \in 1..Len(answer) : answer[i].fault # "other_user"
  PROVE  \E acc : SearchResults(answer) = Survivors(acc) /\ StorageRead(acc, answer, Len(answer))
<1> DEFINE N == Len(answer)
           Def(g) == [n \in 0..N |-> IF n = 0 THEN Unread ELSE StorageRow(g[n - 1], answer[n])]
           f == CHOOSE g : g = Def(g)
           T == [n \in 0..N |-> {acc \in Accumulated : StorageRead(acc, answer, n)}]
           next == [n \in 1..N |-> [acc \in Accumulated |-> StorageRow(acc, answer[n])]]
<1>1. N \in Nat /\ \A n \in 1..N : n \in 0..N /\ n - 1 \in 0..N /\ n # 0
  OBVIOUS
<1>2. Unread \in T[0]
  <2>1. Unread \in Accumulated /\ Unread.results = <<>> /\ Unread.seen = {} /\ Unread.ids = {}
        /\ Unread.canonicals = {}
    BY DEF Unread, Accumulated
  <2>2. StorageRead(Unread, answer, 0)
    BY <2>1 DEF StorageRead, EachOnce, Occurs
  <2> QED
    BY <1>1, <2>1, <2>2
<1>3. ASSUME NEW n \in 1..N, NEW acc \in T[n - 1] PROVE next[n][acc] \in T[n]
  <2>1. acc \in Accumulated /\ StorageRead(acc, answer, n - 1)
    BY <1>1
  <2>2. answer[n] \in RowRecords /\ answer[n].fault # "other_user"
    OBVIOUS
  <2>3. StorageRead(StorageRow(acc, answer[n]), answer, n)
    <3>1. CASE answer[n].fault \in Recoverable \cup Dropped
      BY <2>1, <3>1, UnusableRow
    <3>2. CASE answer[n].fault \notin Recoverable \cup Dropped
      <4>1. Usable(answer, n)
        BY <2>2, <3>2 DEF Usable, RowRecords, RowFaults
      <4> QED
        BY <2>1, <4>1, FirstRow, SecondRow
    <3> QED
      BY <3>1, <3>2
  <2>4. StorageRow(acc, answer[n]) \in Accumulated
    BY <2>3 DEF StorageRead
  <2> QED
    BY <1>1, <2>1, <2>3, <2>4
<1>4. PICK g : Solves(g, next, T, Unread, N)
  <2>1. StepsInto(next, T, Unread, N)
    BY <1>2, <1>3 DEF StepsInto
  <2> HIDE DEF T, next, f, N
  <2> QED
    BY <1>1, <2>1, Iterates
<1>5. \A n \in 0..N : g[n] \in Accumulated /\ StorageRead(g[n], answer, n)
  BY <1>4 DEF Solves
<1>6. \A n \in 1..N : g[n] = StorageRow(g[n - 1], answer[n])
  <2>1. \A n \in 1..N : next[n][g[n - 1]] = StorageRow(g[n - 1], answer[n])
    BY <1>1, <1>5
  <2> HIDE DEF T, next
  <2> QED
    BY <1>4, <2>1 DEF Solves
<1>7. g[0] = Unread
  BY <1>4 DEF Solves
<1> HIDE DEF T, next
<1> DEFINE h == [n \in 0..N |-> g[n]]
<1>8. h = Def(h)
  <2>1. \A n \in 0..N : n # 0 => n - 1 \in 0..N /\ n \in 1..N
    BY <1>1
  <2>2. \A n \in 0..N : h[n] = IF n = 0 THEN Unread ELSE StorageRow(h[n - 1], answer[n])
    BY <1>6, <1>7, <2>1
  <2> QED
    BY <2>2
<1>9. f = Def(f)
  <2> HIDE DEF h
  <2> QED
    BY <1>8, Zenon
<1>10. SearchResults(answer) = Survivors(f[N])
  BY Zenon DEF SearchResults
<1> HIDE DEF f
<1>11. \A n \in 0..N : f[n] = g[n]
  <2> DEFINE G == {n \in 0..N : f[n] = g[n]}
  <2>1. 0 \in G
    BY <1>1, <1>7, <1>9
  <2>2. ASSUME NEW n \in 1..N, n - 1 \in G PROVE n \in G
    <3>1. f[n - 1] = g[n - 1]
      BY <2>2
    <3>2. f[n] = StorageRow(f[n - 1], answer[n])
      BY <1>1, <1>9
    <3> QED
      BY <1>1, <1>6, <3>1, <3>2
  <2> HIDE DEF G
  <2>3. \A n \in 0..N : n \in G
    BY <1>1, <2>1, <2>2, Upward
  <2> USE DEF G
  <2> QED
    BY <2>3
<1>12. N \in 0..N
  BY <1>1
<1> QED
  BY <1>5, <1>10, <1>11, <1>12

\* What is given up is left out, and the rest keeps its order.
LEMMA SurvivorsLeft ==
  ASSUME NEW acc \in Accumulated, EachOnce(acc.results)
  PROVE  /\ Survivors(acc) \in Seq(RowRecords) /\ EachOnce(Survivors(acc))
         /\ \A x : Occurs(Survivors(acc), x) <=>
               Occurs(acc.results, x) /\ x.id \notin acc.ids /\ x.canonical \notin acc.canonicals
<1> DEFINE places == {i \in DOMAIN acc.results : /\ acc.results[i].id \notin acc.ids
                                                 /\ acc.results[i].canonical \notin acc.canonicals}
<1>1. PICK list \in Seq(RowRecords) : list = acc.results
  BY DEF Accumulated
<1>2. DOMAIN list = 1..Len(list) /\ Len(list) \in Nat
  OBVIOUS
<1>3. PICK kept \in Seq(RowRecords) : kept = Survivors(acc) /\ \E at : Takes(kept, at, list, places, Len(list))
  BY <1>1, PlacesTaken DEF Survivors
<1>4. PICK at : Takes(kept, at, list, places, Len(list))
  BY <1>3
<1>5. \A i : i \in places <=> /\ i \in 1..Len(list) /\ list[i].id \notin acc.ids
                              /\ list[i].canonical \notin acc.canonicals
  BY <1>1, <1>2
<1> HIDE DEF places
<1>6. \A x : Occurs(kept, x) => Occurs(list, x) /\ x.id \notin acc.ids /\ x.canonical \notin acc.canonicals
  <2>1. \A k \in 1..Len(kept) : at[k] \in places /\ kept[k] = list[at[k]]
    BY <1>4, Zenon DEF Takes
  <2> QED
    BY <1>5, <2>1, Zenon DEF Occurs
<1>7. \A x : Occurs(list, x) /\ x.id \notin acc.ids /\ x.canonical \notin acc.canonicals => Occurs(kept, x)
  <2>1. \A i \in places : i \in 1..Len(list) /\ \E k \in 1..Len(kept) : kept[k] = list[i]
    <3>1. \A k \in 1..Len(kept) : kept[k] = list[at[k]]
      BY <1>4, Zenon DEF Takes
    <3>2. \A i \in places : i \in 1..Len(list) => \E k \in 1..Len(kept) : at[k] = i
      BY <1>4, Zenon DEF Takes
    <3>3. SUFFICES ASSUME NEW i \in places
                   PROVE  i \in 1..Len(list) /\ \E k \in 1..Len(kept) : kept[k] = list[i]
      OBVIOUS
    <3>4. i \in 1..Len(list)
      BY <1>5
    <3>5. PICK k \in 1..Len(kept) : at[k] = i
      BY <3>2, <3>4
    <3>6. kept[k] = list[i]
      BY <3>1, <3>5
    <3> QED
      BY <3>4, <3>6
  <2>2. SUFFICES ASSUME NEW x, NEW i \in 1..Len(list), x = list[i], x.id \notin acc.ids,
                        x.canonical \notin acc.canonicals
                 PROVE  Occurs(kept, x)
    BY Zenon DEF Occurs
  <2>3. i \in places
    BY <1>5, <2>2, Zenon
  <2> QED
    BY <2>1, <2>2, <2>3, Zenon DEF Occurs
<1>8. EachOnce(kept)
  <2>1. SUFFICES ASSUME NEW p \in 1..Len(kept), NEW q \in 1..Len(kept), kept[p].id = kept[q].id
                 PROVE  p = q
    BY DEF EachOnce
  <2>2. at[p] \in 1..Len(list) /\ at[q] \in 1..Len(list) /\ at[p] = at[q]
    <3>1. /\ at[p] \in 1..Len(list) /\ kept[p] = list[at[p]]
          /\ at[q] \in 1..Len(list) /\ kept[q] = list[at[q]]
      BY <1>4, <2>1, Zenon DEF Takes
    <3>2. \A i, j \in 1..Len(list) : list[i].id = list[j].id => i = j
      BY <1>1, Zenon DEF EachOnce
    <3> QED
      BY <2>1, <3>1, <3>2, Zenon
  <2>3. ~(p < q) /\ ~(q < p) /\ p \in Nat /\ q \in Nat
    BY <1>4, <2>2 DEF Takes
  <2> QED
    BY <2>3
<1> QED
  BY <1>1, <1>3, <1>6, <1>7, <1>8

\* What the retrieval's loop knows after n results with identifiers of their own: those
\* that are who they say, and the conversations of the others.
CandidatesRead(acc, list, n) ==
    /\ acc \in Accumulated /\ EachOnce(acc.results) /\ acc.ids = {}
    /\ \A x : Occurs(acc.results, x) <=> \E i \in 1..n : Identified(list[i]) /\ x = list[i]
    /\ \A x : x \in acc.seen <=> \E i \in 1..n : x = list[i].id
    /\ \A x : x \in acc.canonicals <=> \E i \in 1..n : ~Identified(list[i]) /\ x = list[i].canonical

\* One more result.
LEMMA ResultRead ==
  ASSUME NEW list \in Seq(RowRecords), EachOnce(list), NEW n \in 1..Len(list), NEW acc,
         CandidatesRead(acc, list, n - 1)
  PROVE  CandidatesRead(CandidateRow(acc, list[n]), list, n)
<1>1. /\ acc \in Accumulated /\ list[n] \in RowRecords /\ acc.results \in Seq(RowRecords)
      /\ EachOnce(acc.results) /\ acc.ids = {}
  BY DEF CandidatesRead, Accumulated
<1>2. \A x : Occurs(acc.results, x) <=> \E i \in 1..(n - 1) : Identified(list[i]) /\ x = list[i]
  BY Zenon DEF CandidatesRead
<1>3. \A x : x \in acc.seen <=> \E i \in 1..(n - 1) : x = list[i].id
  BY Zenon DEF CandidatesRead
<1>4. \A x : x \in acc.canonicals <=> \E i \in 1..(n - 1) : ~Identified(list[i]) /\ x = list[i].canonical
  BY Zenon DEF CandidatesRead
<1>5. /\ \A i \in 1..n : i \in 1..(n - 1) \/ i = n
      /\ \A i \in 1..(n - 1) : i \in 1..n /\ i # n /\ i \in 1..Len(list)
      /\ n \in 1..n
  OBVIOUS
<1>6. PICK row \in RowRecords : row = list[n]
  BY <1>1
<1>7. row.id \notin acc.seen
  BY <1>3, <1>5, <1>6 DEF EachOnce
<1>8. PICK seen \in SUBSET Nat : seen = acc.seen \cup {row.id}
  <2>1. row.id \in Nat /\ acc.seen \subseteq Nat
    BY <1>1, SMTT(40) DEF Accumulated, RowRecords
  <2> QED
    BY <2>1
<1>9. \A x : x \in seen <=> \E i \in 1..n : x = list[i].id
  BY <1>3, <1>5, <1>6, <1>8
<1>10. PICK new : new = CandidateRow(acc, list[n])
  OBVIOUS
<1>11. CASE ~Identified(row)
  <2>1. PICK given \in SUBSET Nat : given = acc.canonicals \cup {row.canonical}
    <3>1. row.canonical \in Nat /\ acc.canonicals \subseteq Nat
      BY <1>1 DEF Accumulated, RowRecords
    <3> QED
      BY <3>1
  <2>2. new = [acc EXCEPT !.seen = seen, !.canonicals = given]
    BY <1>6, <1>7, <1>8, <1>10, <1>11, <2>1 DEF CandidateRow
  <2>3. /\ new \in Accumulated /\ new.results = acc.results /\ new.seen = seen
        /\ new.ids = acc.ids /\ new.canonicals = given
    BY <1>1, <1>8, <2>1, <2>2, Zenon DEF Accumulated
  <2>4. \A x : Occurs(new.results, x) <=> \E i \in 1..n : Identified(list[i]) /\ x = list[i]
    BY <1>2, <1>5, <1>6, <1>11, <2>3, Zenon
  <2>5. \A x : x \in new.canonicals <=> x \in acc.canonicals \/ x = row.canonical
    BY <2>1, <2>3
  <2>6. \A x : x \in new.canonicals <=> \E i \in 1..n : ~Identified(list[i]) /\ x = list[i].canonical
    BY <1>4, <1>5, <1>6, <1>11, <2>5, Zenon
  <2>7. CandidatesRead(new, list, n)
    BY <1>1, <1>9, <2>3, <2>4, <2>6, Zenon DEF CandidatesRead
  <2> QED
    BY <1>10, <2>7
<1>12. CASE Identified(row)
  <2>1. PICK results \in Seq(RowRecords) : results = Append(acc.results, row)
    BY <1>1, <1>6, Appended
  <2>2. new = [acc EXCEPT !.seen = seen, !.results = results]
    BY <1>6, <1>7, <1>8, <1>10, <1>12, <2>1 DEF CandidateRow, Accept
  <2>3. /\ new \in Accumulated /\ new.results = results /\ new.seen = seen
        /\ new.ids = acc.ids /\ new.canonicals = acc.canonicals
    BY <1>1, <1>8, <2>1, <2>2, Zenon DEF Accumulated
  <2>4. /\ Len(results) = Len(acc.results) + 1 /\ Len(acc.results) \in Nat
        /\ \A k \in 1..Len(acc.results) : results[k] = acc.results[k]
        /\ results[Len(acc.results) + 1] = row
    BY <1>1, <2>1, Appended
  <2>5. /\ \A k \in 1..Len(results) : k \in 1..Len(acc.results) \/ k = Len(acc.results) + 1
        /\ \A k \in 1..Len(acc.results) : k \in 1..Len(results)
        /\ Len(acc.results) + 1 \in 1..Len(results)
    BY <2>4
  <2>6. \A x : Occurs(results, x) <=> Occurs(acc.results, x) \/ x = row
    BY <2>4, <2>5, Zenon DEF Occurs
  <2>7. \A x : Occurs(new.results, x) <=> \E i \in 1..n : Identified(list[i]) /\ x = list[i]
    BY <1>2, <1>5, <1>6, <1>12, <2>3, <2>6, Zenon
  <2>8. EachOnce(new.results)
    <3>1. \A k \in 1..Len(acc.results) : acc.results[k].id # row.id
      BY <1>2, <1>3, <1>7, Zenon DEF Occurs
    <3>2. \A k, l \in 1..Len(acc.results) : acc.results[k].id = acc.results[l].id => k = l
      BY <1>1, Zenon DEF EachOnce
    <3>3. SUFFICES ASSUME NEW p \in 1..Len(results), NEW q \in 1..Len(results), results[p].id = results[q].id
                   PROVE  p = q
      BY <2>3, Zenon DEF EachOnce
    <3>4. p \in 1..Len(acc.results) => q \in 1..Len(acc.results)
      BY <2>4, <2>5, <3>1, <3>3, Zenon
    <3>5. q \in 1..Len(acc.results) => p \in 1..Len(acc.results)
      BY <2>4, <2>5, <3>1, <3>3, Zenon
    <3> QED
      BY <2>4, <2>5, <3>2, <3>3, <3>4, <3>5, Zenon
  <2>9. \A x : x \in new.canonicals <=> \E i \in 1..n : ~Identified(list[i]) /\ x = list[i].canonical
    BY <1>4, <1>5, <1>6, <1>12, <2>3, Zenon
  <2>10. CandidatesRead(new, list, n)
    BY <1>1, <1>9, <2>3, <2>7, <2>8, <2>9, Zenon DEF CandidatesRead
  <2> QED
    BY <1>10, <2>10
<1> QED
  BY <1>11, <1>12

\* The retrieval's loop over the storage client's results.
LEMMA CandidatesKnown ==
  ASSUME NEW answer, NEW results \in Seq(RowRecords), results = SearchResults(answer), EachOnce(results)
  PROVE  \E acc : HybridCandidates(answer) = Survivors(acc) /\ CandidatesRead(acc, results, Len(results))
<1> DEFINE N == Len(results)
           Def(g) == [n \in 0..N |-> IF n = 0 THEN Unread ELSE CandidateRow(g[n - 1], results[n])]
           f == CHOOSE g : g = Def(g)
           T == [n \in 0..N |-> {acc \in Accumulated : CandidatesRead(acc, results, n)}]
           next == [n \in 1..N |-> [acc \in Accumulated |-> CandidateRow(acc, results[n])]]
<1>1. N \in Nat /\ \A n \in 1..N : n \in 0..N /\ n - 1 \in 0..N /\ n # 0
  OBVIOUS
<1>2. Unread \in T[0]
  <2>1. Unread \in Accumulated /\ Unread.results = <<>> /\ Unread.seen = {} /\ Unread.ids = {}
        /\ Unread.canonicals = {}
    BY DEF Unread, Accumulated
  <2>2. CandidatesRead(Unread, results, 0)
    BY <2>1 DEF CandidatesRead, EachOnce, Occurs
  <2> QED
    BY <1>1, <2>1, <2>2
<1>3. ASSUME NEW n \in 1..N, NEW acc \in T[n - 1] PROVE next[n][acc] \in T[n]
  <2>1. acc \in Accumulated /\ CandidatesRead(acc, results, n - 1)
    BY <1>1
  <2>2. CandidatesRead(CandidateRow(acc, results[n]), results, n)
    BY <2>1, ResultRead
  <2>3. CandidateRow(acc, results[n]) \in Accumulated
    BY <2>2 DEF CandidatesRead
  <2> QED
    BY <1>1, <2>1, <2>2, <2>3
<1>4. PICK g : Solves(g, next, T, Unread, N)
  <2>1. StepsInto(next, T, Unread, N)
    BY <1>2, <1>3 DEF StepsInto
  <2> HIDE DEF T, next, f, N
  <2> QED
    BY <1>1, <2>1, Iterates
<1>5. \A n \in 0..N : g[n] \in Accumulated /\ CandidatesRead(g[n], results, n)
  BY <1>4 DEF Solves
<1>6. \A n \in 1..N : g[n] = CandidateRow(g[n - 1], results[n])
  <2>1. \A n \in 1..N : next[n][g[n - 1]] = CandidateRow(g[n - 1], results[n])
    BY <1>1, <1>5
  <2> HIDE DEF T, next
  <2> QED
    BY <1>4, <2>1 DEF Solves
<1>7. g[0] = Unread
  BY <1>4 DEF Solves
<1> HIDE DEF T, next
<1> DEFINE h == [n \in 0..N |-> g[n]]
<1>8. h = Def(h)
  <2>1. \A n \in 0..N : n # 0 => n - 1 \in 0..N /\ n \in 1..N
    BY <1>1
  <2>2. \A n \in 0..N : h[n] = IF n = 0 THEN Unread ELSE CandidateRow(h[n - 1], results[n])
    BY <1>6, <1>7, <2>1
  <2> QED
    BY <2>2
<1>9. f = Def(f)
  <2> HIDE DEF h
  <2> QED
    BY <1>8, Zenon
<1>10. HybridCandidates(answer) = Survivors(f[N])
  BY Zenon DEF HybridCandidates
<1> HIDE DEF f
<1>11. \A n \in 0..N : f[n] = g[n]
  <2> DEFINE G == {n \in 0..N : f[n] = g[n]}
  <2>1. 0 \in G
    BY <1>1, <1>7, <1>9
  <2>2. ASSUME NEW n \in 1..N, n - 1 \in G PROVE n \in G
    <3>1. f[n - 1] = g[n - 1]
      BY <2>2
    <3>2. f[n] = CandidateRow(f[n - 1], results[n])
      BY <1>1, <1>9
    <3> QED
      BY <1>1, <1>6, <3>1, <3>2
  <2> HIDE DEF G
  <2>3. \A n \in 0..N : n \in G
    BY <1>1, <2>1, <2>2, Upward
  <2> USE DEF G
  <2> QED
    BY <2>3
<1>12. N \in 0..N
  BY <1>1
<1> QED
  BY <1>5, <1>10, <1>11, <1>12

\* Which row of a whole answer is to be kept, and what taints another.
Kept(list, i) ==
    /\ Usable(list, i) /\ ~TwiceIn(list, Len(list), i) /\ Identified(list[i])
    /\ Conversations => \A k \in 1..Len(list) :
          list[k].canonical = list[i].canonical =>
             ~SpoiledIn(list, Len(list), k) /\ (Usable(list, k) => Identified(list[k]))

\* The two loops together keep exactly those rows.
LEMMA QuarantineKeeps ==
  ASSUME NEW answer \in Seq(RowRecords), \A i \in 1..Len(answer) : answer[i].fault # "other_user"
  PROVE  /\ HybridCandidates(answer) \in Seq(RowRecords) /\ EachOnce(HybridCandidates(answer))
         /\ \A x : Occurs(HybridCandidates(answer), x) <=> \E i \in 1..Len(answer) : Kept(answer, i) /\ x = answer[i]
<1> DEFINE N == Len(answer)
<1>1. PICK acc : SearchResults(answer) = Survivors(acc) /\ StorageRead(acc, answer, N)
  BY AnswerRead
<1>2. acc \in Accumulated /\ EachOnce(acc.results)
  BY <1>1 DEF StorageRead
<1>3. PICK results \in Seq(RowRecords) :
        /\ results = SearchResults(answer) /\ EachOnce(results)
        /\ \A x : Occurs(results, x) <=>
              Occurs(acc.results, x) /\ x.id \notin acc.ids /\ x.canonical \notin acc.canonicals
  BY <1>1, <1>2, SurvivorsLeft
<1>4. PICK final : HybridCandidates(answer) = Survivors(final) /\ CandidatesRead(final, results, Len(results))
  BY <1>3, CandidatesKnown
<1>5. final \in Accumulated /\ EachOnce(final.results) /\ final.ids = {}
  BY <1>4 DEF CandidatesRead
<1>6. PICK kept \in Seq(RowRecords) :
        /\ kept = HybridCandidates(answer) /\ EachOnce(kept)
        /\ \A x : Occurs(kept, x) <=>
              Occurs(final.results, x) /\ x.id \notin final.ids /\ x.canonical \notin final.canonicals
  BY <1>4, <1>5, SurvivorsLeft
<1>7. /\ \A x : Occurs(final.results, x) <=> Occurs(results, x) /\ Identified(x)
      /\ \A x : x \in final.canonicals <=>
            \E r : Occurs(results, r) /\ ~Identified(r) /\ x = r.canonical
  <2>1. \A x : Occurs(final.results, x) <=> \E i \in 1..Len(results) : Identified(results[i]) /\ x = results[i]
    BY <1>4, Zenon DEF CandidatesRead
  <2>2. \A x : x \in final.canonicals
                  <=> \E i \in 1..Len(results) : ~Identified(results[i]) /\ x = results[i].canonical
    BY <1>4, Zenon DEF CandidatesRead
  <2>3. \A r : Occurs(results, r) <=> \E i \in 1..Len(results) : results[i] = r
    BY Zenon DEF Occurs
  <2>4. \A x : Occurs(final.results, x) <=> Occurs(results, x) /\ Identified(x)
    BY <2>1, <2>3, Zenon
  <2>5. \A x : x \in final.canonicals => \E r : Occurs(results, r) /\ ~Identified(r) /\ x = r.canonical
    BY <2>2, <2>3, Zenon
  <2>6. ASSUME NEW x, NEW r, Occurs(results, r), ~Identified(r), x = r.canonical PROVE x \in final.canonicals
    <3>1. PICK i \in 1..Len(results) : results[i] = r
      BY <2>3, <2>6, Zenon
    <3>2. ~Identified(results[i]) /\ x = results[i].canonical
      BY <2>6, <3>1
    <3> QED
      BY <2>2, <3>2
  <2> QED
    BY <2>4, <2>5, <2>6
<1>8. \A x : Occurs(acc.results, x) <=> \E i \in 1..N : FirstOf(answer, i) /\ x = answer[i]
  BY <1>1, Zenon DEF StorageRead
<1>9. \A x : x \in acc.ids <=> \E i \in 1..N : TwiceIn(answer, N, i) /\ x = answer[i].id
  BY <1>1, Zenon DEF StorageRead
<1>10. \A x : x \in acc.canonicals <=>
                 Conversations /\ \E i \in 1..N : SpoiledIn(answer, N, i) /\ x = answer[i].canonical
  BY <1>1, Zenon DEF StorageRead
<1> DEFINE Left(i) == /\ Usable(answer, i) /\ ~TwiceIn(answer, N, i)
                      /\ ~(Conversations /\ \E k \in 1..N :
                             SpoiledIn(answer, N, k) /\ answer[i].canonical = answer[k].canonical)
<1>11. \A x : Occurs(results, x) <=> \E i \in 1..N : Left(i) /\ x = answer[i]
  <2>1. ASSUME NEW x, Occurs(results, x) PROVE \E i \in 1..N : Left(i) /\ x = answer[i]
    <3>1. Occurs(acc.results, x) /\ x.id \notin acc.ids /\ x.canonical \notin acc.canonicals
      BY <1>3, <2>1
    <3>2. PICK i \in 1..N : FirstOf(answer, i) /\ x = answer[i]
      BY <1>8, <3>1
    <3>3. ~TwiceIn(answer, N, i)
      BY <1>9, <3>1, <3>2, Zenon
    <3>4. ~(Conversations /\ \E k \in 1..N : SpoiledIn(answer, N, k) /\ answer[i].canonical = answer[k].canonical)
      BY <1>10, <3>1, <3>2, Zenon
    <3> QED
      BY <3>2, <3>3, <3>4, Zenon DEF FirstOf
  <2>2. ASSUME NEW i \in 1..N, Left(i) PROVE Occurs(results, answer[i])
    <3>1. FirstOf(answer, i)
      <4>1. \A j \in 1..(i - 1) : j \in 1..N /\ j # i
        OBVIOUS
      <4> QED
        BY <2>2, <4>1, Zenon DEF FirstOf, TwiceIn
    <3>2. answer[i].id \notin acc.ids
      <4>1. SUFFICES ASSUME NEW j \in 1..N, TwiceIn(answer, N, j), answer[i].id = answer[j].id PROVE FALSE
        BY <1>9, Zenon
      <4>2. CASE i = j
        BY <2>2, <4>1, <4>2
      <4>3. CASE i # j
        BY <2>2, <4>1, <4>3 DEF TwiceIn
      <4> QED
        BY <4>2, <4>3
    <3>3. answer[i].canonical \notin acc.canonicals
      BY <1>10, <2>2, Zenon
    <3>4. Occurs(acc.results, answer[i])
      BY <1>8, <3>1, Zenon
    <3> QED
      BY <1>3, <3>2, <3>3, <3>4, Zenon
  <2> HIDE DEF Left
  <2> QED
    BY <2>1, <2>2
<1>12. \A i \in 1..N : Kept(answer, i) <=>
          /\ Left(i) /\ Identified(answer[i])
          /\ ~ \E k \in 1..N : Left(k) /\ ~Identified(answer[k]) /\ answer[i].canonical = answer[k].canonical
  <2>1. ~Conversations => \A k \in 1..N : Identified(answer[k])
    BY DEF Identified
  <2>2. ASSUME NEW i \in 1..N, Kept(answer, i)
        PROVE  /\ Left(i) /\ Identified(answer[i])
               /\ ~ \E k \in 1..N : Left(k) /\ ~Identified(answer[k]) /\ answer[i].canonical = answer[k].canonical
    <3>1. Left(i) /\ Identified(answer[i])
      BY <2>2 DEF Kept
    <3>2. ASSUME NEW k \in 1..N, Left(k), ~Identified(answer[k]), answer[i].canonical = answer[k].canonical
          PROVE  FALSE
      BY <2>1, <2>2, <3>2 DEF Kept
    <3> HIDE DEF Left
    <3> QED
      BY <3>1, <3>2
  <2>3. ASSUME NEW i \in 1..N, Left(i), Identified(answer[i]),
               ~ \E k \in 1..N : Left(k) /\ ~Identified(answer[k]) /\ answer[i].canonical = answer[k].canonical
        PROVE  Kept(answer, i)
    <3>1. SUFFICES ASSUME Conversations, NEW k \in 1..N, answer[k].canonical = answer[i].canonical
                   PROVE  ~SpoiledIn(answer, N, k) /\ (Usable(answer, k) => Identified(answer[k]))
      BY <2>3 DEF Kept
    <3>2. ~SpoiledIn(answer, N, k)
      BY <2>3, <3>1
    <3>3. Usable(answer, k) => Left(k)
      BY <2>3, <3>1, <3>2 DEF SpoiledIn
    <3> HIDE DEF Left
    <3> QED
      BY <2>3, <3>1, <3>2, <3>3
  <2> HIDE DEF Left
  <2> QED
    BY <2>2, <2>3
<1> HIDE DEF Left
<1>13. \A x : Occurs(kept, x) <=> \E i \in 1..N : Kept(answer, i) /\ x = answer[i]
  <2>1. \A x : Occurs(kept, x) <=> /\ Occurs(results, x) /\ Identified(x)
                                   /\ ~ \E r : Occurs(results, r) /\ ~Identified(r) /\ x.canonical = r.canonical
    BY <1>5, <1>6, <1>7
  <2>2. \A x : (\E r : Occurs(results, r) /\ ~Identified(r) /\ x.canonical = r.canonical)
          <=> \E k \in 1..N : Left(k) /\ ~Identified(answer[k]) /\ x.canonical = answer[k].canonical
    BY <1>11, ZenonT(40)
  <2>3. ASSUME NEW x, Occurs(kept, x) PROVE \E i \in 1..N : Kept(answer, i) /\ x = answer[i]
    <3>1. PICK i \in 1..N : Left(i) /\ x = answer[i]
      BY <1>11, <2>1, <2>3, Zenon
    <3>2. Identified(answer[i])
      BY <2>1, <2>3, <3>1, Zenon
    <3>3. ~ \E k \in 1..N : Left(k) /\ ~Identified(answer[k]) /\ answer[i].canonical = answer[k].canonical
      BY <2>1, <2>2, <2>3, <3>1, Zenon
    <3> QED
      BY <1>12, <3>1, <3>2, <3>3, Zenon
  <2>4. ASSUME NEW i \in 1..N, Kept(answer, i) PROVE Occurs(kept, answer[i])
    <3>1. Left(i) /\ Identified(answer[i])
      BY <1>12, <2>4, Zenon
    <3>2. Occurs(results, answer[i])
      BY <1>11, <3>1, Zenon
    <3>3. ~ \E r : Occurs(results, r) /\ ~Identified(r) /\ answer[i].canonical = r.canonical
      BY <1>12, <2>2, <2>4, Zenon
    <3> QED
      BY <2>1, <3>1, <3>2, <3>3, Zenon
  <2> QED
    BY <2>3, <2>4
<1> QED
  BY <1>6, <1>13

---------------------------------------------------------------------------
(* Retrieval: the ranking *)

\* Ranked lists a finite set, each of its members once, in the order of Before.
LEMMA RankedInOrder ==
  ASSUME NEW scored, IsFiniteSet(scored), NEW tie,
         \A c \in scored : c.score \in Int /\ c[tie] \in Int,
         \A c, d \in scored : c[tie] = d[tie] => c = d
  PROVE  /\ Ranked(scored, tie) \in Seq(scored)
         /\ Len(Ranked(scored, tie)) = Cardinality(scored)
         /\ \A p, q \in 1..Len(Ranked(scored, tie)) :
               p < q => Before(Ranked(scored, tie)[p], Ranked(scored, tie)[q], tie)
         /\ \A c \in scored : Occurs(Ranked(scored, tie), c)
<1> DEFINE N == Cardinality(scored)
           Above(c) == {d \in scored : Before(d, c, tie)}
           rank == [c \in scored |-> Cardinality(Above(c))]
<1>1. /\ \A c \in scored : ~Before(c, c, tie)
      /\ \A c, d \in scored : c # d => Before(c, d, tie) \/ Before(d, c, tie)
      /\ \A c, d, e \in scored : Before(c, d, tie) /\ Before(d, e, tie) => Before(c, e, tie)
  BY DEF Before
<1>2. N \in Nat
  BY FS_CardinalityType
<1>3. \A c \in scored : Cardinality(Above(c)) \in 0..(N - 1)
  <2>1. SUFFICES ASSUME NEW c \in scored PROVE Cardinality(Above(c)) \in 0..(N - 1)
    OBVIOUS
  <2>2. Above(c) \in SUBSET scored /\ Above(c) # scored
    BY <1>1
  <2> HIDE DEF Above
  <2>3. IsFiniteSet(Above(c)) /\ Cardinality(Above(c)) <= N /\ Cardinality(Above(c)) # N
    BY <2>2, FS_Subset
  <2>4. Cardinality(Above(c)) \in Nat
    BY <2>3, FS_CardinalityType
  <2> QED
    BY <1>2, <2>3, <2>4
<1>4. ASSUME NEW c \in scored, NEW d \in scored, Before(c, d, tie)
      PROVE  Cardinality(Above(c)) < Cardinality(Above(d))
  <2>1. Above(c) \subseteq Above(d) /\ c \in Above(d) /\ c \notin Above(c) /\ Above(d) \in SUBSET scored
    BY <1>1, <1>4
  <2> HIDE DEF Above
  <2>2. IsFiniteSet(Above(d))
    BY <2>1, FS_Subset
  <2>3. Cardinality(Above(c)) <= Cardinality(Above(d)) /\ Cardinality(Above(c)) # Cardinality(Above(d))
    BY <2>1, <2>2, FS_Subset
  <2> QED
    BY <1>2, <1>3, <2>3
<1> HIDE DEF Above
<1>5. /\ IsFiniteSet(0..(N - 1)) /\ Cardinality(0..(N - 1)) = N
  BY <1>2, FS_Interval, SMTT(40)
<1>6. rank \in Injection(scored, 0..(N - 1))
  <2>1. rank \in [scored -> 0..(N - 1)]
    BY <1>3
  <2>2. \A c, d \in scored : rank[c] = rank[d] => c = d
    BY <1>1, <1>2, <1>3, <1>4
  <2> QED
    BY <2>1, <2>2 DEF Injection, IsInjective
<1>7. rank \in Surjection(scored, 0..(N - 1))
  <2> HIDE DEF rank
  <2> QED
    BY <1>5, <1>6, FS_Injection
<1>8. \A n \in 1..N : \E c \in scored : Cardinality(Above(c)) = n - 1
  <2>1. \A m \in 0..(N - 1) : \E c \in scored : rank[c] = m
    BY <1>7, Zenon DEF Surjection
  <2>2. \A n \in 1..N : n - 1 \in 0..(N - 1)
    BY <1>2
  <2> QED
    BY <2>1, <2>2
<1> HIDE DEF rank
<1>9. PICK list : list = Ranked(scored, tie)
  OBVIOUS
<1>10. list = [n \in 1..N |-> CHOOSE c \in scored : Cardinality(Above(c)) = n - 1]
  BY <1>9, Zenon DEF Ranked, Above
<1>11. \A n \in 1..N : list[n] \in scored /\ Cardinality(Above(list[n])) = n - 1
  BY <1>8, <1>10
<1>12. list \in Seq(scored) /\ Len(list) = N
  BY <1>2, <1>10, <1>11, SMTT(40)
<1>13. \A p, q \in 1..N : p < q => Before(list[p], list[q], tie)
  <2>1. SUFFICES ASSUME NEW p \in 1..N, NEW q \in 1..N, p < q PROVE Before(list[p], list[q], tie)
    OBVIOUS
  <2>2. Cardinality(Above(list[p])) < Cardinality(Above(list[q])) /\ list[p] \in scored /\ list[q] \in scored
    BY <1>2, <1>11, <2>1
  <2>3. list[p] # list[q]
    BY <1>3, <2>2
  <2>4. ~Before(list[q], list[p], tie)
    <3>1. ~ (Cardinality(Above(list[q])) < Cardinality(Above(list[p])))
      BY <1>2, <1>3, <2>2
    <3> QED
      BY <1>4, <2>2, <3>1
  <2> QED
    BY <1>1, <2>2, <2>3, <2>4
<1>14. \A c \in scored : Occurs(list, c)
  <2>1. SUFFICES ASSUME NEW c \in scored PROVE Occurs(list, c)
    OBVIOUS
  <2>2. PICK n \in 1..N : Cardinality(Above(c)) = n - 1
    <3>1. Cardinality(Above(c)) + 1 \in 1..N /\ Cardinality(Above(c)) = (Cardinality(Above(c)) + 1) - 1
      BY <1>2, <1>3
    <3> QED
      BY <3>1
  <2>3. list[n] \in scored /\ Cardinality(Above(list[n])) = Cardinality(Above(c))
    BY <1>11, <2>2
  <2>4. ~ (Cardinality(Above(list[n])) < Cardinality(Above(c))) /\ ~ (Cardinality(Above(c)) < Cardinality(Above(list[n])))
    BY <1>3, <2>3
  <2>5. list[n] = c
    BY <1>1, <1>4, <2>3, <2>4
  <2> QED
    BY <1>12, <2>2, <2>5 DEF Occurs
<1> QED
  BY <1>9, <1>12, <1>13, <1>14

ScoredRecords == [id : 1..4, canonical : Nat, segment : Nat, score : Scores]

\* A list with an identifier in each place, by descending score.
Descends(list) == \A p, q \in 1..Len(list) : p < q => list[p].score >= list[q].score
RankedList(list) == list \in Seq(ScoredRecords) /\ EachOnce(list) /\ Descends(list)

\* Scored records with identifiers of their own are finitely many.
LEMMA FewIdentifiers ==
  ASSUME NEW S, S \subseteq ScoredRecords, \A c, d \in S : c.id = d.id => c = d
  PROVE  IsFiniteSet(S)
<1> DEFINE f == [c \in S |-> c.id]
<1>1. f \in Injection(S, 1..4)
  <2>1. \A c \in S : c.id \in 1..4
    BY DEF ScoredRecords
  <2>2. f \in [S -> 1..4]
    BY <2>1
  <2>3. \A c, d \in S : f[c] = f[d] => c = d
    OBVIOUS
  <2> QED
    BY <2>2, <2>3, Zenon DEF Injection, IsInjective
<1>2. IsFiniteSet(1..4)
  <2>1. 1 \in Int /\ 4 \in Int
    OBVIOUS
  <2> QED
    BY <2>1, FS_Interval, Zenon
<1> HIDE DEF f
<1> QED
  BY <1>1, <1>2, FS_Injection

\* A set of such records is ranked by an identifier that tells them apart.
LEMMA RecordsRanked ==
  ASSUME NEW S, S \subseteq ScoredRecords, \A c, d \in S : c.id = d.id => c = d,
         NEW tie \in {"id", "canonical"}, \A c, d \in S : c[tie] = d[tie] => c = d
  PROVE  /\ RankedList(Ranked(S, tie))
         /\ \A x : Occurs(Ranked(S, tie), x) <=> x \in S
<1>1. IsFiniteSet(S)
  BY FewIdentifiers
<1>2. \A c \in S : c.score \in Int /\ c[tie] \in Int
  BY DEF ScoredRecords, Scores
<1>3. PICK list : list = Ranked(S, tie)
  OBVIOUS
<1>4. /\ list \in Seq(S)
      /\ \A p, q \in 1..Len(list) : p < q => Before(list[p], list[q], tie)
      /\ \A c \in S : Occurs(list, c)
  BY <1>1, <1>2, <1>3, RankedInOrder
<1>5. list \in Seq(ScoredRecords) /\ \A p \in 1..Len(list) : list[p] \in S
  BY <1>4
<1>6. \A x : Occurs(list, x) <=> x \in S
  BY <1>4, <1>5, Zenon DEF Occurs
<1>7. Descends(list)
  BY <1>2, <1>4, <1>5 DEF Descends, Before
<1>8. EachOnce(list)
  <2>1. SUFFICES ASSUME NEW p \in 1..Len(list), NEW q \in 1..Len(list), list[p].id = list[q].id, p # q
                 PROVE  FALSE
    BY Zenon DEF EachOnce
  <2>2. list[p] = list[q]
    BY <1>5, <2>1
  <2>3. Before(list[p], list[p], tie)
    <3>1. p < q \/ q < p
      BY <2>1
    <3> QED
      BY <1>4, <2>2, <3>1
  <2> QED
    BY <1>2, <1>5, <2>3 DEF Before
<1> QED
  BY <1>3, <1>5, <1>6, <1>7, <1>8 DEF RankedList

\* The candidates with their scores, ranked.
LEMMA CandidatesRanked ==
  ASSUME NEW list \in Seq(RowRecords), EachOnce(list), NEW score \in [Ids(list) -> Scores], NEW scored,
         scored = {[id |-> c.id, canonical |-> c.canonical, segment |-> c.segment,
                    score |-> score[c.id]] : c \in Range(list)}
  PROVE  /\ RankedList(Ranked(scored, "id"))
         /\ \A x : Occurs(Ranked(scored, "id"), x) <=> x \in scored
<1>1. \A c : c \in Range(list) <=> \E i \in 1..Len(list) : c = list[i]
  BY DEF Range
<1>2. \A i \in 1..Len(list) : list[i] \in RowRecords /\ list[i].id \in Ids(list)
  BY DEF Ids
<1>3. \A c \in Range(list) : c.id \in 1..4 /\ c.canonical \in Nat /\ c.segment \in Nat /\ score[c.id] \in Scores
  BY <1>1, <1>2 DEF RowRecords
<1>4. scored \subseteq ScoredRecords
  <2>1. \A c \in Range(list) :
          [id |-> c.id, canonical |-> c.canonical, segment |-> c.segment, score |-> score[c.id]] \in ScoredRecords
    BY <1>3, Zenon DEF ScoredRecords
  <2> QED
    BY <2>1
<1>5. \A c, d \in Range(list) : c.id = d.id => c = d
  BY <1>1 DEF EachOnce
<1>6. \A x \in scored : \E c \in Range(list) :
        x.id = c.id /\ x = [id |-> c.id, canonical |-> c.canonical, segment |-> c.segment, score |-> score[c.id]]
  OBVIOUS
<1>7. \A x, y \in scored : x.id = y.id => x = y
  <2>1. SUFFICES ASSUME NEW x \in scored, NEW y \in scored, x.id = y.id PROVE x = y
    OBVIOUS
  <2>2. PICK c \in Range(list) :
          x.id = c.id /\ x = [id |-> c.id, canonical |-> c.canonical, segment |-> c.segment, score |-> score[c.id]]
    BY <1>6, Zenon
  <2>3. PICK d \in Range(list) :
          y.id = d.id /\ y = [id |-> d.id, canonical |-> d.canonical, segment |-> d.segment, score |-> score[d.id]]
    BY <1>6, Zenon
  <2>4. c = d
    BY <1>5, <2>1, <2>2, <2>3, Zenon
  <2> QED
    BY <2>2, <2>3, <2>4, Zenon
<1>8. \A x, y \in scored : x["id"] = y["id"] => x = y
  BY <1>7
<1> QED
  BY <1>4, <1>7, <1>8, RecordsRanked

\* A finite set of scored records has one that represents it.
LEMMA RepresentativeExists ==
  ASSUME NEW S, S \subseteq ScoredRecords, S # {}
  PROVE  \E r \in S : \A d \in S : Representative(r, d)
<1> DEFINE scores == {d.score : d \in S}
           best == {d \in S : d.score = Max(scores)}
           segments == {d.segment : d \in best}
<1>1. \A d \in S : d.score \in -4..4 /\ d.segment \in Nat /\ d.id \in Nat
  BY DEF ScoredRecords, Scores
<1>2. Max(scores) \in scores /\ \A x \in scores : x <= Max(scores)
  <2>1. scores \subseteq -4..4 /\ scores # {}
    BY <1>1
  <2> HIDE DEF scores
  <2>2. -4 \in Int /\ 4 \in Int
    OBVIOUS
  <2> QED
    BY <2>1, <2>2, IntegerExtremes, Zenon
<1>3. best # {} /\ \A d \in S : d.score <= Max(scores)
  BY <1>2
<1>4. PICK least \in segments : \A s \in segments : least <= s
  <2>1. segments \in SUBSET Nat /\ segments # {}
    BY <1>1, <1>3
  <2> HIDE DEF segments
  <2> QED
    BY <2>1, LeastNatural
<1> DEFINE first == {d.id : d \in {e \in best : e.segment = least}}
<1>5. PICK id \in first : \A i \in first : id <= i
  <2>1. first \in SUBSET Nat /\ first # {}
    BY <1>1, <1>4
  <2> HIDE DEF first
  <2> QED
    BY <2>1, LeastNatural
<1>6. PICK r \in best : r.segment = least /\ r.id = id
  BY <1>5
<1>7. r \in S /\ r.score = Max(scores)
  BY <1>6
<1>8. PICK top : top = Max(scores)
  OBVIOUS
<1>9. \A d \in S : Representative(r, d)
  <2>1. SUFFICES ASSUME NEW d \in S PROVE Representative(r, d)
    OBVIOUS
  <2>2. d.score <= top /\ r.score = top /\ d.score \in Int /\ r.score \in Int
    BY <1>1, <1>3, <1>7, <1>8
  <2>3. d.score = top => d.segment \in segments
    BY <1>8
  <2>4. d.score = top => least <= d.segment
    BY <1>4, <2>3
  <2>5. d.score = top /\ d.segment = least => id <= d.id
    <3>1. d.score = top /\ d.segment = least => d.id \in first
      BY <1>8
    <3> QED
      BY <1>5, <3>1
  <2>6. d.segment \in Nat /\ d.id \in Nat /\ r.segment = least /\ r.id = id /\ least \in Nat
    BY <1>1, <1>6, <1>7
  <2> HIDE DEF best, segments, first, scores
  <2> QED
    BY <2>2, <2>4, <2>5, <2>6 DEF Representative
<1> QED
  BY <1>7, <1>9

\* Each conversation is represented once, by a best of its segments.
LEMMA ConversationsRepresented ==
  ASSUME NEW list, RankedList(list)
  PROVE  /\ RankedList(Collapse(list))
         /\ \A p, q \in 1..Len(Collapse(list)) :
               Collapse(list)[p].canonical = Collapse(list)[q].canonical => p = q
         /\ \A x : Occurs(Collapse(list), x) => Occurs(list, x)
         /\ \A c : Occurs(list, c) =>
               \E r : Occurs(Collapse(list), r) /\ r.canonical = c.canonical /\ Representative(r, c)
<1> DEFINE best == {c \in Range(list) :
                      \A d \in Range(list) : d.canonical = c.canonical => Representative(c, d)}
<1>1. list \in Seq(ScoredRecords) /\ EachOnce(list)
  BY DEF RankedList
<1>2. \A x : x \in Range(list) <=> Occurs(list, x)
  BY <1>1, RangeOccurs
<1>3. Range(list) \subseteq ScoredRecords
  BY <1>1 DEF Range
<1>4. \A c, d \in Range(list) : c.id = d.id => c = d
  <2>1. \A c \in Range(list) : \E p \in 1..Len(list) : list[p] = c
    BY <1>2, Zenon DEF Occurs
  <2> QED
    BY <1>1, <2>1, Zenon DEF EachOnce
<1>5. best \subseteq ScoredRecords /\ best \subseteq Range(list)
  BY <1>3
<1>6. \A c, d \in best : c.canonical = d.canonical => c = d
  <2>1. SUFFICES ASSUME NEW c \in best, NEW d \in best, c.canonical = d.canonical PROVE c = d
    OBVIOUS
  <2>2. Representative(c, d) /\ Representative(d, c)
    BY <2>1
  <2>3. c \in ScoredRecords /\ d \in ScoredRecords
    BY <1>5
  <2>4. c.id = d.id
    BY <2>2, <2>3 DEF Representative, ScoredRecords, Scores
  <2> QED
    BY <1>4, <1>5, <2>4
<1>7. Collapse(list) = Ranked(best, "canonical")
  BY Zenon DEF Collapse
<1>8. \A c \in Range(list) : \E r \in best : r.canonical = c.canonical /\ Representative(r, c)
  <2>1. SUFFICES ASSUME NEW c \in Range(list)
                 PROVE  \E r \in best : r.canonical = c.canonical /\ Representative(r, c)
    OBVIOUS
  <2> DEFINE S == {d \in Range(list) : d.canonical = c.canonical}
  <2>2. S \subseteq ScoredRecords /\ S # {} /\ c \in S
    BY <1>3
  <2>3. PICK r \in S : \A d \in S : Representative(r, d)
    <3> HIDE DEF S
    <3> QED
      BY <2>2, RepresentativeExists
  <2>4. r \in best
    BY <2>3
  <2> QED
    BY <2>2, <2>3, <2>4
<1> HIDE DEF best
<1>9. PICK final : final = Collapse(list)
  OBVIOUS
<1>10. RankedList(final) /\ \A x : Occurs(final, x) <=> x \in best
  <2>1. \A c, d \in best : c["canonical"] = d["canonical"] => c = d
    BY <1>6
  <2>2. \A c, d \in best : c.id = d.id => c = d
    BY <1>4, <1>5
  <2> QED
    BY <1>5, <1>7, <1>9, <2>1, <2>2, RecordsRanked
<1>11. \A p, q \in 1..Len(final) : final[p].canonical = final[q].canonical => p = q
  <2>1. SUFFICES ASSUME NEW p \in 1..Len(final), NEW q \in 1..Len(final), final[p].canonical = final[q].canonical
                 PROVE  p = q
    OBVIOUS
  <2>2. final[p] \in best /\ final[q] \in best
    BY <1>10, Zenon DEF Occurs
  <2>3. final[p] = final[q]
    BY <1>6, <2>1, <2>2
  <2> QED
    BY <1>10, <2>1, <2>3, Zenon DEF RankedList, EachOnce
<1>12. \A x : Occurs(final, x) => Occurs(list, x)
  BY <1>2, <1>5, <1>10
<1>13. \A c : Occurs(list, c) => \E r : Occurs(final, r) /\ r.canonical = c.canonical /\ Representative(r, c)
  BY <1>2, <1>8, <1>10, Zenon
<1> QED
  BY <1>9, <1>10, <1>11, <1>12, <1>13

\* Scores are integers, and the sigmoids of scores thousandths.
LEMMA ScoresKnown ==
  /\ \A c \in ScoredRecords : c.score \in Scores /\ c.score \in Int /\ c.score \in -4..4
  /\ \A c \in ScoredRecords : SigmoidScore[c.score] \in 0..1000
<1>1. \A c \in ScoredRecords : c.score \in Scores /\ c.score \in Int /\ c.score \in -4..4
  BY DEF ScoredRecords, Scores
<1>2. \A s \in Scores : SigmoidScore[s] \in 0..1000
  BY DEF SigmoidScore, Scores
<1> QED
  BY <1>1, <1>2

\* What stands at some places of a ranked list is ranked.
LEMMA PlacesRanked ==
  ASSUME NEW list, RankedList(list), NEW places
  PROVE  /\ RankedList(AtPlaces(list, places))
         /\ \A x : Occurs(AtPlaces(list, places), x) <=> \E i \in 1..Len(list) : i \in places /\ list[i] = x
<1>1. list \in Seq(ScoredRecords) /\ EachOnce(list) /\ Descends(list)
  BY DEF RankedList
<1>2. PICK kept \in Seq(ScoredRecords) :
        kept = AtPlaces(list, places) /\ \E at : Takes(kept, at, list, places, Len(list))
  BY <1>1, PlacesTaken
<1>3. PICK at : Takes(kept, at, list, places, Len(list))
  BY <1>2
<1>4. \A k \in 1..Len(kept) : at[k] \in places /\ at[k] \in 1..Len(list) /\ kept[k] = list[at[k]]
  BY <1>3, Zenon DEF Takes
<1>5. \A k, l \in 1..Len(kept) : k < l => at[k] < at[l]
  BY <1>3, Zenon DEF Takes
<1>6. \A i \in places : i \in 1..Len(list) => \E k \in 1..Len(kept) : at[k] = i
  BY <1>3, Zenon DEF Takes
<1>7. Descends(kept)
  <2>1. SUFFICES ASSUME NEW p \in 1..Len(kept), NEW q \in 1..Len(kept), p < q
                 PROVE  kept[p].score >= kept[q].score
    BY Zenon DEF Descends
  <2>2. at[p] \in 1..Len(list) /\ at[q] \in 1..Len(list) /\ at[p] < at[q]
    BY <1>4, <1>5, <2>1
  <2>3. kept[p] = list[at[p]] /\ kept[q] = list[at[q]]
    BY <1>4, <2>1
  <2> QED
    BY <1>1, <2>2, <2>3, Zenon DEF Descends
<1>8. EachOnce(kept)
  <2>1. SUFFICES ASSUME NEW p \in 1..Len(kept), NEW q \in 1..Len(kept), kept[p].id = kept[q].id, p # q
                 PROVE  FALSE
    BY Zenon DEF EachOnce
  <2>2. at[p] \in 1..Len(list) /\ at[q] \in 1..Len(list) /\ kept[p] = list[at[p]] /\ kept[q] = list[at[q]]
    BY <1>4, <2>1
  <2>3. at[p] = at[q]
    BY <1>1, <2>1, <2>2, Zenon DEF EachOnce
  <2>4. p < q \/ q < p
    BY <2>1
  <2>5. at[p] < at[q] \/ at[q] < at[p]
    BY <1>5, <2>1, <2>4
  <2> QED
    BY <2>2, <2>3, <2>5
<1>9. \A x : Occurs(kept, x) <=> \E i \in 1..Len(list) : i \in places /\ list[i] = x
  <2>1. ASSUME NEW x, Occurs(kept, x) PROVE \E i \in 1..Len(list) : i \in places /\ list[i] = x
    BY <1>4, <2>1, Zenon DEF Occurs
  <2>2. ASSUME NEW i \in 1..Len(list), i \in places PROVE Occurs(kept, list[i])
    <3>1. PICK k \in 1..Len(kept) : at[k] = i
      BY <1>6, <2>2
    <3> QED
      BY <1>4, <3>1 DEF Occurs
  <2> QED
    BY <2>1, <2>2
<1> QED
  BY <1>2, <1>7, <1>8, <1>9 DEF RankedList

\* Whoever is refused by the floor is no better than those that pass it.
LEMMA FloorRefusesWeakest ==
  ASSUME NEW list, RankedList(list)
  PROVE  /\ RankedList(Eligible(list))
         /\ \A x : Occurs(Eligible(list), x) => Occurs(list, x)
         /\ \A c, d : Occurs(list, c) /\ ~Occurs(Eligible(list), c) /\ Occurs(Eligible(list), d)
                         => c.score <= d.score
<1> DEFINE places == {i \in DOMAIN list : list[i].score >= RelevanceFloor}
           above == AtPlaces(list, places)
<1>1. list \in Seq(ScoredRecords) /\ EachOnce(list) /\ Descends(list)
  BY DEF RankedList
<1>2. \A i \in 1..Len(list) : i \in places <=> list[i].score >= RelevanceFloor
  BY <1>1
<1>3. \A i \in 1..Len(list) : list[i] \in ScoredRecords /\ list[i].score \in Int
  BY <1>1, ScoresKnown
<1> HIDE DEF places
<1>4. RankedList(above) /\ \A x : Occurs(above, x) <=> \E i \in 1..Len(list) : i \in places /\ list[i] = x
  BY PlacesRanked
<1>5. \/ Eligible(list) = above
      \/ Eligible(list) = <<Head(list)>> /\ list # <<>>
  BY Zenon DEF Eligible, places
<1> HIDE DEF above
<1>6. CASE Eligible(list) = above
  <2>1. \A x : Occurs(above, x) => Occurs(list, x)
    BY <1>4, Zenon DEF Occurs
  <2>2. ASSUME NEW c, NEW d, Occurs(list, c), ~Occurs(above, c), Occurs(above, d) PROVE c.score <= d.score
    <3>1. PICK i \in 1..Len(list) : list[i] = c
      BY <2>2, Zenon DEF Occurs
    <3>2. i \notin places
      BY <1>4, <2>2, <3>1
    <3>3. PICK j \in 1..Len(list) : j \in places /\ list[j] = d
      BY <1>4, <2>2
    <3> QED
      BY <1>2, <1>3, <3>1, <3>2, <3>3 DEF RelevanceFloor
  <2> QED
    BY <1>4, <1>6, <2>1, <2>2
<1>7. CASE Eligible(list) = <<Head(list)>> /\ list # <<>>
  <2>1. PICK one : one = Eligible(list)
    OBVIOUS
  <2>2. one = <<list[1]>> /\ 1 \in 1..Len(list) /\ Len(list) \in Nat
    BY <1>1, <1>7, <2>1
  <2>3. one \in Seq(ScoredRecords) /\ Len(one) = 1 /\ one[1] = list[1]
    BY <1>3, <2>2
  <2>4. RankedList(one)
    BY <2>3 DEF RankedList, EachOnce, Descends
  <2>5. \A x : Occurs(one, x) <=> x = list[1]
    BY <2>3 DEF Occurs
  <2>6. ASSUME NEW c, Occurs(list, c), c # list[1] PROVE c.score <= list[1].score
    <3>1. PICK i \in 1..Len(list) : list[i] = c
      BY <2>6, Zenon DEF Occurs
    <3>2. 1 < i
      BY <2>6, <3>1
    <3>3. list[1].score >= list[i].score
      BY <1>1, <2>2, <3>1, <3>2, Zenon DEF Descends
    <3> QED
      BY <1>3, <2>2, <3>1, <3>3
  <2>7. Occurs(list, list[1])
    BY <2>2 DEF Occurs
  <2> QED
    BY <2>1, <2>4, <2>5, <2>6, <2>7
<1> QED
  BY <1>5, <1>6, <1>7

\* The pool is a beginning of the list, and the one after its last is weaker.
CutOff(pool, list) ==
    \E k \in 0..Len(list) :
        /\ pool = SubSeq(list, 1, k)
        /\ Len(list) > 0 => k > 0
        /\ k > 0 /\ k < Len(list) => list[k].score > list[k + 1].score

\* The gaps of a list, and where the widest are.
Widest(n, lo, hi, gap, gaps, widest) ==
    /\ \A i \in 1..n : gap[i] \in lo..hi
    /\ \A x : x \in gaps <=> \E i \in 1..n : x = gap[i]
    /\ \A i : i \in widest <=> i \in 1..n /\ gap[i] = Max(gaps)

\* The first of the widest gaps is one of them.
LEMMA WidestGap ==
  ASSUME NEW n \in Nat \ {0}, NEW lo \in Int, NEW hi \in Int, NEW gap, NEW gaps, NEW widest,
         Widest(n, lo, hi, gap, gaps, widest)
  PROVE  Max(gaps) \in Int /\ Min(widest) \in 1..n /\ gap[Min(widest)] = Max(gaps)
<1> USE DEF Widest
<1>1. gaps \subseteq lo..hi
  OBVIOUS
<1>2. gap[1] \in gaps
  OBVIOUS
<1>3. Max(gaps) \in gaps
  BY <1>1, <1>2, IntegerExtremes
<1>4. widest \subseteq 1..n /\ widest # {}
  BY <1>3
<1>5. 1 \in Int /\ n \in Int
  OBVIOUS
<1>6. Min(widest) \in widest
  BY <1>4, <1>5, IntegerExtremes
<1> QED
  BY <1>1, <1>3, <1>6

\* The adaptive cut is made where the scores fall.
LEMMA CutWhereItFalls ==
  ASSUME NEW list, RankedList(list)
  PROVE  CutOff(SubSeq(list, 1, AdaptiveK(list)), list)
<1>1. PICK N \in Nat : N = Len(list)
  BY DEF RankedList
<1> DEFINE gap(i) == SigmoidScore[list[i].score] - SigmoidScore[list[i + 1].score]
           gaps == {gap(i) : i \in 1..N - 1}
           widest == {i \in 1..N - 1 : gap(i) = Max(gaps)}
<1>2. list \in Seq(ScoredRecords) /\ Descends(list)
  BY DEF RankedList
<1>3. \A i \in 1..N : list[i] \in ScoredRecords
  BY <1>2, <1>1
<1>4. \A i \in 1..N : list[i].score \in Int
  BY <1>3, ScoresKnown
<1>5. \A i \in 1..N - 1 : i \in 1..N /\ i + 1 \in 1..N /\ i < i + 1
  OBVIOUS
<1>6. AdaptiveK(list) = IF N <= 1 THEN N ELSE IF Max(gaps) < GapThreshold THEN N ELSE Min(widest)
  BY <1>1, Zenon DEF AdaptiveK
<1>7. \A i \in 1..N : SigmoidScore[list[i].score] \in 0..1000
  <2>1. \A c \in ScoredRecords : SigmoidScore[c.score] \in 0..1000
    BY ScoresKnown
  <2> QED
    BY <1>3, <2>1, ZenonT(40)
<1>8. PICK sigmoid : sigmoid = [i \in 1..N |-> SigmoidScore[list[i].score]]
  OBVIOUS
<1>9. \A i \in 1..N : sigmoid[i] = SigmoidScore[list[i].score]
  BY <1>8, Zenon
<1>10. \A i \in 1..N : sigmoid[i] \in 0..1000
  BY <1>7, <1>9, ZenonT(40)
<1>11. \A i \in 1..N - 1 : gap(i) = sigmoid[i] - sigmoid[i + 1]
  <2>1. SUFFICES ASSUME NEW i \in 1..N - 1 PROVE gap(i) = sigmoid[i] - sigmoid[i + 1]
    OBVIOUS
  <2>2. sigmoid[i] = SigmoidScore[list[i].score] /\ sigmoid[i + 1] = SigmoidScore[list[i + 1].score]
    BY <1>5, <1>9
  <2> QED
    BY <2>2
<1>12. PICK fall : fall = [i \in 1..N - 1 |-> sigmoid[i] - sigmoid[i + 1]]
  OBVIOUS
<1>13. \A i \in 1..N - 1 : fall[i] = sigmoid[i] - sigmoid[i + 1]
  BY <1>12
<1>14. PICK lo \in Int, hi \in Int : lo = 0 - 1000 /\ hi = 1000
  OBVIOUS
<1>15. \A i \in 1..N - 1 : fall[i] \in lo..hi
  <2>1. SUFFICES ASSUME NEW i \in 1..N - 1 PROVE fall[i] \in lo..hi
    OBVIOUS
  <2>2. i \in 1..N /\ i + 1 \in 1..N
    BY <1>5
  <2>3. sigmoid[i] \in 0..1000 /\ sigmoid[i + 1] \in 0..1000
    BY <1>10, <2>2, ZenonT(40)
  <2>4. PICK a \in 0..1000 : a = sigmoid[i]
    BY <2>3
  <2>5. PICK b \in 0..1000 : b = sigmoid[i + 1]
    BY <2>3
  <2>6. a - b \in lo..hi
    BY <1>14
  <2> QED
    BY <1>13, <2>4, <2>5, <2>6
<1>16. \A i \in 1..N - 1 : gap(i) = fall[i]
  BY <1>11, <1>13, Zenon
<1>17. gaps = {fall[i] : i \in 1..N - 1}
  BY <1>16, Zenon
<1>18. widest = {i \in 1..N - 1 : fall[i] = Max(gaps)}
  <2> HIDE DEF gaps
  <2> QED
    BY <1>16, Zenon
<1> HIDE DEF gap, gaps, widest
<1>19. CASE N <= 1 \/ Max(gaps) < GapThreshold
  <2>1. AdaptiveK(list) = N
    BY <1>6, <1>19, Zenon
  <2>2. N \in 0..N /\ (N > 0 => N > 0) /\ ~(N < N)
    OBVIOUS
  <2> QED
    BY <1>1, <2>1, <2>2, Zenon DEF CutOff
<1>20. CASE ~(N <= 1) /\ ~(Max(gaps) < GapThreshold)
  <2>1. PICK k : k = Min(widest)
    OBVIOUS
  <2>2. AdaptiveK(list) = k
    BY <1>6, <1>20, <2>1, Zenon
  <2>3. PICK top : top = Max(gaps)
    OBVIOUS
  <2>4. top \in Int /\ k \in 1..N - 1 /\ fall[k] = top
    <3>1. PICK m \in Nat \ {0} : m = N - 1
      <4>1. ~(N <= 1)
        BY <1>20, Zenon
      <4> QED
        BY <4>1
    <3>2. /\ \A x : x \in gaps <=> \E i \in 1..m : x = fall[i]
          /\ \A i : i \in widest <=> i \in 1..m /\ fall[i] = Max(gaps)
      BY <1>17, <1>18, <3>1, Zenon
    <3>3. \A i \in 1..m : fall[i] \in lo..hi
      BY <1>15, <3>1, Zenon
    <3>4. Max(gaps) \in Int /\ Min(widest) \in 1..m /\ fall[Min(widest)] = Max(gaps)
      <4>1. Widest(m, lo, hi, fall, gaps, widest)
        BY <3>2, <3>3, Zenon DEF Widest
      <4> QED
        BY <4>1, WidestGap
    <3> QED
      BY <2>1, <2>3, <3>1, <3>4, Zenon
  <2>5. ~(top < 150)
    BY <1>20, <2>3, Zenon DEF GapThreshold
  <2>6. sigmoid[k] # sigmoid[k + 1]
    <3>1. sigmoid[k] \in 0..1000 /\ sigmoid[k + 1] \in 0..1000
      BY <1>5, <1>10, <2>4
    <3>2. sigmoid[k] - sigmoid[k + 1] = top
      BY <1>13, <2>4, Zenon
    <3>3. PICK a \in 0..1000 : a = sigmoid[k]
      BY <3>1, ZenonT(40)
    <3>4. PICK b \in 0..1000 : b = sigmoid[k + 1]
      BY <3>1
    <3>5. a - b = top
      BY <3>2, <3>3, <3>4, Zenon
    <3>6. a # b
      BY <2>4, <2>5, <3>5
    <3> QED
      BY <3>3, <3>4, <3>6, Zenon
  <2>7. list[k].score # list[k + 1].score
    <3>1. sigmoid[k] = SigmoidScore[list[k].score] /\ sigmoid[k + 1] = SigmoidScore[list[k + 1].score]
      BY <1>5, <1>9, <2>4
    <3> QED
      BY <2>6, <3>1, Zenon
  <2>8. list[k].score >= list[k + 1].score
    BY <1>2, <1>5, <1>1, <2>4, Zenon DEF Descends
  <2>9. list[k].score > list[k + 1].score
    BY <1>4, <1>5, <2>4, <2>7, <2>8
  <2>10. k \in 0..N /\ k > 0
    BY <2>4
  <2> QED
    BY <1>1, <2>2, <2>9, <2>10, Zenon DEF CutOff
<1> QED
  BY <1>19, <1>20

---------------------------------------------------------------------------
(* Retrieval: the budget *)

\* The lesser of two numbers.
LEMMA Lesser ==
  ASSUME NEW a \in Nat, NEW b \in Nat
  PROVE  Min({a, b}) = IF a <= b THEN a ELSE b
<1>1. {a, b} \subseteq 0..(a + b) /\ a + b \in Nat /\ {a, b} # {}
  OBVIOUS
<1>2. PICK m : m = Min({a, b})
  OBVIOUS
<1>3. m \in {a, b} /\ \A x \in {a, b} : m <= x
  BY <1>1, <1>2, Extremes
<1> QED
  BY <1>2, <1>3

Identifiable(items) == \A n \in 1..Len(items) : items[n].id \in 1..4

\* A context has a number of tokens.
LEMMA TokensCounted ==
  ASSUME NEW items, Len(items) \in Nat, Identifiable(items), items # <<>> => Len(items) > 0
  PROVE  ContextTokens(items) \in Nat
<1>1. PICK N \in Nat : N = Len(items)
  OBVIOUS
<1> DEFINE Def(g) == [n \in 0..N |-> IF n = 0 THEN 0 ELSE g[n - 1] + Tokens[items[n].id]]
           f == CHOOSE g : g = Def(g)
           T == [n \in 0..N |-> Nat]
           next == [n \in 1..N |-> [m \in Nat |-> m + Tokens[items[n].id]]]
<1>2. \A n \in 1..N : n \in 0..N /\ n - 1 \in 0..N /\ n # 0
  OBVIOUS
<1>3. \A n \in 1..N : Tokens[items[n].id] \in Nat
  <2>1. \A i \in 1..4 : Tokens[i] \in Nat
    BY DEF Tokens
  <2> QED
    BY <1>1, <2>1 DEF Identifiable
<1>4. \A n \in 1..N : \A m \in T[n - 1] : next[n][m] \in T[n]
  <2>1. SUFFICES ASSUME NEW n \in 1..N, NEW m \in T[n - 1] PROVE next[n][m] \in T[n]
    OBVIOUS
  <2>2. m \in Nat /\ T[n] = Nat
    BY <1>2
  <2>3. PICK t \in Nat : t = Tokens[items[n].id]
    BY <1>3
  <2>4. next[n][m] = m + t
    BY <2>2, <2>3
  <2> QED
    BY <2>2, <2>4
<1>5. PICK g : Solves(g, next, T, 0, N)
  <2>1. StepsInto(next, T, 0, N)
    <3>1. 0 \in T[0]
      OBVIOUS
    <3> QED
      BY <1>4, <3>1, Zenon DEF StepsInto
  <2> HIDE DEF T, next, f
  <2> QED
    BY <2>1, Iterates
<1>6. g[0] = 0 /\ \A n \in 0..N : g[n] \in Nat
  BY <1>5 DEF Solves
<1>7. \A n \in 1..N : g[n] = g[n - 1] + Tokens[items[n].id]
  <2>1. \A n \in 1..N : next[n][g[n - 1]] = g[n - 1] + Tokens[items[n].id]
    BY <1>2, <1>6
  <2> HIDE DEF T, next
  <2> QED
    BY <1>5, <2>1 DEF Solves
<1> HIDE DEF T, next
<1> DEFINE h == [n \in 0..N |-> g[n]]
<1>8. h = Def(h)
  <2>1. \A n \in 0..N : n # 0 => n - 1 \in 0..N /\ n \in 1..N
    OBVIOUS
  <2>2. \A n \in 0..N : h[n] = IF n = 0 THEN 0 ELSE h[n - 1] + Tokens[items[n].id]
    BY <1>6, <1>7, <2>1
  <2> QED
    BY <2>2
<1>9. f = Def(f)
  <2> HIDE DEF h
  <2> QED
    BY <1>8, Zenon
<1>10. items # <<>> => ContextTokens(items) = f[N] + N - 1
  <2>1. items # <<>> => ContextTokens(items) = f[Len(items)] + Len(items) - 1
    BY <1>1, Zenon DEF ContextTokens
  <2> HIDE DEF f
  <2> QED
    BY <1>1, <2>1
<1>11. items = <<>> => ContextTokens(items) = 0
  BY Zenon DEF ContextTokens
<1> HIDE DEF f
<1>12. \A n \in 0..N : f[n] = g[n]
  <2> DEFINE G == {n \in 0..N : f[n] = g[n]}
  <2>1. 0 \in G
    BY <1>6, <1>9
  <2>2. ASSUME NEW n \in 1..N, n - 1 \in G PROVE n \in G
    <3>1. f[n - 1] = g[n - 1]
      BY <2>2
    <3>2. f[n] = f[n - 1] + Tokens[items[n].id]
      BY <1>2, <1>9
    <3> QED
      BY <1>2, <1>7, <3>1, <3>2
  <2> HIDE DEF G
  <2>3. \A n \in 0..N : n \in G
    BY <2>1, <2>2, Upward
  <2> USE DEF G
  <2> QED
    BY <2>3
<1>13. f[N] \in Nat
  BY <1>6, <1>12
<1> QED
  BY <1>10, <1>13, <1>11, <1>1

\* The longest beginning that fits the budget, if any does.
LongestFitting(kept, items, n) ==
    /\ kept \in 0..n
    /\ kept > 0 => ContextTokens(SubSeq(items, 1, kept)) <= RetTokenBudget
    /\ \A p \in (kept + 1)..n : ~(ContextTokens(SubSeq(items, 1, p)) <= RetTokenBudget)

\* WithinBudget tries every beginning.
LEMMA BudgetKept ==
  ASSUME NEW items, Len(items) \in Nat
  PROVE  \E kept : WithinBudget(items) = SubSeq(items, 1, kept) /\ LongestFitting(kept, items, Len(items))
<1>1. PICK N \in Nat : N = Len(items)
  OBVIOUS
<1> DEFINE Fits(n) == ContextTokens(SubSeq(items, 1, n)) <= RetTokenBudget
           Def(g) == [n \in 0..N |-> IF n = 0 \/ Fits(n) THEN n ELSE g[n - 1]]
           f == CHOOSE g : g = Def(g)
           T == [n \in 0..N |-> {m \in Nat : LongestFitting(m, items, n)}]
           next == [n \in 1..N |-> [m \in Nat |-> IF Fits(n) THEN n ELSE m]]
<1>2. \A n \in 1..N : n \in 0..N /\ n - 1 \in 0..N /\ n # 0
  OBVIOUS
<1>3. 0 \in T[0]
  <2>1. LongestFitting(0, items, 0)
    BY DEF LongestFitting
  <2> QED
    BY <2>1
<1>4. \A n \in 1..N : \A m \in T[n - 1] : next[n][m] \in T[n]
  <2>1. SUFFICES ASSUME NEW n \in 1..N, NEW m \in T[n - 1] PROVE next[n][m] \in T[n]
    OBVIOUS
  <2>2. m \in Nat /\ LongestFitting(m, items, n - 1)
    BY <1>2
  <2>3. next[n][m] = IF Fits(n) THEN n ELSE m
    BY <2>2, Zenon
  <2>4. CASE Fits(n)
    <3>1. n \in 0..n /\ \A p \in (n + 1)..n : FALSE
      OBVIOUS
    <3>2. LongestFitting(n, items, n)
      BY <2>4, <3>1, Zenon DEF LongestFitting
    <3> QED
      BY <1>2, <2>3, <2>4, <3>2
  <2>5. CASE ~Fits(n)
    <3>1. m \in 0..(n - 1)
      BY <2>2, Zenon DEF LongestFitting
    <3>2. m \in 0..n /\ \A p \in (m + 1)..n : p = n \/ p \in (m + 1)..(n - 1)
      BY <3>1
    <3>3. LongestFitting(m, items, n)
      BY <2>2, <2>5, <3>2, Zenon DEF LongestFitting
    <3> QED
      BY <1>2, <2>2, <2>3, <2>5, <3>3
  <2> QED
    BY <2>4, <2>5
<1> HIDE DEF Fits
<1>5. PICK g : Solves(g, next, T, 0, N)
  <2>1. StepsInto(next, T, 0, N)
    BY <1>3, <1>4 DEF StepsInto
  <2> HIDE DEF T, next, f
  <2> QED
    BY <2>1, Iterates
<1>6. g[0] = 0 /\ \A n \in 0..N : g[n] \in Nat /\ LongestFitting(g[n], items, n)
  BY <1>5 DEF Solves
<1>7. \A n \in 1..N : g[n] = IF Fits(n) THEN n ELSE g[n - 1]
  <2>1. \A n \in 1..N : next[n][g[n - 1]] = IF Fits(n) THEN n ELSE g[n - 1]
    <3>1. \A n \in 1..N : g[n - 1] \in Nat
      BY <1>2, <1>6
    <3> QED
      BY <3>1, Zenon
  <2> HIDE DEF T, next
  <2> QED
    BY <1>5, <2>1, Zenon DEF Solves
<1> HIDE DEF T, next
<1> DEFINE h == [n \in 0..N |-> g[n]]
<1>8. h = Def(h)
  <2>1. \A n \in 0..N : n # 0 => n - 1 \in 0..N /\ n \in 1..N
    OBVIOUS
  <2>2. \A n \in 0..N : h[n] = IF n = 0 \/ Fits(n) THEN n ELSE h[n - 1]
    BY <1>6, <1>7, <2>1
  <2> QED
    BY <2>2
<1>9. f = Def(f)
  <2> HIDE DEF h
  <2> QED
    BY <1>8, Zenon
<1>10. WithinBudget(items) = SubSeq(items, 1, f[N])
  BY <1>1, Zenon DEF WithinBudget, Fits
<1> HIDE DEF f
<1>11. \A n \in 0..N : f[n] = g[n]
  <2> DEFINE G == {n \in 0..N : f[n] = g[n]}
  <2>1. 0 \in G
    BY <1>6, <1>9
  <2>2. ASSUME NEW n \in 1..N, n - 1 \in G PROVE n \in G
    <3>1. f[n - 1] = g[n - 1]
      BY <2>2
    <3>2. f[n] = IF Fits(n) THEN n ELSE f[n - 1]
      BY <1>2, <1>9
    <3> QED
      BY <1>2, <1>7, <3>1, <3>2
  <2> HIDE DEF G
  <2>3. \A n \in 0..N : n \in G
    BY <2>1, <2>2, Upward
  <2> USE DEF G
  <2> QED
    BY <2>3
<1>12. N \in 0..N
  OBVIOUS
<1> QED
  BY <1>6, <1>10, <1>11, <1>12, <1>1, Zenon

---------------------------------------------------------------------------
(* Retrieval: the diverse selection *)

PooledRecords == [id : 1..4, canonical : Nat, segment : Nat, score : Scores, class : Classes]

\* A best place of a set of places, and of equal ones the first.
LEMMA BestPlace ==
  ASSUME NEW n \in Nat, NEW D, D \subseteq 1..n, D # {}, NEW value, NEW lo \in Int, NEW hi \in Int,
         \A i \in D : value[i] \in lo..hi
  PROVE  \E i \in D : \A j \in D : value[i] > value[j] \/ (value[i] = value[j] /\ i <= j)
<1> DEFINE values == {value[i] : i \in D}
<1>1. values \subseteq lo..hi /\ values # {}
  OBVIOUS
<1>2. PICK top : top = Max(values)
  OBVIOUS
<1>3. top \in values /\ \A x \in values : x <= top
  <2> HIDE DEF values
  <2> QED
    BY <1>1, <1>2, IntegerExtremes
<1> DEFINE best == {i \in D : value[i] = top}
<1>4. best \in SUBSET Nat /\ best # {}
  <2>1. PICK i \in D : value[i] = top
    BY <1>3
  <2>2. i \in best
    BY <2>1
  <2>3. best \subseteq D /\ D \subseteq Nat
    OBVIOUS
  <2> QED
    BY <2>2, <2>3
<1>5. PICK i \in best : \A j \in best : i <= j
  <2> HIDE DEF best
  <2> QED
    BY <1>4, LeastNatural
<1>6. i \in D /\ value[i] = top
  BY <1>5
<1>7. \A j \in D : value[j] \in Int /\ value[j] <= top
  BY <1>3
<1>8. top \in Int
  BY <1>6, <1>7
<1>9. \A j \in D : value[j] = top => i <= j
  BY <1>5
<1> HIDE DEF best, values
<1>10. \A j \in D : value[i] > value[j] \/ (value[i] = value[j] /\ i <= j)
  BY <1>6, <1>7, <1>8, <1>9
<1> QED
  BY <1>6, <1>10

\* The relevance of a place of the pool.
ScoresOf(pool) == {pool[j].score : j \in DOMAIN pool}
Relevance(pool, i) ==
    IF Max(ScoresOf(pool)) = Min(ScoresOf(pool)) THEN 1 ELSE pool[i].score - Min(ScoresOf(pool))

\* A pooled record has a score.
LEMMA PooledScores ==
  ASSUME NEW pool \in Seq(PooledRecords)
  PROVE  \A j \in 1..Len(pool) : pool[j].score \in Int /\ pool[j].score \in -4..4
<1>1. \A c \in PooledRecords : c.score \in Int /\ c.score \in -4..4
  BY DEF PooledRecords, Scores
<1>2. \A j \in 1..Len(pool) : pool[j] \in PooledRecords
  OBVIOUS
<1> QED
  BY <1>1, <1>2

\* The objective is made of it and of what is taken off for what was chosen.
LEMMA ObjectiveKnown ==
  ASSUME NEW pool \in Seq(PooledRecords), NEW chosen, NEW i \in 1..Len(pool)
  PROVE  /\ Relevance(pool, i) \in 0..8
         /\ \E m \in 0..24 : Objective(pool, chosen, i) = 7 * Relevance(pool, i) - m
                              /\ (Range(chosen) = {} => m = 0)
<1> DEFINE scores == ScoresOf(pool)
<1>1. \A j \in 1..Len(pool) : pool[j].score \in -4..4
  BY PooledScores
<1>2. scores \subseteq -4..4 /\ pool[i].score \in scores
  BY <1>1 DEF ScoresOf
<1>3. /\ Max(scores) \in scores /\ Min(scores) \in scores
      /\ Min(scores) <= pool[i].score /\ pool[i].score <= Max(scores)
  <2>1. -4 \in Int /\ 4 \in Int
    OBVIOUS
  <2> HIDE DEF scores
  <2> QED
    BY <1>2, <2>1, IntegerExtremes
<1>4. PICK top \in Int, low \in Int, s \in Int : top = Max(scores) /\ low = Min(scores) /\ s = pool[i].score
  BY <1>2, <1>3, SMTT(40)
<1>5. low <= s /\ s <= top /\ top - low \in 0..8
  <2>1. top \in -4..4 /\ low \in -4..4
    BY <1>2, <1>3, <1>4
  <2>2. low <= s /\ s <= top
    <3> HIDE DEF scores
    <3> QED
      BY <1>3, <1>4
  <2> QED
    BY <2>1, <2>2
<1>6. Relevance(pool, i) = IF top = low THEN 1 ELSE s - low
  BY <1>4, Zenon DEF Relevance
<1>7. Relevance(pool, i) \in 0..8
  BY <1>5, <1>6
<1>8. PICK spread : spread = IF top = low THEN 1 ELSE top - low
  OBVIOUS
<1>9. spread \in 0..8
  BY <1>5, <1>8
<1>10. PICK redundancy : redundancy = IF \E j \in Range(chosen) : pool[j].class = pool[i].class THEN 1 ELSE 0
  OBVIOUS
<1>11. redundancy \in {0, 1} /\ (Range(chosen) = {} => redundancy = 0)
  BY <1>10
<1>12. Objective(pool, chosen, i) = 7 * Relevance(pool, i) - 3 * redundancy * spread
  BY <1>4, <1>6, <1>8, <1>10, Zenon DEF Objective, ScoresOf
<1>13. CASE redundancy = 0
  <2>1. 3 * redundancy * spread = 0
    BY <1>9, <1>13
  <2> QED
    BY <1>7, <1>12, <2>1
<1>14. CASE redundancy = 1
  <2>1. PICK m \in 0..24 : m = 3 * redundancy * spread
    BY <1>9, <1>14
  <2>2. Objective(pool, chosen, i) = 7 * Relevance(pool, i) - m
    BY <1>12, <2>1
  <2>3. Range(chosen) # {}
    BY <1>11, <1>14
  <2> QED
    BY <1>7, <2>2, <2>3
<1> QED
  BY <1>11, <1>13, <1>14

\* Places of a pool in the order in which they are chosen, the first of all first.
Chosen(order, pool, n) ==
    /\ Len(order) = n /\ \A p \in 1..n : order[p] \in 1..Len(pool)
    /\ \A p, q \in 1..n : order[p] = order[q] => p = q
    /\ n > 0 => order[1] = 1

\* While not all are chosen, there is a best of the others.
LEMMA NextChosen ==
  ASSUME NEW pool \in Seq(PooledRecords), NEW n \in 1..Len(pool), NEW s \in Seq(1..Len(pool)), Chosen(s, pool, n - 1)
  PROVE  \E i \in DOMAIN pool \ Range(s) :
            \A j \in DOMAIN pool \ Range(s) :
               \/ Objective(pool, s, i) > Objective(pool, s, j)
               \/ Objective(pool, s, i) = Objective(pool, s, j) /\ i <= j
<1>1. PICK L \in Nat : L = Len(pool) /\ n \in 1..L /\ DOMAIN pool = 1..L
  OBVIOUS
<1>2. PICK m \in Nat : m = n - 1 /\ m < L
  BY <1>1
<1> DEFINE D == DOMAIN pool \ Range(s)
<1>3. \A x : x \in Range(s) <=> \E p \in 1..m : x = s[p]
  <2>1. Len(s) = m /\ DOMAIN s = 1..Len(s)
    BY <1>2 DEF Chosen
  <2> QED
    BY <2>1, Zenon DEF Range
<1>4. Cardinality(Range(s)) = m
  <2>1. \A p, q \in 1..m : s[p] = s[q] => p = q
    BY <1>2 DEF Chosen
  <2> QED
    <3>1. PICK R : R = Range(s)
      OBVIOUS
    <3>2. PICK f : f = s
      OBVIOUS
    <3>3. \A x : x \in R <=> \E p \in 1..m : x = f[p]
      BY <1>3, <3>1, <3>2, Zenon
    <3>4. \A p, q \in 1..m : f[p] = f[q] => p = q
      BY <2>1, <3>2, Zenon
    <3>5. Cardinality(R) = m
      <4> HIDE DEF D
      <4> QED
        BY <3>3, <3>4, DistinctCount, SMTT(60)
    <3> QED
      BY <3>1, <3>5
<1>5. D # {}
  <2>1. SUFFICES ASSUME D = {} PROVE FALSE
    OBVIOUS
  <2>2. Range(s) \subseteq 1..L
    BY <1>1 DEF Range
  <2>3. Range(s) = 1..L
    BY <1>1, <2>1, <2>2
  <2>4. Cardinality(1..L) = L
    BY FS_Interval
  <2> QED
    BY <1>2, <1>4, <2>3, <2>4
<1>6. PICK value : value = [i \in 1..L |-> Objective(pool, s, i)]
  OBVIOUS
<1>7. \A i \in D : value[i] = Objective(pool, s, i)
  BY <1>1, <1>6
<1>8. \A i \in 1..L : value[i] = Objective(pool, s, i)
  BY <1>6
<1>9. PICK lo \in Int, hi \in Int : lo = 0 - 24 /\ hi = 56
  OBVIOUS
<1>10. \A i \in D : value[i] \in lo..hi
  <2>1. SUFFICES ASSUME NEW i \in D PROVE Objective(pool, s, i) \in lo..hi
    BY <1>7
  <2>2. PICK r \in 0..8, m2 \in 0..24 : Objective(pool, s, i) = 7 * r - m2
    <3>1. i \in 1..Len(pool)
      BY <1>1
    <3> QED
      BY <3>1, ObjectiveKnown
  <2>3. 7 * r - m2 \in lo..hi
    BY <1>9
  <2> QED
    BY <2>2, <2>3
<1>11. D \subseteq 1..L
  BY <1>1
<1> HIDE DEF D
<1>12. PICK i \in D : \A j \in D : value[i] > value[j] \/ (value[i] = value[j] /\ i <= j)
  BY <1>5, <1>10, <1>11, BestPlace
<1>13. \A j \in D : \/ Objective(pool, s, i) > Objective(pool, s, j)
                    \/ Objective(pool, s, i) = Objective(pool, s, j) /\ i <= j
  BY <1>7, <1>12
<1> QED
  BY <1>12, <1>13 DEF D

\* Of a pool by descending score the first is chosen first.
LEMMA FirstChosen ==
  ASSUME NEW pool \in Seq(PooledRecords), Len(pool) > 0, Descends(pool), NEW i \in DOMAIN pool,
         \A j \in DOMAIN pool :
            \/ Objective(pool, <<>>, i) > Objective(pool, <<>>, j)
            \/ Objective(pool, <<>>, i) = Objective(pool, <<>>, j) /\ i <= j
  PROVE  i = 1
<1>1. 1 \in 1..Len(pool) /\ i \in 1..Len(pool) /\ DOMAIN pool = 1..Len(pool)
  OBVIOUS
<1>2. Range(<<>>) = {}
  BY DEF Range
<1>3. PICK r \in 0..8 : r = Relevance(pool, i) /\ Objective(pool, <<>>, i) = 7 * r
  <2>1. PICK m \in 0..24 : Objective(pool, <<>>, i) = 7 * Relevance(pool, i) - m /\ (Range(<<>>) = {} => m = 0)
    BY <1>1, ObjectiveKnown
  <2>2. Relevance(pool, i) \in 0..8
    BY <1>1, ObjectiveKnown
  <2> QED
    BY <1>2, <2>1, <2>2
<1>4. PICK f \in 0..8 : f = Relevance(pool, 1) /\ Objective(pool, <<>>, 1) = 7 * f
  <2>1. PICK m \in 0..24 : Objective(pool, <<>>, 1) = 7 * Relevance(pool, 1) - m /\ (Range(<<>>) = {} => m = 0)
    BY <1>1, ObjectiveKnown
  <2>2. Relevance(pool, 1) \in 0..8
    BY <1>1, ObjectiveKnown
  <2> QED
    BY <1>2, <2>1, <2>2
<1>5. pool[1].score \in Int /\ pool[i].score \in Int
  BY <1>1, PooledScores
<1>6. pool[i].score <= pool[1].score
  BY <1>1, <1>5 DEF Descends
<1>7. Min(ScoresOf(pool)) \in Int
  <2>1. ScoresOf(pool) \subseteq -4..4
    BY PooledScores DEF ScoresOf
  <2>2. pool[1].score \in ScoresOf(pool)
    BY <1>1 DEF ScoresOf
  <2>3. -4 \in Int /\ 4 \in Int
    OBVIOUS
  <2>4. Min(ScoresOf(pool)) \in ScoresOf(pool)
    BY <2>1, <2>2, <2>3, IntegerExtremes
  <2> QED
    BY <2>1, <2>4
<1>8. r <= f
  BY <1>3, <1>4, <1>5, <1>6, <1>7, SMTT(40) DEF Relevance
<1>9. 7 * r > 7 * f \/ i <= 1
  BY <1>1, <1>3, <1>4
<1> QED
  BY <1>1, <1>8, <1>9

\* A function on the first numbers is a list.
LEMMA IntervalsAreLists ==
  ASSUME NEW S, NEW n \in Nat, NEW f \in [1..n -> S]
  PROVE  f \in Seq(S) /\ Len(f) = n
OBVIOUS

\* A list of what stands at chosen places of a pool.
Selection(list, pool, n) ==
    /\ list \in Seq(PooledRecords) /\ Len(list) = n
    /\ \E order : Chosen(order, pool, n) /\ \A p \in 1..n : list[p] = pool[order[p]]

\* The diverse selection chooses as many places as it may, each once, the first of all first.
LEMMA MmrSelects ==
  ASSUME NEW pool \in Seq(PooledRecords), Descends(pool), NEW k \in Nat,
         NEW M \in Nat, M = Min({k, Len(pool)}), M <= Len(pool)
  PROVE  Selection(Mmr(pool, k), pool, M)
<1> DEFINE best(s) ==
             CHOOSE i \in DOMAIN pool \ Range(s) :
                \A j \in DOMAIN pool \ Range(s) :
                    \/ Objective(pool, s, i) > Objective(pool, s, j)
                    \/ Objective(pool, s, i) = Objective(pool, s, j) /\ i <= j
           Def(g) == [n \in 0..Min({k, Len(pool)}) |-> IF n = 0 THEN <<>> ELSE Append(g[n - 1], best(g[n - 1]))]
           f == CHOOSE g : g = Def(g)
           T == [n \in 0..M |-> {s \in Seq(1..Len(pool)) : Chosen(s, pool, n)}]
           next == [n \in 1..M |-> [s \in Seq(1..Len(pool)) |-> Append(s, best(s))]]
<1>1. \A n \in 1..M : n \in 0..M /\ n - 1 \in 0..M /\ n # 0 /\ n \in 1..Len(pool)
  OBVIOUS
<1>2. <<>> \in T[0]
  <2>1. Chosen(<<>>, pool, 0) /\ <<>> \in Seq(1..Len(pool))
    BY DEF Chosen
  <2> QED
    BY <2>1
<1>3. \A n \in 1..M : \A s \in T[n - 1] : next[n][s] \in T[n]
  <2>1. SUFFICES ASSUME NEW n \in 1..M, NEW s \in T[n - 1] PROVE next[n][s] \in T[n]
    OBVIOUS
  <2>2. s \in Seq(1..Len(pool)) /\ Chosen(s, pool, n - 1)
    BY <1>1
  <2>3. PICK i : i = best(s)
    OBVIOUS
  <2>4. /\ i \in DOMAIN pool \ Range(s)
        /\ \A j \in DOMAIN pool \ Range(s) :
              \/ Objective(pool, s, i) > Objective(pool, s, j)
              \/ Objective(pool, s, i) = Objective(pool, s, j) /\ i <= j
    <3>1. n \in 1..Len(pool)
      BY <1>1
    <3>2. \E b \in DOMAIN pool \ Range(s) :
             \A j \in DOMAIN pool \ Range(s) :
                \/ Objective(pool, s, b) > Objective(pool, s, j)
                \/ Objective(pool, s, b) = Objective(pool, s, j) /\ b <= j
      BY <2>2, <3>1, NextChosen
    <3> QED
      BY <2>3, <3>2, Zenon
  <2>5. next[n][s] = Append(s, i)
    BY <2>2, <2>3, Zenon
  <2>6. i \in 1..Len(pool) /\ \A p \in 1..Len(s) : s[p] # i
    BY <2>2, <2>4 DEF Range
  <2>7. PICK t : t = Append(s, i)
    OBVIOUS
  <2>8. /\ t \in Seq(1..Len(pool)) /\ Len(t) = n
        /\ \A p \in 1..(n - 1) : t[p] = s[p]
        /\ t[n] = i /\ Len(s) = n - 1
    <3>1. Len(s) = n - 1 /\ n \in Nat
      BY <2>2 DEF Chosen
    <3> QED
      BY <2>2, <2>6, <2>7, <3>1, Appended
  <2>9. Chosen(t, pool, n)
    <3>1. \A p \in 1..n : p = n \/ p \in 1..(n - 1)
      OBVIOUS
    <3>2. \A p \in 1..n : t[p] \in 1..Len(pool)
      BY <2>2, <2>6, <2>8, <3>1 DEF Chosen
    <3>3. \A p \in 1..(n - 1) : t[p] # t[n]
      BY <2>6, <2>8
    <3>4. \A p, q \in 1..(n - 1) : t[p] = t[q] => p = q
      BY <2>2, <2>8, Zenon DEF Chosen
    <3>5. \A p, q \in 1..n : t[p] = t[q] => p = q
      BY <3>1, <3>3, <3>4, Zenon
    <3>6. t[1] = 1
      <4>1. CASE n = 1
        <5>1. s = <<>>
          BY <2>2, <2>8, <4>1
        <5>2. Range(s) = {} /\ Len(pool) > 0
          BY <1>1, <5>1 DEF Range
        <5>3. i = 1
          <6>1. /\ i \in DOMAIN pool
                /\ \A j \in DOMAIN pool :
                      \/ Objective(pool, <<>>, i) > Objective(pool, <<>>, j)
                      \/ Objective(pool, <<>>, i) = Objective(pool, <<>>, j) /\ i <= j
            BY <2>4, <5>1, <5>2
          <6> QED
            BY <5>2, <6>1, FirstChosen
        <5> QED
          BY <2>8, <4>1, <5>3
      <4>2. CASE n # 1
        BY <2>2, <2>8, <4>2 DEF Chosen
      <4> QED
        BY <4>1, <4>2
    <3> QED
      BY <2>8, <3>2, <3>5, <3>6, Zenon DEF Chosen
  <2>10. T[n] = {u \in Seq(1..Len(pool)) : Chosen(u, pool, n)}
    BY <1>1, Zenon
  <2>11. t \in T[n]
    BY <2>8, <2>9, <2>10, Zenon
  <2> QED
    BY <2>5, <2>7, <2>11, Zenon
<1> HIDE DEF best
<1>4. PICK g : Solves(g, next, T, <<>>, M)
  <2>1. StepsInto(next, T, <<>>, M)
    BY <1>2, <1>3, Zenon DEF StepsInto
  <2> HIDE DEF T, next, f
  <2> QED
    BY <2>1, Iterates
<1>5. g[0] = <<>> /\ \A n \in 0..M : g[n] \in Seq(1..Len(pool)) /\ Chosen(g[n], pool, n)
  BY <1>4 DEF Solves
<1>6. \A n \in 1..M : g[n] = Append(g[n - 1], best(g[n - 1]))
  <2>1. \A n \in 1..M : next[n][g[n - 1]] = Append(g[n - 1], best(g[n - 1]))
    <3>1. \A n \in 1..M : g[n - 1] \in Seq(1..Len(pool))
      BY <1>1, <1>5
    <3> QED
      BY <3>1, Zenon
  <2> HIDE DEF T, next
  <2> QED
    BY <1>4, <2>1, Zenon DEF Solves
<1> HIDE DEF T, next
<1> DEFINE h == [n \in 0..M |-> g[n]]
<1>7. h = Def(h)
  <2>1. \A n \in 0..M : n # 0 => n - 1 \in 0..M /\ n \in 1..M
    OBVIOUS
  <2>2. \A n \in 0..M : h[n] = IF n = 0 THEN <<>> ELSE Append(h[n - 1], best(h[n - 1]))
    <3>1. SUFFICES ASSUME NEW n \in 0..M
                   PROVE  h[n] = IF n = 0 THEN <<>> ELSE Append(h[n - 1], best(h[n - 1]))
      OBVIOUS
    <3>2. CASE n = 0
      BY <1>5, <3>2
    <3>3. CASE n # 0
      <4>1. n \in 1..M /\ h[n] = g[n] /\ h[n - 1] = g[n - 1]
        BY <2>1, <3>3
      <4> HIDE DEF h
      <4> QED
        BY <1>6, <3>3, <4>1, Zenon
    <3> QED
      BY <3>2, <3>3
  <2>3. h = [n \in 0..M |-> IF n = 0 THEN <<>> ELSE Append(h[n - 1], best(h[n - 1]))]
    BY <2>2, Zenon
  <2> QED
    BY <2>3, Zenon
<1>8. f = Def(f)
  <2> HIDE DEF h
  <2> QED
    BY <1>7, Zenon
<1>9. Mmr(pool, k) = [n \in DOMAIN (f[Min({k, Len(pool)})]) |-> pool[f[Min({k, Len(pool)})][n]]]
  BY Zenon DEF Mmr, best
<1> HIDE DEF f
<1>10. \A n \in 0..M : f[n] = g[n]
  <2> DEFINE G == {n \in 0..M : f[n] = g[n]}
  <2>1. f = [n \in 0..M |-> IF n = 0 THEN <<>> ELSE Append(f[n - 1], best(f[n - 1]))]
    BY <1>8, Zenon
  <2>2. 0 \in G
    BY <1>5, <2>1
  <2>3. ASSUME NEW n \in 1..M, n - 1 \in G PROVE n \in G
    <3>1. f[n - 1] = g[n - 1]
      BY <2>3
    <3>2. f[n] = Append(f[n - 1], best(f[n - 1]))
      BY <1>1, <2>1
    <3> QED
      BY <1>1, <1>6, <3>1, <3>2
  <2> HIDE DEF G
  <2>4. \A n \in 0..M : n \in G
    BY <2>2, <2>3, Upward
  <2> USE DEF G
  <2> QED
    BY <2>4
<1>11. PICK order \in Seq(1..Len(pool)) : order = f[M] /\ Chosen(order, pool, M)
  <2>1. M \in 0..M
    OBVIOUS
  <2> QED
    BY <1>5, <1>10, <2>1
<1>12. PICK list : list = Mmr(pool, k)
  OBVIOUS
<1>13. list = [n \in 1..M |-> pool[order[n]]]
  <2>1. DOMAIN order = 1..M
    BY <1>11 DEF Chosen
  <2> QED
    BY <1>9, <1>11, <1>12, <2>1, Zenon
<1>14. \A n \in 1..M : list[n] = pool[order[n]] /\ pool[order[n]] \in PooledRecords
  BY <1>11, <1>13 DEF Chosen
<1>15. list \in Seq(PooledRecords) /\ Len(list) = M
  <2>1. list \in [1..M -> PooledRecords]
    BY <1>13, <1>14, Zenon
  <2> QED
    BY <2>1, IntervalsAreLists, Zenon
<1> QED
  BY <1>11, <1>12, <1>14, <1>15, Zenon DEF Selection

\* Without usable vectors the pool is cut where it is long enough.
LEMMA CutSelects ==
  ASSUME NEW pool \in Seq(PooledRecords), NEW M \in Nat, M <= Len(pool)
  PROVE  Selection(SubSeq(pool, 1, M), pool, M)
<1>1. PICK list : list = SubSeq(pool, 1, M)
  OBVIOUS
<1>2. list \in Seq(PooledRecords) /\ Len(list) = M /\ \A p \in 1..M : list[p] = pool[p]
  BY <1>1
<1> DEFINE order == [p \in 1..M |-> p]
<1>3. \A p \in 1..M : order[p] = p
  OBVIOUS
<1>4. Len(order) = M
  OBVIOUS
<1> HIDE DEF order
<1>5. Chosen(order, pool, M)
  BY <1>3, <1>4 DEF Chosen
<1>6. \A p \in 1..M : list[p] = pool[order[p]]
  BY <1>2, <1>3
<1> QED
  BY <1>1, <1>2, <1>5, <1>6, Zenon DEF Selection

---------------------------------------------------------------------------
(* Retrieval: the second read *)

\* A pool is what the second read left of a list: all but what is gone.
Confirmed(pool, list, gone) ==
    /\ pool \in Seq(PooledRecords) /\ EachOnce(pool) /\ Descends(pool)
    /\ \A i \in 1..Len(pool) : \E c : /\ Occurs(list, c) /\ c.id = pool[i].id
                                      /\ c.score = pool[i].score /\ c.id \notin gone
    /\ \A c : Occurs(list, c) /\ c.id \notin gone =>
          \E i \in 1..Len(pool) : pool[i].id = c.id /\ pool[i].score = c.score

\* The identifiers of a list.
LEMMA IdsOccur ==
  ASSUME NEW S, NEW list \in Seq(S)
  PROVE  \A x : x \in Ids(list) <=> \E c : Occurs(list, c) /\ x = c.id
<1>1. \A x : x \in Ids(list) <=> \E i \in 1..Len(list) : x = list[i].id
  BY DEF Ids
<1> QED
  BY <1>1, Zenon DEF Occurs

\* The pool is what was found as it was, with or without a vector.
LEMMA PoolConfirmed ==
  ASSUME RankedList(adaptivePool), NEW outcome \in [Ids(adaptivePool) -> Outcomes],
         NEW class \in [Ids(adaptivePool) -> Classes],
         \A c \in Range(adaptivePool) : outcome[c.id] # "other_user"
  PROVE  Confirmed(HydratedPool(outcome, class), adaptivePool,
                   {id \in Ids(adaptivePool) : outcome[id] = "quarantined"})
<1> DEFINE places == {i \in DOMAIN adaptivePool : outcome[adaptivePool[i].id] \in {"same", "no_vector"}}
           gone == {id \in Ids(adaptivePool) : outcome[id] = "quarantined"}
<1>1. PICK list : list = adaptivePool
  OBVIOUS
<1>2. RankedList(list) /\ list \in Seq(ScoredRecords)
  BY <1>1 DEF RankedList
<1>3. PICK kept : kept = AtPlaces(list, places)
  OBVIOUS
<1>4. RankedList(kept) /\ \A x : Occurs(kept, x) <=> \E i \in 1..Len(list) : i \in places /\ list[i] = x
  <2> HIDE DEF places
  <2> QED
    BY <1>2, <1>3, PlacesRanked
<1>5. \A x : x \in Ids(list) <=> \E c : Occurs(list, c) /\ x = c.id
  BY <1>2, IdsOccur
<1>6. \A c : Occurs(list, c) => outcome[c.id] \in Outcomes /\ outcome[c.id] # "other_user"
  <2>1. \A c : c \in Range(list) <=> Occurs(list, c)
    BY <1>2, RangeOccurs
  <2>2. \A c : Occurs(list, c) => c.id \in Ids(list)
    BY <1>5, Zenon
  <2> QED
    BY <1>1, <2>1, <2>2
<1>7. \A x : Occurs(kept, x) <=> Occurs(list, x) /\ x.id \notin gone
  <2>1. \A i \in 1..Len(list) : i \in places <=> outcome[list[i].id] \in {"same", "no_vector"}
    BY <1>1, <1>2
  <2>2. \A x : Occurs(list, x) => (x.id \in gone <=> outcome[x.id] = "quarantined")
    BY <1>1, <1>5
  <2>3. \A x : Occurs(list, x) => (x.id \notin gone <=> outcome[x.id] \in {"same", "no_vector"})
    BY <1>6, <2>2 DEF Outcomes
  <2> HIDE DEF places, gone
  <2> QED
    BY <1>4, <2>1, <2>3, Zenon DEF Occurs
<1>8. \A n \in 1..Len(kept) : kept[n] \in ScoredRecords /\ class[kept[n].id] \in Classes
  <2>1. kept \in Seq(ScoredRecords)
    BY <1>4 DEF RankedList
  <2>2. \A n \in 1..Len(kept) : Occurs(kept, kept[n])
    BY Zenon DEF Occurs
  <2>3. \A n \in 1..Len(kept) : kept[n].id \in Ids(list)
    <3> HIDE DEF gone
    <3> QED
      BY <1>5, <1>7, <2>2, Zenon
  <2> QED
    BY <1>1, <2>1, <2>3
<1>9. PICK pool : pool = HydratedPool(outcome, class)
  OBVIOUS
<1>10. pool = [i \in DOMAIN kept |->
                 [id |-> kept[i].id, canonical |-> kept[i].canonical, segment |-> kept[i].segment,
                  score |-> kept[i].score, class |-> class[kept[i].id]]]
  BY <1>1, <1>3, <1>9, Zenon DEF HydratedPool
<1>11. PICK N \in Nat : N = Len(kept) /\ DOMAIN kept = 1..N
  BY <1>4 DEF RankedList
<1>12. \A n \in 1..N : pool[n] = [id |-> kept[n].id, canonical |-> kept[n].canonical, segment |-> kept[n].segment,
                                   score |-> kept[n].score, class |-> class[kept[n].id]]
  BY <1>10, <1>11, Zenon
<1>13. \A n \in 1..N : pool[n] \in PooledRecords /\ pool[n].id = kept[n].id /\ pool[n].score = kept[n].score
  <2>1. SUFFICES ASSUME NEW n \in 1..N
                 PROVE  pool[n] \in PooledRecords /\ pool[n].id = kept[n].id /\ pool[n].score = kept[n].score
    OBVIOUS
  <2>2. PICK c \in ScoredRecords : c = kept[n]
    BY <1>8, <1>11
  <2>3. PICK d \in Classes : d = class[c.id]
    BY <1>8, <1>11, <2>2
  <2>4. pool[n] = [id |-> c.id, canonical |-> c.canonical, segment |-> c.segment, score |-> c.score, class |-> d]
    BY <1>12, <2>2, <2>3
  <2>5. c.id \in 1..4 /\ c.canonical \in Nat /\ c.segment \in Nat /\ c.score \in Scores
    BY DEF ScoredRecords
  <2>6. pool[n] \in PooledRecords
    <3>1. d \in Classes
      OBVIOUS
    <3> HIDE DEF places, gone
    <3> QED
      BY <2>4, <2>5, <3>1, SMTT(30) DEF PooledRecords
  <2> QED
    BY <2>2, <2>4, <2>6
<1>14. pool \in Seq(PooledRecords) /\ Len(pool) = N
  <2>1. pool \in [1..N -> PooledRecords]
    BY <1>10, <1>11, <1>13, Zenon
  <2> QED
    BY <2>1, IntervalsAreLists
<1>15. EachOnce(kept) /\ Descends(kept)
  BY <1>4 DEF RankedList
<1>16. EachOnce(pool)
  BY <1>11, <1>13, <1>14, <1>15, Zenon DEF EachOnce
<1>17. Descends(pool)
  BY <1>11, <1>13, <1>14, <1>15, Zenon DEF Descends
<1>18. \A i \in 1..N : \E c : /\ Occurs(list, c) /\ c.id = pool[i].id
                              /\ c.score = pool[i].score /\ c.id \notin gone
  <2> HIDE DEF gone
  <2>1. SUFFICES ASSUME NEW i \in 1..N
                 PROVE  \E c : /\ Occurs(list, c) /\ c.id = pool[i].id
                               /\ c.score = pool[i].score /\ c.id \notin gone
    OBVIOUS
  <2>2. Occurs(kept, kept[i])
    BY <1>11, Zenon DEF Occurs
  <2> QED
    BY <1>7, <1>13, <2>2, Zenon
<1>19. \A c : Occurs(list, c) /\ c.id \notin gone => \E i \in 1..N : pool[i].id = c.id /\ pool[i].score = c.score
  <2> HIDE DEF gone
  <2>1. SUFFICES ASSUME NEW c, Occurs(kept, c) PROVE \E i \in 1..N : pool[i].id = c.id /\ pool[i].score = c.score
    BY <1>7, Zenon
  <2>2. PICK i \in 1..N : kept[i] = c
    BY <1>11, <2>1, Zenon DEF Occurs
  <2> QED
    BY <1>13, <2>2, Zenon
<1> HIDE DEF gone
<1>20. Confirmed(pool, list, gone)
  BY <1>14, <1>16, <1>17, <1>18, <1>19, Zenon DEF Confirmed
<1> QED
  BY <1>1, <1>9, <1>20, Zenon DEF gone

---------------------------------------------------------------------------
(* Retrieval: the invariant *)

\* The rankings of a call, each made of the one before.
RankInv ==
    /\ RankedList(reranked) /\ RankedList(eligible)
    /\ \A x : Occurs(eligible, x) => Occurs(reranked, x)
    /\ \A c, d : Occurs(reranked, c) /\ ~Occurs(eligible, c) /\ Occurs(eligible, d) => c.score <= d.score
    /\ CutOff(adaptivePool, eligible)

\* The context is what is left of the pool, chosen and cut.
ContextInv ==
    /\ Confirmed(hydrated.pool, adaptivePool, hydrated.gone)
    /\ Selection(hydrated.selected, hydrated.pool, Min({RetFinalCount, Len(hydrated.pool)}))
    /\ Conversations => context = hydrated.selected
    /\ ~Conversations => \E kept : /\ context = SubSeq(hydrated.selected, 1, kept)
                                   /\ LongestFitting(kept, hydrated.selected, Len(hydrated.selected))

\* At each stage of a call, what the stages before have established.
RetInv ==
    /\ retrieval = "reranking" => candidates \in Seq(RowRecords) /\ EachOnce(candidates) /\ QuarantineExact
    /\ retrieval \in {"hydrating", "done"} => RankInv
    /\ retrieval = "hydrating" => OneBestSegment
    /\ retrieval = "done" => ContextInv

\* The pool is a beginning of a ranked list.
LEMMA CutRanked ==
  ASSUME NEW list, RankedList(list), NEW pool, CutOff(pool, list)
  PROVE  /\ RankedList(pool) /\ \A x : Occurs(pool, x) => Occurs(list, x)
         /\ \A c, d : Occurs(list, c) /\ ~Occurs(pool, c) /\ Occurs(pool, d) => c.score < d.score
         /\ Len(list) > 0 => Len(pool) > 0
         /\ \A i, j \in 1..Len(list) :
               list[i].score = list[j].score => (i \in 1..Len(pool) <=> j \in 1..Len(pool))
<1>1. PICK k \in 0..Len(list) : /\ pool = SubSeq(list, 1, k)
                                /\ Len(list) > 0 => k > 0
                                /\ k > 0 /\ k < Len(list) => list[k].score > list[k + 1].score
  BY Zenon DEF CutOff
<1>2. list \in Seq(ScoredRecords) /\ EachOnce(list) /\ Descends(list)
  BY DEF RankedList
<1>3. pool \in Seq(ScoredRecords) /\ Len(pool) = k /\ \A i \in 1..k : pool[i] = list[i] /\ i \in 1..Len(list)
  BY <1>1, <1>2
<1>4. \A i \in 1..Len(list) : list[i].score \in Int
  <2>1. \A i \in 1..Len(list) : list[i] \in ScoredRecords
    BY <1>2
  <2> QED
    BY <2>1, ScoresKnown
<1>5. RankedList(pool)
  <2>1. EachOnce(pool)
    BY <1>2, <1>3, Zenon DEF EachOnce
  <2>2. Descends(pool)
    BY <1>2, <1>3, Zenon DEF Descends
  <2> QED
    BY <1>3, <2>1, <2>2, Zenon DEF RankedList
<1>6. \A i \in 1..k : \A j \in 1..Len(list) : j \notin 1..k => list[j].score < list[i].score
  <2>1. SUFFICES ASSUME NEW i \in 1..k, NEW j \in 1..Len(list), j \notin 1..k
                 PROVE  list[j].score < list[i].score
    OBVIOUS
  <2>2. k \in 1..Len(list) /\ k + 1 \in 1..Len(list) /\ k > 0 /\ k < Len(list) /\ i \in 1..Len(list)
        /\ (i = k \/ i < k) /\ (j = k + 1 \/ k + 1 < j)
    BY <1>2, <2>1
  <2>3. list[i].score >= list[k].score
    BY <1>2, <1>4, <2>2 DEF Descends
  <2>4. list[k + 1].score >= list[j].score
    BY <1>2, <1>4, <2>2 DEF Descends
  <2>5. list[k].score > list[k + 1].score
    BY <1>1, <2>2
  <2>6. list[i].score \in Int /\ list[j].score \in Int /\ list[k].score \in Int /\ list[k + 1].score \in Int
    BY <1>4, <2>2
  <2> QED
    BY <2>3, <2>4, <2>5, <2>6
<1>7. \A c, d : Occurs(list, c) /\ ~Occurs(pool, c) /\ Occurs(pool, d) => c.score < d.score
  <2>1. SUFFICES ASSUME NEW j \in 1..Len(list), ~Occurs(pool, list[j]), NEW i \in 1..k
                 PROVE  list[j].score < pool[i].score
    BY <1>3, Zenon DEF Occurs
  <2>2. j \notin 1..k
    BY <1>3, <2>1, Zenon DEF Occurs
  <2> QED
    BY <1>3, <1>6, <2>1, <2>2, Zenon
<1>8. \A x : Occurs(pool, x) => Occurs(list, x)
  BY <1>3, Zenon DEF Occurs
<1>9. \A i, j \in 1..Len(list) : list[i].score = list[j].score => (i \in 1..k <=> j \in 1..k)
  <2>1. SUFFICES ASSUME NEW i \in 1..Len(list), NEW j \in 1..Len(list), list[i].score = list[j].score
                 PROVE  i \in 1..k => j \in 1..k
    BY Zenon
  <2>2. SUFFICES ASSUME i \in 1..k, j \notin 1..k PROVE FALSE
    OBVIOUS
  <2>3. list[j].score < list[i].score
    BY <1>6, <2>1, <2>2, Zenon
  <2> QED
    BY <1>4, <2>1, <2>3
<1> QED
  BY <1>1, <1>3, <1>5, <1>7, <1>8, <1>9

\* A list with an identifier in each place has as many as it is long.
LEMMA IdsCounted ==
  ASSUME NEW S, NEW list \in Seq(S), EachOnce(list)
  PROVE  Cardinality(Ids(list)) = Len(list)
<1> DEFINE f == [p \in 1..Len(list) |-> list[p].id]
<1>1. PICK n \in Nat : n = Len(list) /\ DOMAIN list = 1..n
  OBVIOUS
<1>2. \A p \in 1..n : f[p] = list[p].id
  BY <1>1
<1>3. \A p, q \in 1..n : f[p] = f[q] => p = q
  BY <1>1, <1>2 DEF EachOnce
<1> HIDE DEF f
<1>4. \A x : x \in Ids(list) <=> \E p \in 1..n : x = f[p]
  BY <1>1, <1>2, Zenon DEF Ids
<1>5. Cardinality(Ids(list)) = n
  BY <1>3, <1>4, DistinctCount
<1> QED
  BY <1>1, <1>5

\* What an invariant of the stages says of the cut.
LEMMA CutTold == RankInv => CutsBetweenScores
<1> SUFFICES ASSUME RankInv PROVE CutsBetweenScores
  OBVIOUS
<1>1. RankedList(eligible) /\ CutOff(adaptivePool, eligible)
  BY DEF RankInv
<1>2. RankedList(adaptivePool)
  BY <1>1, CutRanked
<1>3. Len(eligible) > 0 => Len(adaptivePool) > 0
  BY <1>1, CutRanked
<1>4. \A i, j \in 1..Len(eligible) :
         eligible[i].score = eligible[j].score => (i \in 1..Len(adaptivePool) <=> j \in 1..Len(adaptivePool))
  BY <1>1, CutRanked
<1>5. /\ DOMAIN eligible = 1..Len(eligible) /\ DOMAIN adaptivePool = 1..Len(adaptivePool)
      /\ (eligible # <<>> => Len(eligible) > 0) /\ (Len(adaptivePool) > 0 => adaptivePool # <<>>)
  BY <1>1, <1>2 DEF RankedList
<1> QED
  BY <1>3, <1>4, <1>5, Zenon DEF CutsBetweenScores

\* What is chosen from a pool is part of it, each once and the best first, and when
\* something is left out, as much as may be.
LEMMA SelectionTold ==
  ASSUME NEW pool \in Seq(PooledRecords), EachOnce(pool), NEW k \in Nat, NEW list,
         Selection(list, pool, Min({k, Len(pool)}))
  PROVE  /\ list \in Seq(PooledRecords) /\ EachOnce(list) /\ Len(list) <= k
         /\ \A x : Occurs(list, x) => Occurs(pool, x)
         /\ Len(list) > 0 => Len(pool) > 0 /\ list[1] = pool[1]
         /\ \A x : Occurs(pool, x) /\ ~Occurs(list, x) => Len(list) = k
<1>1. PICK L \in Nat : L = Len(pool)
  OBVIOUS
<1>2. PICK M \in Nat : M = Min({k, Len(pool)}) /\ M = IF k <= L THEN k ELSE L
  BY <1>1, Lesser
<1>3. list \in Seq(PooledRecords) /\ Len(list) = M
  BY <1>2 DEF Selection
<1>4. PICK order : Chosen(order, pool, M) /\ \A p \in 1..M : list[p] = pool[order[p]]
  BY <1>2 DEF Selection
<1>5. \A p \in 1..M : order[p] \in 1..L
  BY <1>1, <1>4, Zenon DEF Chosen
<1>6. \A p, q \in 1..M : order[p] = order[q] => p = q
  BY <1>4, Zenon DEF Chosen
<1>7. M > 0 => order[1] = 1
  BY <1>4, Zenon DEF Chosen
<1>8. \A p \in 1..M : list[p] = pool[order[p]]
  BY <1>4
<1>9. EachOnce(list)
  <2>1. SUFFICES ASSUME NEW p \in 1..M, NEW q \in 1..M, list[p].id = list[q].id PROVE p = q
    BY <1>3, Zenon DEF EachOnce
  <2>2. order[p] \in 1..Len(pool) /\ order[q] \in 1..Len(pool)
    BY <1>1, <1>5, Zenon
  <2>3. pool[order[p]].id = pool[order[q]].id
    BY <1>8, <2>1, Zenon
  <2>4. order[p] = order[q]
    BY <2>2, <2>3, Zenon DEF EachOnce
  <2> QED
    BY <1>6, <2>4, Zenon
<1>10. \A x : Occurs(list, x) => Occurs(pool, x)
  <2>1. SUFFICES ASSUME NEW p \in 1..M PROVE Occurs(pool, list[p])
    BY <1>3, Zenon DEF Occurs
  <2>2. order[p] \in 1..Len(pool) /\ list[p] = pool[order[p]]
    BY <1>1, <1>5, <1>8, Zenon
  <2> QED
    BY <2>2, Zenon DEF Occurs
<1>11. M > 0 => L > 0 /\ list[1] = pool[1]
  <2>1. SUFFICES ASSUME M > 0 PROVE L > 0 /\ list[1] = pool[1]
    OBVIOUS
  <2>2. 1 \in 1..M /\ L > 0
    BY <1>2, <2>1
  <2>3. list[1] = pool[order[1]]
    BY <1>8, <2>2, Zenon
  <2> QED
    BY <1>7, <2>1, <2>2, <2>3, Zenon
<1>12. \A x : Occurs(pool, x) /\ ~Occurs(list, x) => M = k
  <2>1. SUFFICES ASSUME NEW x, Occurs(pool, x), ~Occurs(list, x), M # k PROVE FALSE
    OBVIOUS
  <2>2. M = L
    BY <1>2, <2>1
  <2>3. PICK i \in 1..L : pool[i] = x
    BY <1>1, <2>1, Zenon DEF Occurs
  <2>4. \A p \in 1..L : order[p] \in 1..L
    BY <1>5, <2>2, Zenon
  <2>5. \A p, q \in 1..L : order[p] = order[q] => p = q
    BY <1>6, <2>2, Zenon
  <2>6. PICK p \in 1..L : order[p] = i
    <3>1. \A j \in 1..L : \E p \in 1..L : order[p] = j
      <4>1. Places(order, L)
        BY <2>4, <2>5, Zenon DEF Places
      <4> QED
        BY <4>1, PlacesFilled, SMTT(40)
    <3> QED
      BY <3>1, Zenon
  <2>7. list[p] = x /\ p \in 1..M
    BY <1>8, <2>2, <2>3, <2>6, Zenon
  <2> QED
    BY <1>3, <2>1, <2>7, Zenon DEF Occurs
<1>13. M <= k
  BY <1>2
<1> QED
  BY <1>1, <1>3, <1>9, <1>10, <1>11, <1>12, <1>13, Zenon

\* What is left of a selection within the budget.
LEMMA ContextCut ==
  ASSUME ContextInv
  PROVE  /\ hydrated.selected \in Seq(PooledRecords) /\ EachOnce(hydrated.selected)
         /\ \E kept \in 0..Len(hydrated.selected) :
               /\ context = SubSeq(hydrated.selected, 1, kept)
               /\ Conversations => kept = Len(hydrated.selected)
               /\ ~Conversations => LongestFitting(kept, hydrated.selected, Len(hydrated.selected))
<1>1. PICK list : list = hydrated.selected
  OBVIOUS
<1>2. list \in Seq(PooledRecords) /\ EachOnce(list)
  <2>1. hydrated.pool \in Seq(PooledRecords) /\ EachOnce(hydrated.pool)
    BY DEF ContextInv, Confirmed
  <2>2. RetFinalCount \in Nat
    BY RetrievalBounds
  <2>3. Selection(list, hydrated.pool, Min({RetFinalCount, Len(hydrated.pool)}))
    BY <1>1, Zenon DEF ContextInv
  <2> QED
    BY <2>1, <2>2, <2>3, SelectionTold
<1>3. CASE Conversations
  <2>1. context = SubSeq(list, 1, Len(list)) /\ Len(list) \in 0..Len(list)
    <3>1. context = list
      BY <1>1, <1>3, Zenon DEF ContextInv
    <3> QED
      BY <1>2, <3>1
  <2> QED
    BY <1>1, <1>2, <1>3, <2>1, Zenon
<1>4. CASE ~Conversations
  <2>1. PICK kept : context = SubSeq(list, 1, kept) /\ LongestFitting(kept, list, Len(list))
    BY <1>1, <1>4, Zenon DEF ContextInv
  <2>2. kept \in 0..Len(list)
    BY <2>1, Zenon DEF LongestFitting
  <2> QED
    BY <1>1, <1>2, <1>4, <2>1, <2>2, Zenon
<1> QED
  BY <1>3, <1>4

\* The context is a beginning of the selection, and its members come from the pool, which
\* comes from the list that was cut.
LEMMA ContextFrom ==
  ASSUME RankInv, ContextInv
  PROVE  /\ context \in Seq(PooledRecords) /\ EachOnce(context)
         /\ hydrated.selected \in Seq(PooledRecords) /\ hydrated.pool \in Seq(PooledRecords)
         /\ adaptivePool \in Seq(ScoredRecords) /\ eligible \in Seq(ScoredRecords) /\ reranked \in Seq(ScoredRecords)
         /\ Ids(context) \subseteq Ids(hydrated.selected)
         /\ Ids(hydrated.selected) \subseteq Ids(hydrated.pool)
         /\ Ids(hydrated.pool) \subseteq Ids(adaptivePool) \ hydrated.gone
         /\ Ids(adaptivePool) \subseteq Ids(eligible) /\ Ids(eligible) \subseteq Ids(reranked)
         /\ Len(context) <= RetFinalCount
         /\ context # <<>> => Len(hydrated.pool) > 0 /\ Head(context) = hydrated.pool[1]
<1>1. PICK pool : pool = hydrated.pool
  OBVIOUS
<1>2. PICK selected : selected = hydrated.selected
  OBVIOUS
<1>3. PICK gone : gone = hydrated.gone
  OBVIOUS
<1>4. Confirmed(pool, adaptivePool, gone) /\ pool \in Seq(PooledRecords) /\ EachOnce(pool)
  BY <1>1, <1>3, Zenon DEF ContextInv, Confirmed
<1>5. RetFinalCount \in Nat
  BY RetrievalBounds
<1>6. Selection(selected, pool, Min({RetFinalCount, Len(pool)}))
  BY <1>1, <1>2, Zenon DEF ContextInv
<1>7. /\ selected \in Seq(PooledRecords) /\ EachOnce(selected) /\ Len(selected) <= RetFinalCount
      /\ \A x : Occurs(selected, x) => Occurs(pool, x)
      /\ Len(selected) > 0 => Len(pool) > 0 /\ selected[1] = pool[1]
  BY <1>4, <1>5, <1>6, SelectionTold
<1>8. PICK kept \in 0..Len(selected) : context = SubSeq(selected, 1, kept)
  BY <1>2, ContextCut
<1>9. /\ context \in Seq(PooledRecords) /\ Len(context) = kept
      /\ \A p \in 1..kept : context[p] = selected[p] /\ p \in 1..Len(selected)
  BY <1>7, <1>8
<1>10. EachOnce(context)
  BY <1>7, <1>9, Zenon DEF EachOnce
<1>11. RankedList(adaptivePool) /\ RankedList(eligible) /\ RankedList(reranked)
  BY CutRanked DEF RankInv
<1>12. adaptivePool \in Seq(ScoredRecords) /\ eligible \in Seq(ScoredRecords) /\ reranked \in Seq(ScoredRecords)
  BY <1>11 DEF RankedList
<1>13. /\ \A x : x \in Ids(context) <=> \E c : Occurs(context, c) /\ x = c.id
       /\ \A x : x \in Ids(selected) <=> \E c : Occurs(selected, c) /\ x = c.id
       /\ \A x : x \in Ids(pool) <=> \E c : Occurs(pool, c) /\ x = c.id
       /\ \A x : x \in Ids(adaptivePool) <=> \E c : Occurs(adaptivePool, c) /\ x = c.id
       /\ \A x : x \in Ids(eligible) <=> \E c : Occurs(eligible, c) /\ x = c.id
       /\ \A x : x \in Ids(reranked) <=> \E c : Occurs(reranked, c) /\ x = c.id
  BY <1>4, <1>7, <1>9, <1>12, IdsOccur
<1>14. Ids(context) \subseteq Ids(selected)
  <2>1. \A c : Occurs(context, c) => Occurs(selected, c)
    BY <1>9, Zenon DEF Occurs
  <2> QED
    BY <1>13, <2>1
<1>15. Ids(selected) \subseteq Ids(pool)
  BY <1>7, <1>13
<1>16. Ids(pool) \subseteq Ids(adaptivePool) \ gone
  <2>1. \A i \in 1..Len(pool) : \E c : Occurs(adaptivePool, c) /\ c.id = pool[i].id /\ c.id \notin gone
    BY <1>4, Zenon DEF Confirmed
  <2>2. \A c : Occurs(pool, c) => \E d : Occurs(adaptivePool, d) /\ d.id = c.id /\ d.id \notin gone
    BY <2>1, Zenon DEF Occurs
  <2> QED
    BY <1>13, <2>2
<1>17. Ids(adaptivePool) \subseteq Ids(eligible) /\ Ids(eligible) \subseteq Ids(reranked)
  <2>1. \A c : Occurs(adaptivePool, c) => Occurs(eligible, c)
    BY CutRanked DEF RankInv
  <2>2. \A c : Occurs(eligible, c) => Occurs(reranked, c)
    BY DEF RankInv
  <2> QED
    BY <1>13, <2>1, <2>2
<1>18. Len(context) <= RetFinalCount
  BY <1>5, <1>7, <1>9
<1>19. context # <<>> => Len(pool) > 0 /\ Head(context) = pool[1]
  <2>1. SUFFICES ASSUME context # <<>> PROVE Len(pool) > 0 /\ Head(context) = pool[1]
    OBVIOUS
  <2>2. Len(context) > 0 /\ Head(context) = context[1] /\ 1 \in 1..kept /\ Len(selected) > 0
    BY <1>7, <1>9, <2>1
  <2> QED
    BY <1>7, <1>9, <2>2
<1> QED
  BY <1>1, <1>2, <1>3, <1>4, <1>7, <1>9, <1>10, <1>12, <1>14, <1>15, <1>16, <1>17, <1>18, <1>19, Zenon

\* The context holds what is still there, each once and the best first.
LEMMA ContextTold == RankInv /\ ContextInv => ContextConfirmed
<1> SUFFICES ASSUME RankInv, ContextInv PROVE ContextConfirmed
  OBVIOUS
<1>1. Ids(context) \subseteq Ids(adaptivePool) \ hydrated.gone
  BY ContextFrom
<1>2. Cardinality(Ids(context)) = Len(context) /\ Len(context) <= RetFinalCount
  BY ContextFrom, IdsCounted
<1>3. ASSUME context # <<>>, NEW c \in Range(adaptivePool), c.id \notin hydrated.gone
      PROVE  c.score <= Head(context).score
  <2>1. PICK pool : pool = hydrated.pool
    OBVIOUS
  <2>2. Confirmed(pool, adaptivePool, hydrated.gone)
    BY <2>1, Zenon DEF ContextInv
  <2>3. Occurs(adaptivePool, c)
    BY ContextFrom, RangeOccurs
  <2>4. PICK i \in 1..Len(pool) : pool[i].id = c.id /\ pool[i].score = c.score
    BY <1>3, <2>2, <2>3, Zenon DEF Confirmed
  <2>5. pool \in Seq(PooledRecords) /\ Descends(pool)
    BY <2>2, Zenon DEF Confirmed
  <2>6. Head(context) = pool[1] /\ 1 \in 1..Len(pool)
    BY <1>3, <2>1, <2>5, ContextFrom
  <2>7. pool[i].score <= pool[1].score
    <3>1. pool[i].score \in Int /\ pool[1].score \in Int
      BY <2>5, <2>6, PooledScores
    <3>2. i = 1 \/ 1 < i
      BY <2>4
    <3>3. 1 < i => pool[1].score >= pool[i].score
      BY <2>5, <2>6, Zenon DEF Descends
    <3> QED
      BY <3>1, <3>2, <3>3
  <2> QED
    BY <2>4, <2>6, <2>7
<1> QED
  BY <1>1, <1>2, <1>3, Zenon DEF ContextConfirmed

\* The context fits, and not one more would.
LEMMA BudgetTold == ContextInv => BudgetTight
<1> SUFFICES ASSUME ContextInv, ~Conversations
             PROVE  /\ context # <<>> => ContextTokens(context) <= RetTokenBudget
                    /\ Len(context) < Len(hydrated.selected) =>
                          ContextTokens(SubSeq(hydrated.selected, 1, Len(context) + 1)) > RetTokenBudget
  BY Zenon DEF BudgetTight
<1>1. PICK selected \in Seq(PooledRecords) : selected = hydrated.selected
  BY ContextCut
<1>2. PICK kept \in 0..Len(selected) :
        context = SubSeq(selected, 1, kept) /\ LongestFitting(kept, selected, Len(selected))
  BY <1>1, ContextCut
<1>3. Len(context) = kept /\ kept \in Nat /\ (context # <<>> => kept > 0)
  BY <1>2
<1>4. context # <<>> => ContextTokens(context) <= RetTokenBudget
  BY <1>2, <1>3, Zenon DEF LongestFitting
<1>5. ASSUME kept < Len(selected) PROVE ContextTokens(SubSeq(selected, 1, kept + 1)) > RetTokenBudget
  <2>1. PICK longer : longer = SubSeq(selected, 1, kept + 1)
    OBVIOUS
  <2>2. /\ longer \in Seq(PooledRecords) /\ Len(longer) = kept + 1 /\ Len(longer) \in Nat
        /\ kept + 1 \in (kept + 1)..Len(selected)
    BY <1>2, <1>5, <2>1
  <2>3. Identifiable(longer)
    <3>1. \A n \in 1..Len(longer) : longer[n] \in PooledRecords
      BY <2>2
    <3> QED
      BY <3>1 DEF Identifiable, PooledRecords
  <2>4. ContextTokens(longer) \in Nat
    <3>1. longer # <<>> => Len(longer) > 0
      BY <2>2
    <3> QED
      BY <2>2, <2>3, <3>1, TokensCounted
  <2>5. ~(ContextTokens(longer) <= RetTokenBudget)
    BY <1>2, <2>1, <2>2, Zenon DEF LongestFitting
  <2>6. RetTokenBudget \in Nat
    BY RetrievalBounds
  <2>7. PICK t \in Nat : t = ContextTokens(longer)
    BY <2>4
  <2>8. t > RetTokenBudget
    <3>1. ~(t <= RetTokenBudget)
      BY <2>5, <2>7
    <3> QED
      BY <2>6, <3>1
  <2> QED
    BY <2>1, <2>7, <2>8
<1> QED
  BY <1>1, <1>3, <1>4, <1>5

\* What a reason says of where an identifier was lost.
LEMMA ReasonsRead ==
  ASSUME Ids(context) \subseteq Ids(hydrated.selected), Ids(hydrated.selected) \subseteq Ids(hydrated.pool),
         Ids(hydrated.pool) \subseteq Ids(adaptivePool), Ids(adaptivePool) \subseteq Ids(eligible), NEW c
  PROVE  /\ Reason(c) = "selected" <=> c.id \in Ids(context)
         /\ Reason(c) = "floor" => c.id \notin Ids(eligible)
         /\ Reason(c) = "adaptive_gap" => c.id \in Ids(eligible) /\ c.id \notin Ids(adaptivePool)
         /\ Reason(c) \in {"mmr_limit", "fallback_limit"} =>
               c.id \in Ids(hydrated.pool) /\ c.id \notin Ids(hydrated.selected)
         /\ Reason(c) = "budget" => c.id \in Ids(hydrated.selected) /\ c.id \notin Ids(context)
<1>1. CASE c.id \notin Ids(eligible)
  <2>1. Reason(c) = "floor"
    BY <1>1 DEF Reason
  <2> QED
    BY <1>1, <2>1
<1>2. CASE c.id \in Ids(eligible) \ Ids(adaptivePool)
  <2>1. Reason(c) = "adaptive_gap"
    BY <1>2 DEF Reason
  <2> QED
    BY <1>2, <2>1
<1>3. CASE c.id \in Ids(adaptivePool) \ Ids(hydrated.pool)
  <2>1. Reason(c) = "hydration"
    BY <1>3 DEF Reason
  <2> QED
    BY <1>3, <2>1
<1>4. CASE c.id \in Ids(hydrated.pool) \ Ids(hydrated.selected)
  <2>1. Reason(c) = IF hydrated.usable THEN "mmr_limit" ELSE "fallback_limit"
    BY <1>4 DEF Reason
  <2> QED
    BY <1>4, <2>1
<1>5. CASE c.id \in Ids(hydrated.selected) \ Ids(context)
  <2>1. Reason(c) = "budget"
    BY <1>5 DEF Reason
  <2> QED
    BY <1>5, <2>1
<1>6. CASE c.id \in Ids(context)
  <2>1. Reason(c) = "selected"
    BY <1>6 DEF Reason
  <2> QED
    BY <1>6, <2>1
<1> QED
  BY <1>1, <1>2, <1>3, <1>4, <1>5, <1>6

\* The reasons that are recorded are those of the ranking and of the selection.
LEMMA ReasonsTold == RankInv /\ ContextInv => ReasonsExplain
<1> SUFFICES ASSUME RankInv, ContextInv PROVE ReasonsExplain
  OBVIOUS
<1> DEFINE with(reason) == {c \in Range(reranked) : Reason(c) = reason}
<1>1. /\ Ids(context) \subseteq Ids(hydrated.selected) /\ Ids(hydrated.selected) \subseteq Ids(hydrated.pool)
      /\ Ids(hydrated.pool) \subseteq Ids(adaptivePool) /\ Ids(adaptivePool) \subseteq Ids(eligible)
      /\ Ids(eligible) \subseteq Ids(reranked)
  BY ContextFrom
<1>2. /\ adaptivePool \in Seq(ScoredRecords) /\ eligible \in Seq(ScoredRecords) /\ reranked \in Seq(ScoredRecords)
      /\ EachOnce(reranked)
  BY ContextFrom DEF RankInv, RankedList
<1>3. /\ \A x : x \in Ids(adaptivePool) <=> \E c : Occurs(adaptivePool, c) /\ x = c.id
      /\ \A x : x \in Ids(eligible) <=> \E c : Occurs(eligible, c) /\ x = c.id
      /\ \A x : x \in Ids(reranked) <=> \E c : Occurs(reranked, c) /\ x = c.id
  BY <1>2, IdsOccur
<1>4. /\ \A c : c \in Range(reranked) <=> Occurs(reranked, c)
      /\ \A c : c \in Range(eligible) <=> Occurs(eligible, c)
      /\ \A c : c \in Range(adaptivePool) <=> Occurs(adaptivePool, c)
  BY <1>2, RangeOccurs
<1>5. {c.id : c \in with("selected")} = Ids(context)
  <2>1. \A c : Reason(c) = "selected" <=> c.id \in Ids(context)
    BY <1>1, ReasonsRead
  <2>2. \A x \in Ids(context) : \E c \in Range(reranked) : x = c.id
    BY <1>1, <1>3, <1>4
  <2> QED
    BY <2>1, <2>2
<1>6. ASSUME NEW c \in Range(reranked), Reason(c) = "floor", NEW d \in Range(eligible)
      PROVE  c.score <= d.score /\ c # d
  <2>1. c.id \notin Ids(eligible)
    BY <1>1, <1>6, ReasonsRead
  <2>2. ~Occurs(eligible, c) /\ Occurs(eligible, d) /\ Occurs(reranked, c)
    BY <1>3, <1>4, <2>1, Zenon
  <2>3. \A x, y : Occurs(reranked, x) /\ ~Occurs(eligible, x) /\ Occurs(eligible, y) => x.score <= y.score
    BY DEF RankInv
  <2> QED
    BY <2>2, <2>3, Zenon
<1>7. ASSUME NEW c \in Range(reranked), Reason(c) = "adaptive_gap", NEW d \in Range(adaptivePool)
      PROVE  c.score < d.score
  <2>1. c.id \in Ids(eligible) /\ c.id \notin Ids(adaptivePool)
    BY <1>1, <1>7, ReasonsRead
  <2>2. ~Occurs(adaptivePool, c) /\ Occurs(adaptivePool, d) /\ Occurs(reranked, c)
    BY <1>3, <1>4, <2>1, Zenon
  <2>3. PICK e : Occurs(eligible, e) /\ c.id = e.id
    BY <1>3, <2>1, Zenon
  <2>4. Occurs(reranked, e)
    BY <2>3 DEF RankInv
  <2>5. c = e
    BY <1>2, <2>2, <2>3, <2>4, Zenon DEF Occurs, EachOnce
  <2>6. RankedList(eligible) /\ CutOff(adaptivePool, eligible)
    BY DEF RankInv
  <2>7. \A x, y : Occurs(eligible, x) /\ ~Occurs(adaptivePool, x) /\ Occurs(adaptivePool, y) => x.score < y.score
    BY <2>6, CutRanked
  <2> QED
    BY <2>2, <2>3, <2>5, <2>7, Zenon
<1>8. ASSUME NEW c \in Range(reranked), Reason(c) \in {"mmr_limit", "fallback_limit"}
      PROVE  Len(hydrated.selected) = RetFinalCount
  <2>1. c.id \in Ids(hydrated.pool) /\ c.id \notin Ids(hydrated.selected)
    BY <1>1, <1>8, ReasonsRead
  <2>2. PICK pool : pool = hydrated.pool
    OBVIOUS
  <2>3. PICK selected : selected = hydrated.selected
    OBVIOUS
  <2>4. pool \in Seq(PooledRecords) /\ EachOnce(pool)
    BY <2>2, Zenon DEF ContextInv, Confirmed
  <2>5. Selection(selected, pool, Min({RetFinalCount, Len(pool)}))
    BY <2>2, <2>3, Zenon DEF ContextInv
  <2>6. RetFinalCount \in Nat
    BY RetrievalBounds
  <2>7. selected \in Seq(PooledRecords) /\ \A x : Occurs(pool, x) /\ ~Occurs(selected, x) => Len(selected) = RetFinalCount
    BY <2>4, <2>5, <2>6, SelectionTold
  <2>8. /\ \A x : x \in Ids(pool) <=> \E r : Occurs(pool, r) /\ x = r.id
        /\ \A x : x \in Ids(selected) <=> \E r : Occurs(selected, r) /\ x = r.id
    BY <2>4, <2>7, IdsOccur
  <2>9. PICK r : Occurs(pool, r) /\ c.id = r.id
    BY <2>1, <2>2, <2>8, Zenon
  <2>10. ~Occurs(selected, r)
    BY <2>1, <2>3, <2>8, <2>9, Zenon
  <2> QED
    BY <2>3, <2>7, <2>9, <2>10, Zenon
<1>9. ASSUME NEW c \in Range(reranked), Reason(c) = "budget" PROVE ~Conversations
  <2>1. SUFFICES ASSUME Conversations PROVE context = hydrated.selected
    BY <1>1, <1>9, ReasonsRead
  <2> QED
    BY <2>1, Zenon DEF ContextInv
<1>10. with("mmr_limit") \cup with("fallback_limit") # {} => Len(hydrated.selected) = RetFinalCount
  BY <1>8
<1>11. with("budget") # {} => ~Conversations
  BY <1>9
<1>12. /\ \A c \in with("floor"), d \in Range(eligible) : c.score <= d.score /\ c # d
       /\ \A c \in with("adaptive_gap"), d \in Range(adaptivePool) : c.score < d.score
  BY <1>6, <1>7
<1> QED
  BY <1>5, <1>10, <1>11, <1>12, Zenon DEF ReasonsExplain

---------------------------------------------------------------------------
(* Retrieval: the steps *)

\* What a query answers is a list of rows.
LEMMA ResponsesAreRows == \A answer \in Responses : answer \in Seq(RowRecords)
<1>1. SoundRows \cup OddRows \subseteq RowRecords
  <2>1. \A id \in 1..4 : SegmentOwner[id] \in Nat /\ SegmentIndex[id] \in Nat
    BY DEF SegmentOwner, SegmentIndex
  <2>2. \A id \in 1..4 : \A fault \in RowFaults : Row(id, fault) \in RowRecords
    <3>1. SUFFICES ASSUME NEW id \in 1..4, NEW fault \in RowFaults PROVE Row(id, fault) \in RowRecords
      OBVIOUS
    <3>2. PICK canonical \in Nat : canonical = IF Conversations THEN SegmentOwner[id] ELSE id
      BY <2>1
    <3>3. PICK segment \in Nat : segment = IF Conversations THEN SegmentIndex[id] ELSE 0
      BY <2>1
    <3>4. Row(id, fault) = [id |-> id, fault |-> fault, canonical |-> canonical, segment |-> segment]
      BY <3>2, <3>3 DEF Row
    <3> QED
      BY <3>4 DEF RowRecords
  <2>3. {"none", "bad_id", "no_text", "no_user", "other_user"} \subseteq RowFaults
    BY DEF RowFaults, Recoverable, Dropped
  <2>4. 1 \in 1..4 /\ 2 \in 1..4 /\ 3 \in 1..4
    OBVIOUS
  <2>5. SoundRows \subseteq RowRecords
    BY <2>2, <2>3 DEF SoundRows
  <2>6. \A id \in 1..4 : [Row(id, "none") EXCEPT !.canonical = 11] \in RowRecords
    <3>1. SUFFICES ASSUME NEW id \in 1..4 PROVE [Row(id, "none") EXCEPT !.canonical = 11] \in RowRecords
      OBVIOUS
    <3>2. PICK row \in RowRecords : row = Row(id, "none")
      BY <2>2, <2>3
    <3>3. [row EXCEPT !.canonical = 11] \in RowRecords
      BY DEF RowRecords
    <3> QED
      BY <3>2, <3>3
  <2>7. \A x \in OddRows : x \in RowRecords
    <3>1. SUFFICES ASSUME NEW x \in OddRows PROVE x \in RowRecords
      OBVIOUS
    <3>2. \/ \E id \in {1, 3}, fault \in {"bad_id", "no_text", "no_user"} : x = Row(id, fault)
          \/ x = Row(2, "other_user")
          \/ \E id \in {1, 2, 4} : x = [Row(id, "none") EXCEPT !.canonical = 11]
      <4>1. \/ x \in {Row(id, fault) : id \in {1, 3}, fault \in {"bad_id", "no_text", "no_user"}}
            \/ x = Row(2, "other_user")
            \/ x \in {[Row(id, "none") EXCEPT !.canonical = 11] : id \in {1, 2, 4}}
        <5> HIDE DEF Row
        <5> QED
          BY <3>1 DEF OddRows
      <4>2. x \in {Row(id, fault) : id \in {1, 3}, fault \in {"bad_id", "no_text", "no_user"}} =>
               \E id \in {1, 3}, fault \in {"bad_id", "no_text", "no_user"} : x = Row(id, fault)
        OBVIOUS
      <4> QED
        BY <4>1, <4>2
    <3>3. CASE \E id \in {1, 3}, fault \in {"bad_id", "no_text", "no_user"} : x = Row(id, fault)
      BY <2>2, <2>3, <3>3
    <3>4. CASE x = Row(2, "other_user")
      BY <2>2, <2>3, <2>4, <3>4
    <3>5. CASE \E id \in {1, 2, 4} : x = [Row(id, "none") EXCEPT !.canonical = 11]
      BY <2>6, <3>5
    <3> QED
      BY <3>2, <3>3, <3>4, <3>5
  <2> QED
    BY <2>5, <2>7
<1>2. SUFFICES ASSUME NEW answer \in Responses PROVE answer \in Seq(RowRecords)
  OBVIOUS
<1>3. \E m \in Nat : answer \in [1..m -> RowRecords]
  <2>1. CASE answer \in [1..4 -> SoundRows]
    <3>1. answer \in [1..4 -> RowRecords]
      BY <1>1, <2>1
    <3> QED
      BY <3>1
  <2>2. CASE answer \in BoundedSeq(SoundRows \cup OddRows, RetMaxRows)
    <3>1. PICK m \in 0..RetMaxRows : answer \in [1..m -> SoundRows \cup OddRows]
      BY <2>2, Zenon DEF BoundedSeq, SeqOf
    <3>2. answer \in [1..m -> RowRecords]
      BY <1>1, <3>1
    <3>3. m \in Nat
      BY <3>1, RetrievalBounds
    <3> QED
      BY <3>2, <3>3
  <2> QED
    BY <1>2, <2>1, <2>2, Zenon DEF Responses
<1> QED
  BY <1>3, IntervalsAreLists

\* Which row is to be kept is what QuarantineExact says.
LEMMA KeptIsExact ==
  ASSUME rows \in Seq(RowRecords), candidates \in Seq(RowRecords),
         \A x : Occurs(candidates, x) <=> \E i \in 1..Len(rows) : Kept(rows, i) /\ x = rows[i]
  PROVE  QuarantineExact
<1>1. PICK N \in Nat : N = Len(rows) /\ DOMAIN rows = 1..N
  OBVIOUS
<1>2. \A i \in 1..N : TwiceIn(rows, N, i) <=> Usable(rows, i) /\ Doubled(i)
  BY <1>1, Zenon DEF TwiceIn, Doubled, Usable
<1>3. \A i \in 1..N : Tainted(i) <=> SpoiledIn(rows, N, i) \/ (Usable(rows, i) /\ ~Identified(rows[i]))
  BY <1>2, Zenon DEF Tainted, SpoiledIn, Usable
<1>4. \A i \in 1..N : Usable(rows, i) => rows[i].fault \notin Recoverable
  BY DEF Usable, Recoverable
<1>5. ASSUME NEW i \in 1..N
      PROVE  Kept(rows, i) <=> /\ rows[i].fault = "none" /\ ~Tainted(i)
                               /\ Conversations => \A k \in DOMAIN rows :
                                     rows[k].canonical = rows[i].canonical => ~Tainted(k)
  <2>1. Kept(rows, i) <=> /\ Usable(rows, i) /\ ~TwiceIn(rows, N, i) /\ Identified(rows[i])
                          /\ Conversations => \A k \in 1..N :
                                rows[k].canonical = rows[i].canonical =>
                                   ~SpoiledIn(rows, N, k) /\ (Usable(rows, k) => Identified(rows[k]))
    BY <1>1, Zenon DEF Kept
  <2>2. Usable(rows, i) /\ ~TwiceIn(rows, N, i) /\ Identified(rows[i]) <=> Usable(rows, i) /\ ~Tainted(i)
    BY <1>3, <1>4, <1>5, Zenon DEF SpoiledIn
  <2>3. (\A k \in 1..N : rows[k].canonical = rows[i].canonical =>
                                   ~SpoiledIn(rows, N, k) /\ (Usable(rows, k) => Identified(rows[k])))
          <=> \A k \in 1..N : rows[k].canonical = rows[i].canonical => ~Tainted(k)
    BY <1>3, Zenon
  <2>4. Usable(rows, i) <=> rows[i].fault = "none"
    BY Zenon DEF Usable
  <2> QED
    BY <1>1, <2>1, <2>2, <2>3, <2>4, Zenon
<1>6. \A x : x \in Range(candidates) <=> \E i \in 1..N : Kept(rows, i) /\ x = rows[i]
  BY <1>1, RangeOccurs
<1>7. \A x : x \in Range(candidates) <=>
        x \in {rows[i] : i \in {j \in DOMAIN rows :
                /\ rows[j].fault = "none" /\ ~Tainted(j)
                /\ Conversations => \A k \in DOMAIN rows :
                      rows[k].canonical = rows[j].canonical => ~Tainted(k)}}
  BY <1>1, <1>5, <1>6, Zenon
<1> HIDE DEF Range
<1> QED
  BY <1>7, Zenon DEF QuarantineExact

\* The search leaves exactly what may be used.
LEMMA SearchKeeps ==
  ASSUME NEW answer \in Responses, Search(answer)
  PROVE  RetInv'
<1>1. rows' = answer /\ collection' = collection /\ answer \in Seq(RowRecords)
  BY ResponsesAreRows DEF Search
<1>2. retrieval' \in {"failed", "reranking"}
  BY DEF Search
<1>3. ASSUME retrieval' = "reranking"
      PROVE  (candidates \in Seq(RowRecords) /\ EachOnce(candidates) /\ QuarantineExact)'
  <2>1. ~SearchFails' /\ candidates' = HybridCandidates(answer)
    BY <1>3 DEF Search
  <2>2. \A i \in 1..Len(answer) : answer[i].fault # "other_user"
    BY <1>1, <2>1 DEF SearchFails
  <2>3. PICK list : list = HybridCandidates(answer)
    OBVIOUS
  <2>4. /\ list \in Seq(RowRecords) /\ EachOnce(list)
        /\ \A x : Occurs(list, x) <=> \E i \in 1..Len(answer) : Kept(answer, i) /\ x = answer[i]
    BY <1>1, <2>2, <2>3, QuarantineKeeps
  <2>5. \A i : Kept(rows, i)' <=> Kept(answer, i)
    BY <1>1, Zenon DEF Kept, Identified, Conversations
  <2>6. (\A x : Occurs(candidates, x) <=> \E i \in 1..Len(rows) : Kept(rows, i) /\ x = rows[i])'
    BY <1>1, <2>1, <2>3, <2>4, <2>5, Zenon
  <2>7. (rows \in Seq(RowRecords))' /\ (candidates \in Seq(RowRecords))'
    BY <1>1, <2>1, <2>3, <2>4, Zenon
  <2>8. QuarantineExact'
    BY <2>6, <2>7, KeptIsExact, PTL
  <2>9. EachOnce(candidates)'
    BY <2>1, <2>3, <2>4, Zenon
  <2> QED
    BY <2>7, <2>8, <2>9
<1> QED
  BY <1>2, <1>3, Zenon DEF RetInv

\* Conversations that are represented once are as many as their representatives.
LEMMA ConversationsCounted ==
  ASSUME NEW list, RankedList(list),
         \A p, q \in 1..Len(list) : list[p].canonical = list[q].canonical => p = q
  PROVE  Cardinality({c.canonical : c \in Range(list)}) = Len(list)
<1> DEFINE f == [p \in 1..Len(list) |-> list[p].canonical]
<1>1. PICK n \in Nat : n = Len(list) /\ DOMAIN list = 1..n
  BY DEF RankedList
<1>2. \A p \in 1..n : f[p] = list[p].canonical
  BY <1>1
<1>3. \A p, q \in 1..n : f[p] = f[q] => p = q
  BY <1>1, <1>2
<1> HIDE DEF f
<1>4. PICK named : named = {c.canonical : c \in Range(list)}
  OBVIOUS
<1>5. \A c : c \in Range(list) <=> \E p \in 1..n : c = list[p]
  <2>1. \A c : c \in Range(list) <=> Occurs(list, c)
    BY RangeOccurs DEF RankedList
  <2> QED
    BY <1>1, <2>1, Zenon DEF Occurs
<1>6. \A x : x \in named <=> \E p \in 1..n : x = f[p]
  <2>1. \A x : x \in named <=> \E c \in Range(list) : x = c.canonical
    BY <1>4
  <2> QED
    BY <1>2, <1>5, <2>1
<1>7. Cardinality(named) = n
  BY <1>3, <1>6, DistinctCount
<1> QED
  BY <1>1, <1>4, <1>7

\* The reranking ranks the candidates, refuses the weak and cuts where the scores fall.
LEMMA RerankKeeps ==
  ASSUME RetInv, NEW score \in Over(candidates, Scores), Rerank(score)
  PROVE  RetInv'
<1>1. candidates \in Seq(RowRecords) /\ EachOnce(candidates)
  BY DEF RetInv, Rerank
<1>2. PICK scored : scored = {[id |-> c.id, canonical |-> c.canonical, segment |-> c.segment,
                               score |-> score[c.id]] : c \in Range(candidates)}
  OBVIOUS
<1>3. PICK list : list = Ranked(scored, "id")
  OBVIOUS
<1>4. RankedList(list)
  <2>1. score \in [Ids(candidates) -> Scores]
    BY DEF Over
  <2> QED
    BY <1>1, <1>2, <1>3, <2>1, CandidatesRanked
<1>5. candidates' = list /\ collection' = collection /\ retrieval' = "hydrating"
  <2> HIDE DEF Over
  <2> QED
    BY <1>2, <1>3, Zenon DEF Rerank
<1>6. PICK best : best = reranked'
  OBVIOUS
<1>7. best = IF Conversations THEN Collapse(list) ELSE list
  BY <1>5, <1>6, Zenon DEF Rerank
<1>8. RankedList(best)
  <2>1. RankedList(Collapse(list))
    BY <1>4, ConversationsRepresented
  <2> QED
    BY <1>4, <1>7, <2>1
<1>9. PICK passed : passed = Eligible(best) /\ passed = eligible'
  BY <1>6, Zenon DEF Rerank
<1>10. /\ RankedList(passed) /\ \A x : Occurs(passed, x) => Occurs(best, x)
       /\ \A c, d : Occurs(best, c) /\ ~Occurs(passed, c) /\ Occurs(passed, d) => c.score <= d.score
  BY <1>8, <1>9, FloorRefusesWeakest
<1>11. PICK pool : pool = SubSeq(passed, 1, AdaptiveK(passed)) /\ pool = adaptivePool'
  BY <1>9, Zenon DEF Rerank
<1>12. CutOff(pool, passed)
  BY <1>10, <1>11, CutWhereItFalls
<1>13. RankInv'
  <2>1. RankedList(reranked)' /\ RankedList(eligible)' /\ CutOff(adaptivePool, eligible)'
    BY <1>6, <1>8, <1>9, <1>10, <1>11, <1>12, Zenon
  <2>2. (\A x : Occurs(eligible, x) => Occurs(reranked, x))'
    BY <1>6, <1>9, <1>10, Zenon
  <2>3. (\A c, d : Occurs(reranked, c) /\ ~Occurs(eligible, c) /\ Occurs(eligible, d) => c.score <= d.score)'
    BY <1>6, <1>9, <1>10, Zenon
  <2> QED
    BY <2>1, <2>2, <2>3, Zenon DEF RankInv
<1>14. OneBestSegment'
  <2>1. SUFFICES ASSUME Conversations
                 PROVE  /\ Cardinality({c.canonical : c \in Range(best)}) = Len(best)
                        /\ \A c \in Range(list) : \E r \in Range(best) :
                              /\ r.canonical = c.canonical /\ r.score >= c.score
                              /\ r.score = c.score => r.segment <= c.segment
    BY <1>5, <1>6, Zenon DEF OneBestSegment, Conversations
  <2>2. best = Collapse(list)
    BY <1>7, <2>1
  <2>3. Cardinality({c.canonical : c \in Range(best)}) = Len(best)
    <3>1. \A p, q \in 1..Len(best) : best[p].canonical = best[q].canonical => p = q
      BY <1>4, <2>2, ConversationsRepresented
    <3> QED
      BY <1>8, <3>1, ConversationsCounted
  <2>4. ASSUME NEW c \in Range(list)
        PROVE  \E r \in Range(best) : /\ r.canonical = c.canonical /\ r.score >= c.score
                                      /\ r.score = c.score => r.segment <= c.segment
    <3>1. list \in Seq(ScoredRecords) /\ best \in Seq(ScoredRecords)
      BY <1>4, <1>8 DEF RankedList
    <3>2. Occurs(list, c)
      BY <3>1, <2>4, RangeOccurs
    <3>3. PICK r : Occurs(best, r) /\ r.canonical = c.canonical /\ Representative(r, c)
      BY <1>4, <2>2, <3>2, ConversationsRepresented
    <3>4. r \in ScoredRecords /\ c \in ScoredRecords
      BY <3>1, <3>2, <3>3 DEF Occurs
    <3>5. r.score \in Int /\ c.score \in Int /\ r.segment \in Nat /\ c.segment \in Nat
      <4>1. r.segment \in Nat /\ c.segment \in Nat
        BY <3>4 DEF ScoredRecords
      <4> QED
        BY <3>4, <4>1, ScoresKnown
    <3>6. r.score >= c.score /\ (r.score = c.score => r.segment <= c.segment)
      BY <3>3, <3>5 DEF Representative
    <3>7. r \in Range(best)
      BY <3>1, <3>3, RangeOccurs
    <3> QED
      BY <3>3, <3>6, <3>7
  <2> QED
    BY <2>3, <2>4
<1> QED
  BY <1>5, <1>13, <1>14, Zenon DEF RetInv

\* The second read confirms the pool, and what is chosen from it is cut to its budget.
LEMMA HydrateKeeps ==
  ASSUME RetInv, NEW outcome \in Over(adaptivePool, Outcomes), NEW class \in Over(adaptivePool, Classes),
         Hydrate(outcome, class)
  PROVE  RetInv'
<1>1. RankInv /\ retrieval' = "done"
  BY DEF RetInv, Hydrate
<1>2. /\ collection' = collection /\ reranked' = reranked /\ eligible' = eligible
      /\ adaptivePool' = adaptivePool
  BY DEF Hydrate
<1>3. RankInv'
  BY <1>1, <1>2, Zenon DEF RankInv
<1>4. PICK pool : pool = HydratedPool(outcome, class)
  OBVIOUS
<1>5. PICK gone : gone = {id \in Ids(adaptivePool) : outcome[id] = "quarantined"}
  OBVIOUS
<1>6. Confirmed(pool, adaptivePool, gone)
  <2>1. RankedList(adaptivePool)
    <3>1. RankedList(eligible) /\ CutOff(adaptivePool, eligible)
      BY <1>1 DEF RankInv
    <3> QED
      BY <3>1, CutRanked
  <2>2. outcome \in [Ids(adaptivePool) -> Outcomes] /\ class \in [Ids(adaptivePool) -> Classes]
    BY DEF Over
  <2>3. \A c \in Range(adaptivePool) : outcome[c.id] # "other_user"
    BY DEF Hydrate
  <2> QED
    BY <1>4, <1>5, <2>1, <2>2, <2>3, PoolConfirmed
<1>8. PICK selected : selected = IF \A c \in Range(adaptivePool) : outcome[c.id] # "no_vector"
                                 THEN Mmr(pool, RetFinalCount)
                                 ELSE SubSeq(pool, 1, Min({RetFinalCount, Len(pool)}))
  OBVIOUS
<1>9. /\ hydrated' = [pool |-> pool, usable |-> \A c \in Range(adaptivePool) : outcome[c.id] # "no_vector",
                      selected |-> selected, gone |-> gone]
      /\ context' = IF Conversations THEN selected ELSE WithinBudget(selected)
  BY <1>4, <1>5, <1>8, Zenon DEF Hydrate
<1>10. hydrated'.pool = pool /\ hydrated'.selected = selected /\ hydrated'.gone = gone
  BY <1>9, Zenon
<1>11. pool \in Seq(PooledRecords) /\ Descends(pool)
  BY <1>6 DEF Confirmed
<1>12. Selection(selected, pool, Min({RetFinalCount, Len(pool)}))
  <2>1. PICK L \in Nat : L = Len(pool)
    BY <1>11
  <2>2. PICK k \in Nat : k = RetFinalCount
    BY RetrievalBounds
  <2>3. PICK M \in Nat : M = Min({k, L}) /\ M <= L
    BY Lesser
  <2>4. Selection(Mmr(pool, k), pool, M)
    BY <1>11, <2>1, <2>3, MmrSelects
  <2>5. Selection(SubSeq(pool, 1, M), pool, M)
    BY <1>11, <2>1, <2>3, CutSelects
  <2> QED
    BY <1>8, <2>1, <2>2, <2>3, <2>4, <2>5, Zenon
<1>13. ~Conversations => \E kept : /\ context' = SubSeq(selected, 1, kept)
                                   /\ LongestFitting(kept, selected, Len(selected))
  <2>1. selected \in Seq(PooledRecords)
    BY <1>12 DEF Selection
  <2>2. Len(selected) \in Nat
    BY <2>1
  <2>3. \E kept : WithinBudget(selected) = SubSeq(selected, 1, kept) /\ LongestFitting(kept, selected, Len(selected))
    BY <2>2, BudgetKept
  <2> QED
    BY <1>9, <2>3, Zenon
<1>14. Conversations => context' = selected
  BY <1>9
<1>15. ContextInv'
  <2>1. Conversations' <=> Conversations
    BY <1>2 DEF Conversations
  <2>2. Confirmed(hydrated.pool, adaptivePool, hydrated.gone)'
    BY <1>2, <1>6, <1>10, Zenon
  <2>3. Selection(hydrated.selected, hydrated.pool, Min({RetFinalCount, Len(hydrated.pool)}))'
    BY <1>10, <1>12, Zenon
  <2>4. Conversations' => (context = hydrated.selected)'
    BY <1>10, <1>14, <2>1, Zenon
  <2>5. ~Conversations' => (\E kept : /\ context = SubSeq(hydrated.selected, 1, kept)
                                      /\ LongestFitting(kept, hydrated.selected, Len(hydrated.selected)))'
    BY <1>10, <1>13, <2>1, Zenon
  <2> QED
    BY <2>2, <2>3, <2>4, <2>5, Zenon DEF ContextInv
<1> QED
  BY <1>1, <1>3, <1>15, Zenon DEF RetInv

\* A call begins with nothing.
LEMMA RetStarts == RetInit => RetInv
BY DEF RetInit, RetInv

\* No step of a call undoes what the stages have established.
LEMMA RetKept == RetInv /\ [RetNext]_retVars => RetInv'
<1> SUFFICES ASSUME RetInv, [RetNext]_retVars PROVE RetInv'
  OBVIOUS
<1>1. CASE \E answer \in Responses : Search(answer)
  BY <1>1, SearchKeeps
<1>2. CASE \E score \in Over(candidates, Scores) : Rerank(score)
  <2> HIDE DEF Over
  <2> QED
    BY <1>2, RerankKeeps
<1>3. CASE \E outcome \in Over(adaptivePool, Outcomes), class \in Over(adaptivePool, Classes) :
              Hydrate(outcome, class)
  BY <1>3, HydrateKeeps
<1>4. CASE RerankFails \/ HydrateFails
  BY <1>4 DEF RerankFails, HydrateFails, RetInv
<1>5. CASE UNCHANGED retVars
  <2>1. /\ retrieval' = retrieval /\ rows' = rows /\ candidates' = candidates /\ collection' = collection
        /\ reranked' = reranked /\ eligible' = eligible /\ adaptivePool' = adaptivePool
        /\ hydrated' = hydrated /\ context' = context
    BY <1>5 DEF retVars
  <2>2. QuarantineExact' <=> QuarantineExact
    <3>1. Range(candidates)' = Range(candidates) /\ (Conversations' <=> Conversations)
      BY <2>1, Zenon DEF Range, Conversations
    <3>2. \A i : Tainted(i)' <=> Tainted(i)
      BY <2>1, <3>1, Zenon DEF Tainted, Doubled, Identified, Conversations
    <3> HIDE DEF Range
    <3> QED
      BY <2>1, <3>1, <3>2, SMT DEF QuarantineExact
  <2>3. RankInv' <=> RankInv
    BY <2>1, Zenon DEF RankInv
  <2>4. OneBestSegment' <=> OneBestSegment
    BY <2>1, Zenon DEF OneBestSegment, Conversations
  <2>5. ContextInv' <=> ContextInv
    BY <2>1, Zenon DEF ContextInv, Conversations
  <2> QED
    BY <2>1, <2>2, <2>3, <2>4, <2>5, Zenon DEF RetInv
<1> QED
  BY <1>1, <1>2, <1>3, <1>4, <1>5, Zenon DEF RetNext

\* What the invariant says: the quarantine is exact, the cut falls between the scores and a
\* conversation has one best segment, the context is confirmed and fits, the reasons explain it.
LEMMA RetTold ==
  RetInv => /\ QuarantineExact /\ CutsBetweenScores /\ OneBestSegment
            /\ ContextConfirmed /\ BudgetTight /\ ReasonsExplain
<1> SUFFICES ASSUME RetInv
             PROVE  /\ QuarantineExact /\ CutsBetweenScores /\ OneBestSegment
                    /\ ContextConfirmed /\ BudgetTight /\ ReasonsExplain
  OBVIOUS
<1>1. QuarantineExact
  BY Zenon DEF RetInv, QuarantineExact
<1>2. CutsBetweenScores
  <2>1. CASE retrieval = "hydrating"
    BY <2>1, CutTold DEF RetInv
  <2>2. CASE retrieval # "hydrating"
    BY <2>2, Zenon DEF CutsBetweenScores
  <2> QED
    BY <2>1, <2>2
<1>3. OneBestSegment
  BY Zenon DEF RetInv, OneBestSegment
<1>4. ContextConfirmed /\ BudgetTight /\ ReasonsExplain
  <2>1. CASE retrieval = "done"
    <3>1. RankInv /\ ContextInv
      BY <2>1 DEF RetInv
    <3> QED
      BY <3>1, ContextTold, BudgetTold, ReasonsTold
  <2>2. CASE retrieval # "done"
    BY <2>2, Zenon DEF ContextConfirmed, BudgetTight, ReasonsExplain
  <2> QED
    BY <2>1, <2>2
<1> QED
  BY <1>1, <1>2, <1>3, <1>4

\* The quarantine of malformed and doubled rows is exact, whatever a query answers and in
\* whatever order: neither a sound object is lost nor a tainted one kept (_hybrid_search,
\* _normalized_candidates).
THEOREM QuarantineAlwaysExact == RetSpec => []QuarantineExact
<1>1. RetInv => QuarantineExact
  BY RetTold
<1> QED
  BY RetStarts, RetKept, <1>1, PTL DEF RetSpec

\* The recorded reasons explain the context, whatever was refused, cut, gone, left out by a
\* limit or by the budget (_observe_candidate_decisions).
THEOREM ReasonsAlwaysExplain == RetSpec => []ReasonsExplain
<1>1. RetInv => ReasonsExplain
  BY RetTold
<1> QED
  BY RetStarts, RetKept, <1>1, PTL DEF RetSpec
=============================================================================
