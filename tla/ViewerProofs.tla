---------------------------- MODULE ViewerProofs ----------------------------
(***************************************************************************)
(* When the page is drawn, for any program and any number of models, and   *)
(* what the program of the user interface keeps, for any files, labels,    *)
(* choices and lists.                                                      *)
(***************************************************************************)
EXTENDS Frames, CastList, SequenceTheorems, WellFoundedInduction, TLAPS

(***************************************************************************)
(* The animation frames of makeStepper.                                    *)
(***************************************************************************)

(* However models and frames interleave, there is a callback when and only *)
(* when makeStepper waits for one (VirtualDom.js, lines 1535 to 1585), the *)
(* branch that throws is not reached, and what is not drawn has a callback *)
(* that will draw it.                                                      *)
THEOREM FramesAreOne == FramesSpec => []OneFrame
<1>1. FramesInit => OneFrame
  BY DEF FramesInit, OneFrame, FramesTypeOK
<1>2. ASSUME OneFrame, [FramesNext]_frameVars PROVE OneFrame'
  <2>1. CASE NewModel
    BY <1>2, <2>1 DEF NewModel, stepper, OneFrame, FramesTypeOK
  <2>2. CASE Draw
    BY <1>2, <2>2 DEF Draw, OneFrame, FramesTypeOK
  <2>3. CASE Idle
    BY <1>2, <2>3 DEF Idle, OneFrame, FramesTypeOK
  <2>4. CASE UNCHANGED frameVars
    BY <1>2, <2>4 DEF frameVars, OneFrame, FramesTypeOK
  <2>5. QED
    BY <1>2, <2>1, <2>2, <2>3, <2>4 DEF FramesNext
<1>3. QED
  BY <1>1, <1>2, PTL DEF FramesSpec

-----------------------------------------------------------------------------
(***************************************************************************)
(* Lists of recordings and the two halves that update makes of one.        *)
(***************************************************************************)

(* All lines and values there may be.                                      *)
Word == Words \cup {Files[i] : i \in File} \cup {Labels[i] : i \in File} \cup {""}

(* Casts and labels, or lines of them, as they are of the files of list.   *)
Names(lines, list) ==
  /\ Len(lines) = 2 * Len(list)
  /\ \A k \in 1..Len(list) : /\ lines[2 * k - 1] = Files[list[k]]
                             /\ lines[2 * k] \in {Labels[list[k]], ""}

(* A list message: a line for every file and for its labels, in order.     *)
IsList(lines) == \E list \in Seq(File) : Ascending(list) /\ Names(lines, list)

Message ==
  {m \in [ctor : {"DisplayCast", "ListCasts", "OnLocationChange"}, lines : Seq(Word)] :
     /\ m.ctor = "DisplayCast" => m.lines # <<>>
     /\ m.ctor = "ListCasts" => IsList(m.lines)}

Model == [cast : Word, casts : Seq(Word), labels : Seq(Word)]

Typed ==
  /\ mail \in Seq(Message)
  /\ model \in Model
  /\ out \in Seq(Word) /\ played \in Word

ListInv == Typed /\ Paired /\ PlaysCast

(* Some numbers up to a bound have a greatest.                             *)
LEMMA Greatest ==
  ASSUME NEW n \in Nat, NEW S \in SUBSET (1..n), S # {}
  PROVE  \E i \in S : \A j \in S : j <= i
<1> DEFINE R == OpToRel(<, Nat)
           T == {n - i : i \in S}
<1>1. T \subseteq Nat /\ T # {}
  <2>1. \A i \in S : n - i \in Nat
    OBVIOUS
  <2>2. PICK i \in S : TRUE
    OBVIOUS
  <2>3. n - i \in T
    BY <2>2
  <2>4. QED
    BY <2>1, <2>3
<1>2. IsWellFoundedOn(R, Nat)
  BY NatLessThanWellFounded
<1>3. \A x, y \in Nat : <<y, x>> \notin R => x <= y
  BY DEF OpToRel
<1> HIDE DEF R
<1>4. PICK m \in T : \A l \in T : <<l, m>> \notin R
  <2> HIDE DEF T
  <2>1. QED
    BY <1>1, <1>2, WFMin
<1>5. PICK i \in S : m = n - i
  OBVIOUS
<1>6. ASSUME NEW j \in S PROVE j <= i
  <2>1. n - j \in T /\ n - j \in Nat /\ m \in Nat
    BY <1>1
  <2>2. m <= n - j
    BY <1>3, <1>4, <2>1
  <2>3. QED
    BY <1>5, <2>2
<1>7. QED
  BY <1>6

(* Lines without the empty ones at the end are some of the first lines.    *)
LEMMA Trimmed ==
  ASSUME NEW lines \in Seq(Word)
  PROVE  \/ trimSplit(lines) = <<"">>
         \/ \E m \in 1..Len(lines) : trimSplit(lines) = SubSeq(lines, 1, m)
<1> DEFINE full == {i \in DOMAIN lines : lines[i] # ""}
           last == CHOOSE i \in full : \A j \in full : j <= i
<1>1. CASE full = {}
  BY <1>1 DEF trimSplit
<1>2. CASE full # {}
  <2>1. full \in SUBSET (1..Len(lines)) /\ Len(lines) \in Nat
    <3>1. DOMAIN lines = 1..Len(lines) /\ Len(lines) \in Nat
      OBVIOUS
    <3>2. full \subseteq DOMAIN lines
      OBVIOUS
    <3> HIDE DEF full
    <3>3. QED
      BY <3>1, <3>2
  <2>2. \E i \in full : \A j \in full : j <= i
    <3> HIDE DEF full
    <3>1. QED
      BY <1>2, <2>1, Greatest
  <2>3. last \in full
    <3> HIDE DEF full
    <3>1. QED
      BY <2>2
  <2>4. trimSplit(lines) = SubSeq(lines, 1, last)
    BY <1>2 DEF trimSplit
  <2>5. last \in 1..Len(lines)
    BY <2>1, <2>3
  <2> HIDE DEF last
  <2>6. QED
    BY <2>4, <2>5
<1>3. QED
  BY <1>1, <1>2

LEMMA FunctionSeq == ASSUME NEW S, NEW n \in Nat, NEW f \in [1..n -> S] PROVE f \in Seq(S) /\ Len(f) = n
OBVIOUS

LEMMA OneWord == ASSUME NEW S, NEW w \in S PROVE <<w>> \in Seq(S) /\ Len(<<w>>) = 1 /\ <<w>>[1] = w
OBVIOUS

LEMMA TrimmedType ==
  ASSUME NEW lines \in Seq(Word)
  PROVE  trimSplit(lines) \in Seq(Word) /\ Len(trimSplit(lines)) > 0
<1>1. CASE trimSplit(lines) = <<"">>
  <2>1. \E w \in Word : trimSplit(lines) = <<w>>
    BY <1>1 DEF Word
  <2>2. PICK w \in Word : trimSplit(lines) = <<w>>
    BY <2>1
  <2>3. <<w>> \in Seq(Word) /\ Len(<<w>>) = 1
    BY OneWord
  <2>4. QED
    BY <2>2, <2>3
<1>2. CASE \E m \in 1..Len(lines) : trimSplit(lines) = SubSeq(lines, 1, m)
  <2>1. PICK m \in 1..Len(lines) : trimSplit(lines) = SubSeq(lines, 1, m)
    BY <1>2
  <2>2. SubSeq(lines, 1, m) \in Seq(Word) /\ Len(SubSeq(lines, 1, m)) = m
    BY SubSeqProperties
  <2>3. QED
    BY <2>1, <2>2
<1>3. QED
  BY <1>1, <1>2, Trimmed

(* A place in a half is a place in the lines.                              *)
LEMMA Halves ==
  \A n \in Nat :
    /\ (n + 1) \div 2 \in Nat /\ n \div 2 \in Nat
    /\ (n > 0 => 1 <= (n + 1) \div 2)
    /\ (n \div 2 = (n + 1) \div 2 \/ n \div 2 = (n + 1) \div 2 - 1)
    /\ \A i \in 1..((n + 1) \div 2) : 2 * i - 1 \in 1..n
    /\ \A i \in 1..(n \div 2) : 2 * i \in 1..n
OBVIOUS

LEMMA HalvesType ==
  ASSUME NEW list \in Seq(Word)
  PROVE  /\ oddElements(list) \in Seq(Word) /\ Len(oddElements(list)) = (Len(list) + 1) \div 2
         /\ evenElements(list) \in Seq(Word) /\ Len(evenElements(list)) = Len(list) \div 2
         /\ \A i \in 1..Len(oddElements(list)) : oddElements(list)[i] = list[2 * i - 1]
         /\ \A i \in 1..Len(evenElements(list)) : evenElements(list)[i] = list[2 * i]
<1> DEFINE n == Len(list)
           odd == (n + 1) \div 2
           even == n \div 2
<1>1. n \in Nat /\ \A i \in 1..n : list[i] \in Word
  OBVIOUS
<1>2. /\ odd \in Nat /\ even \in Nat
      /\ \A i \in 1..odd : 2 * i - 1 \in 1..n
      /\ \A i \in 1..even : 2 * i \in 1..n
  BY <1>1, Halves
<1>3. oddElements(list) = [i \in 1..odd |-> list[2 * i - 1]]
  BY DEF oddElements
<1>4. evenElements(list) = [i \in 1..even |-> list[2 * i]]
  BY DEF evenElements
<1> HIDE DEF n, odd, even
<1>5. oddElements(list) \in [1..odd -> Word] /\ evenElements(list) \in [1..even -> Word]
  BY <1>1, <1>2, <1>3, <1>4
<1>6. /\ oddElements(list) \in Seq(Word) /\ Len(oddElements(list)) = odd
      /\ evenElements(list) \in Seq(Word) /\ Len(evenElements(list)) = even
  BY <1>2, <1>5, FunctionSeq
<1>7. /\ \A i \in 1..odd : oddElements(list)[i] = list[2 * i - 1]
      /\ \A i \in 1..even : evenElements(list)[i] = list[2 * i]
  BY <1>3, <1>4
<1>8. QED
  BY <1>6, <1>7 DEF n, odd, even

(* What update makes of a list message: the casts and the labels of the    *)
(* files it is of, the last label left out where it is empty.              *)
PairedAs(casts, labels) ==
  \/ casts \in {<<>>, <<"">>} /\ labels = <<>>
  \/ /\ Len(labels) \in {Len(casts), Len(casts) - 1}
     /\ \E list \in [1..Len(casts) -> File] :
          /\ Ascending(list)
          /\ \A k \in 1..Len(casts) : casts[k] = Files[list[k]]
          /\ \A k \in 1..Len(labels) : labels[k] \in {Labels[list[k]], ""}

(* Some of the first lines of a list are a list of casts and of labels.    *)
LEMMA PrefixPaired ==
  ASSUME NEW lines \in Seq(Word), IsList(lines), NEW m \in 1..Len(lines)
  PROVE  PairedAs(oddElements(SubSeq(lines, 1, m)), evenElements(SubSeq(lines, 1, m)))
<1> DEFINE s == SubSeq(lines, 1, m)
           casts == oddElements(s)
           labels == evenElements(s)
<1>1. PICK files \in Seq(File) : Ascending(files) /\ Names(lines, files)
  BY DEF IsList
<1>2. s \in Seq(Word) /\ Len(s) = m /\ \A i \in 1..m : s[i] = lines[i]
  BY SubSeqProperties
<1> HIDE DEF s
<1>3. /\ Len(casts) = (m + 1) \div 2 /\ Len(labels) = m \div 2
      /\ \A k \in 1..Len(casts) : casts[k] = s[2 * k - 1]
      /\ \A k \in 1..Len(labels) : labels[k] = s[2 * k]
  BY <1>2, HalvesType
<1> HIDE DEF casts, labels
<1>4. Len(lines) = 2 * Len(files) /\ Len(files) \in Nat /\ DOMAIN files = 1..Len(files) /\ m \in Nat
  <2>1. Len(lines) = 2 * Len(files)
    BY <1>1 DEF Names
  <2>2. Len(files) \in Nat /\ DOMAIN files = 1..Len(files) /\ Len(lines) \in Nat
    OBVIOUS
  <2>3. QED
    BY <2>1, <2>2
<1>5. /\ Len(casts) \in Nat /\ Len(labels) \in Nat
      /\ Len(labels) \in {Len(casts), Len(casts) - 1}
      /\ \A k \in 1..Len(casts) : 2 * k - 1 \in 1..m
      /\ \A k \in 1..Len(labels) : 2 * k \in 1..m
  BY <1>3, <1>4, Halves
<1>6. Len(casts) <= Len(files) /\ Len(labels) <= Len(casts)
  BY <1>3, <1>4
<1> DEFINE list == [k \in 1..Len(casts) |-> files[k]]
<1>7. list \in [1..Len(casts) -> File] /\ \A k \in 1..Len(casts) : list[k] = files[k] /\ k \in DOMAIN files
  BY <1>4, <1>5, <1>6
<1> HIDE DEF list
<1>8. Ascending(list)
  BY <1>1, <1>7 DEF Ascending
<1>9. ASSUME NEW k \in 1..Len(casts) PROVE casts[k] = Files[list[k]]
  <2>1. casts[k] = lines[2 * k - 1]
    BY <1>2, <1>3, <1>5
  <2>2. lines[2 * k - 1] = Files[files[k]]
    BY <1>1, <1>4, <1>7 DEF Names
  <2>3. QED
    BY <1>7, <2>1, <2>2
<1>10. ASSUME NEW k \in 1..Len(labels) PROVE labels[k] \in {Labels[list[k]], ""}
  <2>1. labels[k] = lines[2 * k]
    BY <1>2, <1>3, <1>5
  <2>2. k \in 1..Len(casts)
    BY <1>5, <1>6
  <2>3. lines[2 * k] \in {Labels[files[k]], ""}
    BY <1>1, <1>4, <1>7, <2>2 DEF Names
  <2>4. QED
    BY <1>7, <2>1, <2>2, <2>3
<1>11. PairedAs(casts, labels)
  BY <1>5, <1>7, <1>8, <1>9, <1>10 DEF PairedAs
<1>12. QED
  BY <1>11 DEF casts, labels, s

(* A list of no files is one cast without name, and no label.              *)
LEMMA NoFiles == oddElements(<<"">>) = <<"">> /\ evenElements(<<"">>) = <<>>
<1>1. ASSUME NEW w \in Word PROVE oddElements(<<w>>) = <<w>> /\ evenElements(<<w>>) = <<>>
  <2>1. (1 + 1) \div 2 = 1 /\ 1 \div 2 = 0 /\ 2 * 1 - 1 = 1 /\ 1 \in 1..1 /\ Len(<<w>>) = 1
    OBVIOUS
  <2>2. oddElements(<<w>>) = [i \in 1..1 |-> <<w>>[2 * i - 1]]
    BY <2>1 DEF oddElements
  <2>3. evenElements(<<w>>) = [i \in 1..0 |-> <<w>>[2 * i]]
    BY <2>1 DEF evenElements
  <2>4. \A i \in 1..1 : i = 1
    OBVIOUS
  <2>5. oddElements(<<w>>) = [i \in 1..1 |-> w]
    BY <2>1, <2>2, <2>4
  <2>6. <<w>> = [i \in 1..1 |-> w]
    OBVIOUS
  <2>7. QED
    BY <2>3, <2>5, <2>6
<1>2. "" \in Word
  BY DEF Word
<1>3. QED
  BY <1>1, <1>2

LEMMA ListPaired ==
  ASSUME NEW lines \in Seq(Word), IsList(lines)
  PROVE  PairedAs(oddElements(trimSplit(lines)), evenElements(trimSplit(lines)))
<1>1. CASE trimSplit(lines) = <<"">>
  BY <1>1, NoFiles DEF PairedAs
<1>2. CASE \E m \in 1..Len(lines) : trimSplit(lines) = SubSeq(lines, 1, m)
  BY <1>2, PrefixPaired
<1>3. QED
  BY <1>1, <1>2, Trimmed

LEMMA PairedModel == PairedAs(model.casts, model.labels) <=> Paired
BY DEF PairedAs, Paired

LEMMA PairedModelNext == PairedAs(model'.casts, model'.labels) <=> Paired'
BY DEF PairedAs, Paired

-----------------------------------------------------------------------------
(***************************************************************************)
(* The messages of the program, and what update makes of them.             *)
(***************************************************************************)

(* Lines(list) is a list message of the files of list.                     *)
LEMMA PlaceInLines ==
  \A n \in Nat : \A k \in 1..n :
    /\ 2 * k - 1 \in 1..(2 * n) /\ 2 * k \in 1..(2 * n)
    /\ ((2 * k - 1) + 1) \div 2 = k /\ (2 * k - 1) % 2 = 1
    /\ (2 * k + 1) \div 2 = k /\ (2 * k) % 2 = 0
OBVIOUS

LEMMA FileOfLine == \A n \in Nat : \A l \in 1..(2 * n) : (l + 1) \div 2 \in 1..n
OBVIOUS

LEMMA LinesList ==
  ASSUME NEW n \in Nat, NEW list \in [1..n -> File], Ascending(list)
  PROVE  Lines(list) \in Seq(Word) /\ IsList(Lines(list))
<1> DEFINE label(i) == IF dir[i] = "labelled" THEN Labels[i] ELSE ""
           line(l, i) == IF l % 2 = 1 THEN Files[i] ELSE label(i)
<1>1. list \in Seq(File) /\ Len(list) = n
  BY FunctionSeq
<1>2. Lines(list) = [l \in 1..(2 * n) |-> line(l, list[(l + 1) \div 2])]
  BY <1>1 DEF Lines
<1>3. \A i \in File : label(i) \in {Labels[i], ""}
  OBVIOUS
<1> HIDE DEF label
<1>4. /\ \A l \in 1..(2 * n) : \A i \in File : line(l, i) \in Word
      /\ \A l \in 1..(2 * n) : l % 2 = 1 => \A i \in File : line(l, i) = Files[i]
      /\ \A l \in 1..(2 * n) : l % 2 = 0 => \A i \in File : line(l, i) \in {Labels[i], ""}
  <2>1. \A i \in File : Files[i] \in Word /\ label(i) \in Word
    BY <1>3 DEF Word
  <2>2. ASSUME NEW l \in 1..(2 * n), NEW i \in File PROVE line(l, i) \in Word
    BY <2>1
  <2>3. ASSUME NEW l \in 1..(2 * n), l % 2 = 1, NEW i \in File PROVE line(l, i) = Files[i]
    BY <2>3
  <2>4. ASSUME NEW l \in 1..(2 * n), l % 2 = 0, NEW i \in File PROVE line(l, i) \in {Labels[i], ""}
    <3>1. line(l, i) = label(i)
      <4>1. ~(l % 2 = 1)
        BY <2>4
      <4>2. QED
        BY <4>1, Zenon
    <3> HIDE DEF line
    <3>2. QED
      BY <1>3, <3>1
  <2> HIDE DEF line
  <2>5. QED
    BY <2>2, <2>3, <2>4
<1> HIDE DEF line
<1>5. \A l \in 1..(2 * n) : list[(l + 1) \div 2] \in File
  BY FileOfLine
<1>6. Lines(list) \in [1..(2 * n) -> Word] /\ 2 * n \in Nat
  <2>1. \A l \in 1..(2 * n) : line(l, list[(l + 1) \div 2]) \in Word
    BY <1>4, <1>5
  <2>2. 2 * n \in Nat
    OBVIOUS
  <2>3. Lines(list) \in [1..(2 * n) -> Word]
    BY <1>2, <2>1, Zenon
  <2>4. QED
    BY <2>2, <2>3
<1>7. Lines(list) \in Seq(Word) /\ Len(Lines(list)) = 2 * n
  BY <1>6, FunctionSeq
<1>8. \A l \in 1..(2 * n) : Lines(list)[l] = line(l, list[(l + 1) \div 2])
  BY <1>2
<1>9. ASSUME NEW k \in 1..n
      PROVE  Lines(list)[2 * k - 1] = Files[list[k]] /\ Lines(list)[2 * k] \in {Labels[list[k]], ""}
  <2>1. /\ 2 * k - 1 \in 1..(2 * n) /\ 2 * k \in 1..(2 * n)
        /\ ((2 * k - 1) + 1) \div 2 = k /\ (2 * k - 1) % 2 = 1
        /\ (2 * k + 1) \div 2 = k /\ (2 * k) % 2 = 0
    BY PlaceInLines
  <2>2. Lines(list)[2 * k - 1] = line(2 * k - 1, list[k]) /\ Lines(list)[2 * k] = line(2 * k, list[k])
    BY <1>8, <2>1
  <2>3. QED
    BY <1>4, <2>1, <2>2
<1>10. Names(Lines(list), list)
  BY <1>1, <1>7, <1>9 DEF Names
<1>11. QED
  BY <1>1, <1>7, <1>10 DEF IsList

(* The mail after a message was handled, and with one more.                *)
LEMMA HeadMail ==
  ASSUME NEW box \in Seq(Message), box # <<>>
  PROVE  Head(box) \in Message /\ Tail(box) \in Seq(Message)
OBVIOUS

LEMMA MoreMail ==
  ASSUME NEW box \in Seq(Message), NEW m \in Message
  PROVE  Append(box, m) \in Seq(Message)
OBVIOUS

(* The last of the values for the port once there are more, or one less.   *)
LastOf(values, last) == IF values = <<>> THEN last ELSE values[Len(values)]

LEMMA PlaysLast == PlaysCast <=> LastOf(out, played) = model.cast
BY DEF PlaysCast, LastOf

LEMMA PlaysLastNext == PlaysCast' <=> LastOf(out', played') = model'.cast
BY DEF PlaysCast, LastOf

LEMMA LastAdded ==
  ASSUME NEW values \in Seq(Word), NEW last, NEW w \in Word
  PROVE  values \o <<w>> \in Seq(Word) /\ LastOf(values \o <<w>>, last) = w
<1>1. /\ values \o <<w>> \in Seq(Word) /\ Len(values \o <<w>>) = Len(values) + 1
      /\ (values \o <<w>>)[Len(values) + 1] = w
  OBVIOUS
<1>2. values \o <<w>> # <<>>
  BY <1>1
<1>3. QED
  BY <1>1, <1>2 DEF LastOf

LEMMA NoneAdded == ASSUME NEW values \in Seq(Word) PROVE values \o <<>> = values
OBVIOUS

LEMMA NoLength == ASSUME NEW values \in Seq(Word) PROVE values = <<>> <=> Len(values) = 0
OBVIOUS

LEMMA FirstTaken ==
  ASSUME NEW values \in Seq(Word), values # <<>>, NEW last
  PROVE  /\ Head(values) \in Word /\ Tail(values) \in Seq(Word)
         /\ LastOf(Tail(values), Head(values)) = LastOf(values, last)
<1>1. /\ Head(values) \in Word /\ Head(values) = values[1] /\ Tail(values) \in Seq(Word)
      /\ Len(Tail(values)) = Len(values) - 1 /\ Len(values) \in Nat \ {0}
      /\ \A i \in 1..(Len(values) - 1) : Tail(values)[i] = values[i + 1]
  OBVIOUS
<1>2. CASE Len(values) = 1
  <2>1. Tail(values) = <<>>
    <3>1. Len(Tail(values)) = 0
      BY <1>1, <1>2
    <3>2. QED
      BY <1>1, <3>1, NoLength
  <2>2. QED
    BY <1>1, <1>2, <2>1 DEF LastOf
<1>3. CASE Len(values) > 1
  <2>1. Tail(values) # <<>> /\ Len(values) - 1 \in 1..(Len(values) - 1) /\ (Len(values) - 1) + 1 = Len(values)
    <3>1. Len(Tail(values)) # 0
      BY <1>1, <1>3
    <3>2. Tail(values) # <<>>
      BY <1>1, <3>1, NoLength
    <3>3. QED
      BY <1>1, <1>3, <3>2
  <2>2. Tail(values)[Len(values) - 1] = values[Len(values)]
    BY <1>1, <2>1
  <2>3. QED
    BY <1>1, <2>1, <2>2 DEF LastOf
<1>4. QED
  BY <1>1, <1>2, <1>3

(* A result of update: a model and the value it sends to the port, if any. *)
Sends(r) ==
  /\ r.model \in Model
  /\ PairedAs(r.model.casts, r.model.labels)
  /\ \/ r.command = <<>> /\ r.model.cast = model.cast
     \/ r.command = <<r.model.cast>>

LEMMA DisplayCastSends ==
  ASSUME ListInv, NEW cast \in Word
  PROVE  Sends(DisplayCast(cast))
<1> DEFINE r == DisplayCast(cast)
<1>1. model \in Model /\ PairedAs(model.casts, model.labels)
  BY PairedModel DEF ListInv, Typed
<1>2. r = [model |-> [model EXCEPT !.cast = cast], command |-> <<cast>>]
  BY DEF DisplayCast
<1>3. r.command = <<cast>> /\ r.model = [model EXCEPT !.cast = cast]
  BY <1>2
<1> HIDE DEF r
<1>4. /\ r.model \in Model /\ r.model.cast = cast
      /\ r.model.casts = model.casts /\ r.model.labels = model.labels
  BY <1>1, <1>3 DEF Model
<1>5. Sends(r)
  BY <1>1, <1>3, <1>4 DEF Sends
<1>6. QED
  BY <1>5 DEF r

LEMMA ListCastsSends ==
  ASSUME ListInv, NEW lines \in Seq(Word), IsList(lines)
  PROVE  Sends(ListCasts(lines))
<1> DEFINE casts == oddElements(trimSplit(lines))
           labels == evenElements(trimSplit(lines))
           set == setCastIfEmpty(model.cast, casts)
           r == ListCasts(lines)
<1>1. model.cast \in Word
  BY DEF ListInv, Typed, Model
<1>2. casts \in Seq(Word) /\ labels \in Seq(Word) /\ casts[1] \in Word
  <2>1. trimSplit(lines) \in Seq(Word) /\ Len(trimSplit(lines)) > 0
    BY TrimmedType
  <2>2. /\ casts \in Seq(Word) /\ Len(casts) = (Len(trimSplit(lines)) + 1) \div 2
        /\ labels \in Seq(Word)
    BY <2>1, HalvesType
  <2>3. 1 <= Len(casts)
    <3>1. Len(trimSplit(lines)) \in Nat
      BY <2>1
    <3>2. QED
      BY <2>1, <2>2, <3>1, Halves
  <2> HIDE DEF casts
  <2>4. QED
    BY <2>2, <2>3
<1>3. PairedAs(casts, labels)
  BY ListPaired
<1>4. \/ set.command = <<>> /\ set.cast = model.cast
      \/ set.command = <<casts[1]>> /\ set.cast = casts[1]
  BY DEF setCastIfEmpty
<1>5. r = [model |-> [cast |-> set.cast, casts |-> casts, labels |-> labels], command |-> set.command]
  BY DEF ListCasts
<1> HIDE DEF casts, labels, set, r
<1>6. r.command = set.command /\ r.model = [cast |-> set.cast, casts |-> casts, labels |-> labels]
  BY <1>5
<1>7. r.model.cast = set.cast /\ r.model.casts = casts /\ r.model.labels = labels
  BY <1>6
<1>8. set.cast \in Word
  BY <1>1, <1>2, <1>4
<1>9. r.model \in Model
  BY <1>2, <1>6, <1>8 DEF Model
<1>10. Sends(r)
  <2>1. CASE set.command = <<>> /\ set.cast = model.cast
    BY <1>3, <1>6, <1>7, <1>9, <2>1 DEF Sends
  <2>2. CASE set.command = <<casts[1]>> /\ set.cast = casts[1]
    BY <1>3, <1>6, <1>7, <1>9, <2>2 DEF Sends
  <2>3. QED
    BY <1>4, <2>1, <2>2
<1>11. QED
  BY <1>10 DEF r

LEMMA OnLocationChangeSends ==
  ASSUME ListInv
  PROVE  Sends(OnLocationChange)
<1>1. model \in Model /\ PairedAs(model.casts, model.labels)
  BY PairedModel DEF ListInv, Typed
<1>2. OnLocationChange.model = model /\ OnLocationChange.command = <<>>
  BY DEF OnLocationChange
<1>3. QED
  BY <1>1, <1>2 DEF Sends

(* A message that update handles.                                          *)
LEMMA MessageKeeps ==
  ASSUME ListInv, NEW msg, NEW r, Sends(r), onMessage(msg, r)
  PROVE  ListInv'
<1>1. /\ mail \in Seq(Message) /\ mail # <<>> /\ mail' = Tail(mail)
      /\ model' = r.model /\ out' = out \o r.command /\ played' = played
      /\ out \in Seq(Word) /\ played \in Word
  BY DEF ListInv, Typed, onMessage
<1>2. r.model \in Model /\ PairedAs(r.model.casts, r.model.labels)
  BY DEF Sends
<1>3. r.model.cast \in Word
  BY <1>2 DEF Model
<1>4. out' \in Seq(Word) /\ LastOf(out', played') = r.model.cast
  <2>1. CASE r.command = <<>> /\ r.model.cast = model.cast
    <3>1. out' = out
      BY <1>1, <2>1, NoneAdded
    <3>2. LastOf(out, played) = model.cast
      BY PlaysLast DEF ListInv
    <3>3. QED
      BY <1>1, <2>1, <3>1, <3>2
  <2>2. CASE r.command = <<r.model.cast>>
    BY <1>1, <1>3, <2>2, LastAdded
  <2>3. QED
    BY <2>1, <2>2 DEF Sends
<1>5. mail' \in Seq(Message)
  BY <1>1, HeadMail
<1>6. Typed'
  BY <1>1, <1>2, <1>4, <1>5 DEF Typed
<1>7. Paired'
  BY <1>1, <1>2, PairedModelNext
<1>8. PlaysCast'
  BY <1>1, <1>4, PlaysLastNext
<1>9. QED
  BY <1>6, <1>7, <1>8 DEF ListInv

LEMMA updateKeeps ==
  ASSUME ListInv, update
  PROVE  ListInv'
<1>1. CASE onMessage("DisplayCast", DisplayCast(Head(mail).lines[1]))
  <2>1. Head(mail) \in Message /\ Head(mail).ctor = "DisplayCast"
    BY <1>1, HeadMail DEF onMessage, ListInv, Typed
  <2>2. Head(mail).lines \in Seq(Word) /\ Head(mail).lines # <<>>
    BY <2>1 DEF Message
  <2>3. Head(mail).lines[1] \in Word
    BY <2>2
  <2>4. QED
    BY <1>1, <2>3, DisplayCastSends, MessageKeeps
<1>2. CASE onMessage("ListCasts", ListCasts(Head(mail).lines))
  <2>1. Head(mail) \in Message /\ Head(mail).ctor = "ListCasts"
    BY <1>2, HeadMail DEF onMessage, ListInv, Typed
  <2>2. Head(mail).lines \in Seq(Word) /\ IsList(Head(mail).lines)
    BY <2>1 DEF Message
  <2>3. QED
    BY <1>2, <2>2, ListCastsSends, MessageKeeps
<1>3. CASE onMessage("OnLocationChange", OnLocationChange)
  BY <1>3, OnLocationChangeSends, MessageKeeps
<1>4. QED
  BY <1>1, <1>2, <1>3 DEF update

(* A step that leaves the program and the port alone.                      *)
LEMMA MailKeeps ==
  ASSUME ListInv, mail' \in Seq(Message), UNCHANGED <<model, out, played>>
  PROVE  ListInv'
<1>1. Typed'
  BY DEF ListInv, Typed
<1>2. Paired'
  BY DEF ListInv, Paired
<1>3. PlaysCast'
  BY DEF ListInv, PlaysCast
<1>4. QED
  BY <1>1, <1>2, <1>3 DEF ListInv

LEMMA DisplayKeeps ==
  ASSUME ListInv, Display
  PROVE  ListInv'
<1>1. /\ mail' = mail /\ model' = model /\ out' = Tail(out) /\ played' = Head(out)
      /\ out # <<>> /\ out \in Seq(Word)
  BY DEF Display, ListInv, Typed
<1>2. /\ Head(out) \in Word /\ Tail(out) \in Seq(Word)
      /\ LastOf(Tail(out), Head(out)) = LastOf(out, played)
  BY <1>1, FirstTaken
<1>3. Typed'
  BY <1>1, <1>2 DEF ListInv, Typed
<1>4. Paired'
  BY <1>1 DEF ListInv, Paired
<1>5. PlaysCast'
  BY <1>1, <1>2, PlaysLast, PlaysLastNext DEF ListInv
<1>6. QED
  BY <1>3, <1>4, <1>5 DEF ListInv

LEMMA MessageType ==
  ASSUME NEW ctor \in {"DisplayCast", "ListCasts", "OnLocationChange"}, NEW lines \in Seq(Word),
         ctor = "DisplayCast" => lines # <<>>, ctor = "ListCasts" => IsList(lines)
  PROVE  [ctor |-> ctor, lines |-> lines] \in Message
BY DEF Message

LEMMA ListInvInit == ListInit => ListInv
<1> SUFFICES ASSUME ListInit PROVE ListInv
  OBVIOUS
<1>1. /\ mail = <<>> /\ out = <<>> /\ played = ""
      /\ model = [cast |-> "", casts |-> <<>>, labels |-> <<>>]
  BY DEF ListInit, initialModel
<1>2. "" \in Word /\ <<>> \in Seq(Word) /\ <<>> \in Seq(Message)
  BY DEF Word
<1>3. model \in Model
  BY <1>1, <1>2 DEF Model
<1>4. Typed
  BY <1>1, <1>2, <1>3 DEF Typed
<1>5. model.casts = <<>> /\ model.labels = <<>> /\ model.cast = ""
  BY <1>1
<1>6. Paired
  BY <1>5 DEF Paired
<1>7. PlaysCast
  BY <1>1, <1>5 DEF PlaysCast
<1>8. QED
  BY <1>4, <1>6, <1>7 DEF ListInv

LEMMA ListInvNext == ListInv /\ [ListNext]_listVars => ListInv'
<1> SUFFICES ASSUME ListInv, [ListNext]_listVars PROVE ListInv'
  OBVIOUS
<1> USE DEF ListInv, Typed
<1>1. CASE update
  BY <1>1, updateKeeps
<1>2. CASE Display
  BY <1>2, DisplayKeeps
<1>3. ASSUME NEW word \in Words, Choose("DisplayCast", word) PROVE ListInv'
  <2>1. word \in Word
    BY DEF Word
  <2>2. <<word>> \in Seq(Word) /\ <<word>> # <<>>
    BY <2>1
  <2>3. [ctor |-> "DisplayCast", lines |-> <<word>>] \in Message
    BY <2>2, MessageType
  <2>4. mail' \in Seq(Message)
    BY <1>3, <2>3, MoreMail DEF Choose
  <2>5. QED
    BY <1>3, <2>4, MailKeeps DEF Choose
<1>4. CASE Hash
  <2>1. [ctor |-> "OnLocationChange", lines |-> <<>>] \in Message
    <3>1. <<>> \in Seq(Word)
      OBVIOUS
    <3> DEFINE none == <<>>
    <3> HIDE DEF none
    <3>2. none \in Seq(Word) => [ctor |-> "OnLocationChange", lines |-> none] \in Message
      BY MessageType
    <3>3. QED
      BY <3>1, <3>2 DEF none
  <2>2. mail' \in Seq(Message)
    BY <1>4, <2>1 DEF Hash
  <2>3. QED
    BY <1>4, <2>2, MailKeeps DEF Hash
<1>5. ASSUME NEW i \in File, Session(i) PROVE ListInv'
  BY <1>5, MailKeeps DEF Session
<1>6. CASE listHandler
  <2>1. PICK list \in UNION {[1..n -> File] : n \in 0..Len(Files)} :
          /\ IsListed(list)
          /\ mail' = Append(mail, [ctor |-> "ListCasts", lines |-> Lines(list)])
    BY <1>6 DEF listHandler
  <2>2. PICK n \in Nat : list \in [1..n -> File]
    BY <2>1
  <2>3. Lines(list) \in Seq(Word) /\ IsList(Lines(list))
    BY <2>1, <2>2, LinesList DEF IsListed
  <2>4. [ctor |-> "ListCasts", lines |-> Lines(list)] \in Message
    BY <2>3, MessageType
  <2>5. mail' \in Seq(Message)
    BY <2>1, <2>4, MoreMail
  <2>6. QED
    BY <1>6, <2>5, MailKeeps DEF listHandler
<1>7. CASE UNCHANGED listVars
  BY <1>7, MailKeeps DEF listVars
<1>8. QED
  BY <1>1, <1>2, <1>3, <1>4, <1>5, <1>6, <1>7 DEF ListNext

(* Whatever sessions there are, and whichever of them lack labels, the     *)
(* casts and labels of the program stay in step (Update.elm, lines 14 to   *)
(* 20, on the lines that main.go, lines 76 to 121, sends).                 *)
THEOREM ListsStayPaired == ListSpec => []Paired
<1>1. ListInv => Paired
  BY DEF ListInv
<1>2. QED
  BY <1>1, ListInvInit, ListInvNext, PTL DEF ListSpec

(* Whatever is picked and listed meanwhile, the last value for the port    *)
(* displayCast is the cast the program has down as displayed (Update.elm,  *)
(* lines 9 to 35).                                                         *)
THEOREM DisplayFollowsModel == ListSpec => []PlaysCast
<1>1. ListInv => PlaysCast
  BY DEF ListInv
<1>2. QED
  BY <1>1, ListInvInit, ListInvNext, PTL DEF ListSpec

=============================================================================
