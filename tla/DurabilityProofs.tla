-------------------------- MODULE DurabilityProofs --------------------------
(***************************************************************************)
(* Theorems about module Durability, for every value of its constants.     *)
(***************************************************************************)
EXTENDS Durability, SequenceTheorems, TLAPS
-----------------------------------------------------------------------------
(* The content that a checkpoint and the lines of a log reconstruct.        *)

LineSeq(lines) == IF lines = << >> THEN 0 ELSE lines[Len(lines)].seq

TopSeq(dir, lines) ==
  IF LineSeq(lines) > dir.seq THEN LineSeq(lines) ELSE dir.seq

Rebuilt(dir, lines) ==
  dir.content \o
    [n \in 1 .. TopSeq(dir, lines) - dir.seq |->
       ChangeOf(lines[dir.seq + n + 1 - lines[1].seq])]

(* Sequence numbers of the log are positive and consecutive. *)
Consecutive(lines) ==
  \A i \in 1 .. Len(lines) :
    /\ lines[i].seq > 0
    /\ lines[i].seq = lines[1].seq + i - 1

(* No record is missing between the checkpoint and the log, and the log     *)
(* reaches at least as far as the checkpoint.                               *)
Gapless(dir, lines) ==
  lines # << >> => lines[1].seq <= dir.seq + 1 /\ dir.seq <= LineSeq(lines)

(* The last sequence number of a log is a number. *)
LEMMA LineSeqType ==
  ASSUME NEW lines \in Seq(Line)
  PROVE  LineSeq(lines) \in Nat
<1>1. CASE lines = << >>
  BY <1>1 DEF LineSeq
<1>2. CASE lines # << >>
  <2>1. Len(lines) \in 1 .. Len(lines)
    BY <1>2, EmptySeq
  <2>2. lines[Len(lines)] \in Line
    BY <2>1, ElementOfSeq
  <2> QED BY <1>2, <2>2 DEF LineSeq, Line
<1> QED BY <1>1, <1>2

(* Length, elements and type of a rebuilt content. *)
LEMMA RebuiltProperties ==
  ASSUME NEW dir \in Dir, NEW lines \in Seq(Line),
         Consecutive(lines), Gapless(dir, lines)
  PROVE  /\ TopSeq(dir, lines) \in Nat
         /\ TopSeq(dir, lines) >= dir.seq
         /\ Rebuilt(dir, lines) \in Content
         /\ Len(Rebuilt(dir, lines)) =
              Len(dir.content) + (TopSeq(dir, lines) - dir.seq)
         /\ \A i \in 1 .. Len(dir.content) :
              Rebuilt(dir, lines)[i] = dir.content[i]
         /\ \A n \in 1 .. TopSeq(dir, lines) - dir.seq :
              /\ dir.seq + n + 1 - lines[1].seq \in 1 .. Len(lines)
              /\ Rebuilt(dir, lines)[Len(dir.content) + n] =
                   ChangeOf(lines[dir.seq + n + 1 - lines[1].seq])
<1> DEFINE top == TopSeq(dir, lines)
           suffix == [n \in 1 .. top - dir.seq |->
                        ChangeOf(lines[dir.seq + n + 1 - lines[1].seq])]
<1>1. /\ dir.seq \in Nat
      /\ dir.content \in Seq(Change)
  BY DEF Dir, Content
<1>2. ASSUME lines # << >>
      PROVE  /\ Len(lines) \in Nat \ {0}
             /\ lines[1].seq \in Nat
             /\ LineSeq(lines) = lines[1].seq + Len(lines) - 1
  <2>1. Len(lines) \in Nat \ {0}
    BY <1>2, EmptySeq
  <2>2. 1 \in 1 .. Len(lines) /\ Len(lines) \in 1 .. Len(lines)
    BY <2>1
  <2>3. lines[1] \in Line
    BY <2>2, ElementOfSeq
  <2> QED BY <1>2, <2>1, <2>2, <2>3 DEF LineSeq, Consecutive, Line
<1>3. top \in Nat /\ top >= dir.seq
  <2>1. LineSeq(lines) \in Nat
    BY LineSeqType
  <2> QED BY <2>1, <1>1 DEF TopSeq
<1>4. ASSUME NEW n \in 1 .. top - dir.seq
      PROVE  dir.seq + n + 1 - lines[1].seq \in 1 .. Len(lines)
  <2>1. LineSeq(lines) > dir.seq
    BY <1>1, <1>3, <1>4 DEF TopSeq
  <2>2. lines # << >>
    BY <2>1, <1>1 DEF LineSeq
  <2>3. top = lines[1].seq + Len(lines) - 1
    BY <2>1, <2>2, <1>2 DEF TopSeq
  <2>4. /\ lines[1].seq \in Nat /\ Len(lines) \in Nat
        /\ lines[1].seq <= dir.seq + 1
    BY <2>2, <1>2 DEF Gapless
  <2> HIDE DEF top
  <2> QED BY <2>3, <2>4, <1>1, <1>3, <1>4, SMTT(60)
<1>5. suffix \in Seq(Change) /\ Len(suffix) = top - dir.seq
  <2>1. \A n \in 1 .. top - dir.seq :
          ChangeOf(lines[dir.seq + n + 1 - lines[1].seq]) \in Change
    <3> TAKE n \in 1 .. top - dir.seq
    <3>1. lines[dir.seq + n + 1 - lines[1].seq] \in Line
      BY <1>4, ElementOfSeq
    <3> QED BY <3>1 DEF ChangeOf, Change, Line
  <2>2. top - dir.seq \in Nat
    BY <1>1, <1>3
  <2>3. suffix \in [1 .. top - dir.seq -> Change]
    BY <2>1
  <2>4. suffix \in Seq(Change)
    BY <2>2, <2>3, SeqDef
  <2>5. DOMAIN suffix = 1 .. top - dir.seq
    BY <2>3
  <2> HIDE DEF suffix, top
  <2>6. 1 .. Len(suffix) = 1 .. top - dir.seq /\ Len(suffix) \in Nat
    BY <2>4, <2>5, LenProperties
  <2>7. Len(suffix) = top - dir.seq
    BY <2>2, <2>6
  <2> QED BY <2>4, <2>7
<1>6. Rebuilt(dir, lines) = dir.content \o suffix
  BY DEF Rebuilt
<1> HIDE DEF suffix, top
<1>7. /\ Rebuilt(dir, lines) \in Seq(Change)
      /\ Len(Rebuilt(dir, lines)) = Len(dir.content) + (top - dir.seq)
      /\ \A i \in 1 .. Len(dir.content) + (top - dir.seq) :
           Rebuilt(dir, lines)[i] =
             IF i <= Len(dir.content) THEN dir.content[i]
             ELSE suffix[i - Len(dir.content)]
  <2>1. /\ dir.content \o suffix \in Seq(Change)
        /\ Len(dir.content \o suffix) = Len(dir.content) + Len(suffix)
        /\ \A i \in 1 .. Len(dir.content) + Len(suffix) :
             (dir.content \o suffix)[i] =
               IF i <= Len(dir.content) THEN dir.content[i]
               ELSE suffix[i - Len(dir.content)]
    BY <1>1, <1>5, ConcatProperties
  <2> QED BY <2>1, <1>5, <1>6
<1>8. \A i \in 1 .. Len(dir.content) : Rebuilt(dir, lines)[i] = dir.content[i]
  BY <1>1, <1>3, <1>7, LenProperties
<1>9. ASSUME NEW n \in 1 .. top - dir.seq
      PROVE  Rebuilt(dir, lines)[Len(dir.content) + n] = suffix[n]
  BY <1>1, <1>3, <1>7, LenProperties
<1> QED
  <2>1. \A n \in 1 .. top - dir.seq :
          Rebuilt(dir, lines)[Len(dir.content) + n] =
            ChangeOf(lines[dir.seq + n + 1 - lines[1].seq])
    BY <1>9 DEF suffix
  <2> QED BY <2>1, <1>3, <1>4, <1>7, <1>8 DEF top, Content

(* A log that the checkpoint covers adds nothing to it. *)
LEMMA RebuiltCovered ==
  ASSUME NEW dir \in Dir, NEW lines \in Seq(Line),
         Consecutive(lines), Gapless(dir, lines), LineSeq(lines) <= dir.seq
  PROVE  /\ TopSeq(dir, lines) = dir.seq
         /\ Rebuilt(dir, lines) = dir.content
<1>1. /\ dir.seq \in Nat
      /\ dir.content \in Seq(Change)
  BY DEF Dir, Content
<1>2. TopSeq(dir, lines) = dir.seq
  <2>1. CASE lines = << >>
    BY <2>1, <1>1 DEF TopSeq, LineSeq
  <2>2. CASE lines # << >>
    BY <2>2, <1>1, LineSeqType DEF TopSeq, Gapless
  <2> QED BY <2>1, <2>2
<1>3. Len(Rebuilt(dir, lines)) = Len(dir.content)
  BY <1>1, <1>2, RebuiltProperties, LenProperties
<1> QED
  BY <1>1, <1>2, <1>3, RebuiltProperties, SeqEqual DEF Content

(* The arithmetic of one more record on top of a checkpoint: with c changes in *)
(* the checkpoint, numbered up to s, and a log up to t.                       *)
LEMMA OneLonger ==
  ASSUME NEW c \in Nat, NEW s \in Nat, NEW t \in Nat, t >= s
  PROVE  /\ (c + (t - s)) + 1 = c + ((t + 1) - s)
         /\ t - s \in Nat
  OBVIOUS

(* Where the newest record of a log lies: the first record has number f, there *)
(* are l of them before it, and its own number is t + 1.                      *)
LEMMA NewestLine ==
  ASSUME NEW s \in Nat, NEW t \in Nat, NEW f \in Nat, NEW l \in Nat,
         f + l = t + 1
  PROVE  s + ((t + 1) - s) + 1 - f = l + 1
  OBVIOUS

(* Appending the next record appends its change. *)
LEMMA RebuiltAppend ==
  ASSUME NEW dir \in Dir, NEW lines \in Seq(Line), NEW record \in Line,
         Consecutive(lines), Gapless(dir, lines),
         record.seq = TopSeq(dir, lines) + 1
  PROVE  /\ Append(lines, record) \in Seq(Line)
         /\ Consecutive(Append(lines, record))
         /\ Gapless(dir, Append(lines, record))
         /\ TopSeq(dir, Append(lines, record)) = record.seq
         /\ Rebuilt(dir, Append(lines, record)) =
              Append(Rebuilt(dir, lines), ChangeOf(record))
<1> DEFINE more == Append(lines, record)
           top == TopSeq(dir, lines)
<1>1. /\ dir.seq \in Nat
      /\ dir.content \in Seq(Change) /\ Len(dir.content) \in Nat
      /\ top \in Nat /\ top >= dir.seq
  BY RebuiltProperties, LenProperties DEF Dir, Content
<1>2. /\ more \in Seq(Line)
      /\ Len(more) = Len(lines) + 1 /\ Len(lines) \in Nat
      /\ \A i \in 1 .. Len(lines) : more[i] = lines[i]
      /\ more[Len(lines) + 1] = record
      /\ more # << >>
  BY AppendProperties, LenProperties, EmptySeq
<1>3. LineSeq(more) = record.seq
  BY <1>2 DEF LineSeq
<1>14. record.seq = top + 1
  OBVIOUS
<1> HIDE DEF more, top
<1>4. ASSUME lines # << >>
      PROVE  /\ top = LineSeq(lines)
             /\ LineSeq(lines) = lines[1].seq + Len(lines) - 1
             /\ lines[1].seq \in Nat /\ Len(lines) >= 1
  <2>1. Len(lines) \in Nat \ {0}
    BY <1>4, EmptySeq
  <2>2. 1 \in 1 .. Len(lines) /\ Len(lines) \in 1 .. Len(lines)
    BY <2>1
  <2>3. lines[1] \in Line
    BY <2>2, ElementOfSeq
  <2>4. top = LineSeq(lines)
    BY <1>4, <1>1, LineSeqType DEF TopSeq, Gapless, top
  <2> QED BY <1>4, <2>1, <2>2, <2>3, <2>4 DEF LineSeq, Consecutive, Line
<1>5. lines = << >> => top = dir.seq
  BY <1>1 DEF TopSeq, LineSeq, top
<1>6. Consecutive(more)
  <2>1. CASE lines = << >>
    <3>1. Len(lines) = 0
      BY <2>1
    <3>2. \A i \in 1 .. Len(more) : i = 1 /\ more[i] = record
      BY <3>1, <1>2
    <3> QED BY <3>1, <3>2, <1>1, <1>2, <1>14 DEF Consecutive
  <2>2. CASE lines # << >>
    <3>1. more[1] = lines[1]
      BY <2>2, <1>2, <1>4
    <3>2. ASSUME NEW i \in 1 .. Len(lines)
          PROVE  more[i].seq > 0 /\ more[i].seq = more[1].seq + i - 1
      BY <3>1, <1>2 DEF Consecutive
    <3>3. /\ more[Len(lines) + 1].seq > 0
          /\ more[Len(lines) + 1].seq = more[1].seq + Len(lines)
      BY <2>2, <3>1, <1>1, <1>2, <1>4, <1>14
    <3>4. ASSUME NEW i \in 1 .. Len(more)
          PROVE  more[i].seq > 0 /\ more[i].seq = more[1].seq + i - 1
      <4>1. CASE i = Len(lines) + 1
        BY <4>1, <2>2, <3>1, <3>3, <1>2, <1>4
      <4>2. CASE i # Len(lines) + 1
        BY <4>2, <3>2, <1>2
      <4> QED BY <4>1, <4>2
    <3> QED BY <3>4 DEF Consecutive
  <2> QED BY <2>1, <2>2
<1>7. Gapless(dir, more)
  <2>1. CASE lines = << >>
    BY <2>1, <1>1, <1>2, <1>3, <1>5, <1>14 DEF Gapless
  <2>2. CASE lines # << >>
    BY <2>2, <1>1, <1>2, <1>3, <1>4, <1>14 DEF Gapless
  <2> QED BY <2>1, <2>2
<1>8. TopSeq(dir, more) = top + 1
  BY <1>1, <1>3, <1>14 DEF TopSeq
<1> DEFINE before == Rebuilt(dir, lines)
           after == Rebuilt(dir, more)
<1>15. /\ before \in Seq(Change)
       /\ Len(before) = Len(dir.content) + (top - dir.seq)
       /\ \A i \in 1 .. Len(dir.content) : before[i] = dir.content[i]
       /\ \A n \in 1 .. top - dir.seq :
            /\ dir.seq + n + 1 - lines[1].seq \in 1 .. Len(lines)
            /\ before[Len(dir.content) + n] =
                 ChangeOf(lines[dir.seq + n + 1 - lines[1].seq])
  BY RebuiltProperties DEF Content, top
<1>16. /\ after \in Seq(Change)
       /\ Len(after) = Len(dir.content) + (TopSeq(dir, more) - dir.seq)
       /\ \A i \in 1 .. Len(dir.content) : after[i] = dir.content[i]
       /\ \A n \in 1 .. TopSeq(dir, more) - dir.seq :
            after[Len(dir.content) + n] =
              ChangeOf(more[dir.seq + n + 1 - more[1].seq])
  BY <1>2, <1>6, <1>7, RebuiltProperties DEF Content
<1> HIDE DEF before, after
<1>17. /\ before \in Seq(Change) /\ after \in Seq(Change)
       /\ Len(before) = Len(dir.content) + (top - dir.seq)
       /\ Len(after) = Len(dir.content) + (TopSeq(dir, more) - dir.seq)
  BY <1>15, <1>16, Zenon
<1>18. Len(after) = Len(dir.content) + ((top + 1) - dir.seq)
  BY <1>8, <1>17, Zenon
<1>19. /\ (Len(dir.content) + (top - dir.seq)) + 1 =
            Len(dir.content) + ((top + 1) - dir.seq)
       /\ top - dir.seq \in Nat
  BY <1>1, OneLonger, Zenon
<1>20. Len(before) + 1 = Len(dir.content) + ((top + 1) - dir.seq)
  BY <1>17, <1>19, Zenon
<1>9. /\ before \in Seq(Change) /\ after \in Seq(Change)
      /\ Len(before) = Len(dir.content) + (top - dir.seq)
      /\ Len(after) = Len(before) + 1
  BY <1>17, <1>18, <1>20, Zenon
<1>10. ChangeOf(record) \in Change
  BY DEF ChangeOf, Change, Line
<1>11. ASSUME NEW i \in 1 .. Len(before)
       PROVE  after[i] = before[i]
  <2>1. CASE i <= Len(dir.content)
    BY <2>1, <1>1, <1>9, <1>15, <1>16
  <2>2. CASE i > Len(dir.content)
    <3> DEFINE n == i - Len(dir.content)
    <3>1. n \in 1 .. top - dir.seq /\ i = Len(dir.content) + n
      BY <2>2, <1>1, <1>9
    <3>2. lines # << >>
      BY <3>1, <1>1, <1>5
    <3>3. more[1] = lines[1]
      BY <3>2, <1>2, <1>4
    <3>4. /\ before[i] = ChangeOf(lines[dir.seq + n + 1 - lines[1].seq])
          /\ dir.seq + n + 1 - lines[1].seq \in 1 .. Len(lines)
      BY <3>1, <1>15
    <3>5. n \in 1 .. TopSeq(dir, more) - dir.seq
      BY <3>1, <1>1, <1>8
    <3>6. after[i] = ChangeOf(more[dir.seq + n + 1 - more[1].seq])
      BY <3>1, <3>5, <1>16
    <3> QED BY <3>3, <3>4, <3>6, <1>2
  <2> QED BY <2>1, <2>2, <1>1, <1>9
<1>12. after[Len(before) + 1] = ChangeOf(record)
  <2> DEFINE n == (top + 1) - dir.seq
  <2>1. n \in 1 .. TopSeq(dir, more) - dir.seq
    BY <1>1, <1>8
  <2>2. Len(before) + 1 = Len(dir.content) + n
    BY <1>20, Zenon
  <2>3. after[Len(before) + 1] = ChangeOf(more[dir.seq + n + 1 - more[1].seq])
    BY <2>1, <2>2, <1>16
  <2>4. more[1].seq \in Nat /\ more[1].seq + Len(lines) = top + 1
    <3>1. CASE lines = << >>
      <4>1. Len(lines) = 0
        BY <3>1
      <4>2. more[1] = record
        BY <4>1, <1>2
      <4> QED BY <4>1, <4>2, <1>1, <1>14
    <3>2. CASE lines # << >>
      <4>1. more[1] = lines[1]
        BY <3>2, <1>2, <1>4
      <4>2. /\ lines[1].seq \in Nat
            /\ top = lines[1].seq + Len(lines) - 1
        BY <3>2, <1>4, Zenon
      <4>3. lines[1].seq + Len(lines) = top + 1
        BY <4>2, <1>2
      <4> QED BY <4>1, <4>2, <4>3, Zenon
    <3> QED BY <3>1, <3>2, Zenon
  <2>5. dir.seq + n + 1 - more[1].seq = Len(lines) + 1
    <3>1. /\ dir.seq \in Nat /\ top \in Nat /\ Len(lines) \in Nat
      BY <1>1, <1>2, Zenon
    <3> QED BY <3>1, <2>4, NewestLine
  <2> QED BY <2>3, <2>5, <1>2
<1>13. after = Append(before, ChangeOf(record))
  <2>1. /\ Append(before, ChangeOf(record)) \in Seq(Change)
        /\ Len(Append(before, ChangeOf(record))) = Len(before) + 1
        /\ \A i \in 1 .. Len(before) :
             Append(before, ChangeOf(record))[i] = before[i]
        /\ Append(before, ChangeOf(record))[Len(before) + 1] =
             ChangeOf(record)
    BY <1>9, <1>10, AppendProperties
  <2>2. Len(before) \in Nat
    BY <1>9, LenProperties
  <2>3. \A i \in 1 .. Len(after) :
          after[i] = Append(before, ChangeOf(record))[i]
    BY <2>1, <2>2, <1>9, <1>11, <1>12
  <2> QED BY <2>1, <2>3, <1>9, SeqEqual
<1> QED
  BY <1>2, <1>6, <1>7, <1>8, <1>13, <1>14 DEF more, top, before, after

-----------------------------------------------------------------------------
(* Type correctness.                                                        *)

File == [lines : Seq(Line), tail : Seq(Line)]

(* Reading a log yields records; writing one yields a log.                  *)
LEMMA FileTypes ==
  ASSUME NEW f \in File, NEW line \in Line
  PROVE  /\ Junk \in Line
         /\ AllLines(f) \in Seq(Line)
         /\ Records(f) \in Seq(Line)
         /\ LastSeq(f) \in Nat
         /\ Terminated(f, line) \in File
         /\ Unterminated(f, line) \in File
         /\ Rewritten(f) \in File
<1>1. Junk \in Line
  BY DEF Junk, Line
<1>2. f.lines \in Seq(Line) /\ f.tail \in Seq(Line)
  BY DEF File
<1>3. AllLines(f) \in Seq(Line)
  BY <1>2, ConcatProperties DEF AllLines
<1>4. Records(f) \in Seq(Line)
  <2>1. CASE ~EndsInJunk(f)
    BY <1>3, <2>1 DEF Records
  <2>2. CASE EndsInJunk(f)
    <3>1. Len(AllLines(f)) \in Nat
      BY <1>3, LenProperties
    <3>2. \A i \in 1 .. Len(AllLines(f)) - 1 : AllLines(f)[i] \in Line
      BY <3>1, <1>3, ElementOfSeq
    <3>3. SubSeq(AllLines(f), 1, Len(AllLines(f)) - 1) \in Seq(Line)
      BY <3>1, <3>2, SubSeqProperties
    <3> QED BY <2>2, <3>3 DEF Records
  <2> QED BY <2>1, <2>2
<1>5. LastSeq(f) \in Nat
  <2>1. CASE Records(f) = << >>
    BY <2>1 DEF LastSeq
  <2>2. CASE Records(f) # << >>
    <3>1. Len(Records(f)) \in 1 .. Len(Records(f))
      BY <1>4, <2>2, EmptySeq
    <3>2. Records(f)[Len(Records(f))] \in Line
      BY <1>4, <3>1, ElementOfSeq
    <3> QED BY <2>2, <3>2 DEF LastSeq, Line
  <2> QED BY <2>1, <2>2
<1>6. Terminated(f, line) \in File
  <2>1. Append(f.lines, IF f.tail = << >> THEN line ELSE Junk) \in Seq(Line)
    BY <1>1, <1>2, AppendProperties
  <2>2. << >> \in Seq(Line)
    BY EmptySeq
  <2> QED BY <2>1, <2>2 DEF Terminated, File
<1>7. Unterminated(f, line) \in File
  <2>1. (IF f.tail = << >> THEN << line >> ELSE << Junk >>) \in Seq(Line)
    BY <1>1
  <2> QED BY <2>1, <1>2 DEF Unterminated, File
<1>8. Rewritten(f) \in File
  BY <1>4, EmptySeq DEF Rewritten, File
<1> QED BY <1>1, <1>3, <1>4, <1>5, <1>6, <1>7, <1>8

(* The directories that appear in the machine are directories.              *)
LEMMA DirTypes ==
  /\ Absent \in Dir /\ Partial \in Dir /\ Gutted \in Dir
  /\ \A dir \in Dir : Remains(dir) \subseteq Dir
<1>1. << >> \in Content
  BY DEF Content
<1>2. Absent \in Dir /\ Partial \in Dir /\ Gutted \in Dir
  BY <1>1 DEF Absent, Partial, Gutted, Dir, DirStates
<1> QED BY <1>2 DEF Remains

(* The type invariant with the two facts its preservation needs.            *)
TypeInv ==
  /\ TypeOK
  /\ pc = "append" => mem # << >>
  /\ pc \in CheckpointSteps => nextSeq # 0

(* The operators that actions are built from have the types they should.    *)
LEMMA StateTypes ==
  ASSUME TypeInv
  PROVE  /\ log \in File
         /\ Existing \in Dir
         /\ LastOnDisk \in Nat
         /\ NextSeq \in Nat \ {0}
         /\ FileSize \in Nat
         /\ pc = "append" =>
              /\ PendingRecord \in Line
              /\ \A what \in {"nothing", "torn", "noNewline", "whole"} :
                   LogAfter(what) \in File
<1> USE DEF TypeInv, TypeOK
<1>1. log \in File
  BY DEF File
<1>2. Existing \in Dir
  BY DirTypes DEF Existing
<1>3. Existing.seq \in Nat
  BY <1>2 DEF Dir
<1>4. Junk \in Line
  BY DEF Junk, Line
<1>5. LastSeq(log) \in Nat
  BY <1>1, <1>4, FileTypes
<1>6. LastOnDisk \in Nat
  BY <1>3, <1>5 DEF LastOnDisk
<1>7. NextSeq \in Nat \ {0}
  BY <1>6 DEF NextSeq
<1>8. FileSize \in Nat
  <2>1. Len(log.lines) \in Nat /\ Len(log.tail) \in Nat
    BY <1>1, LenProperties DEF File
  <2> QED BY <2>1 DEF FileSize
<1>9. ASSUME pc = "append"
      PROVE  /\ PendingRecord \in Line
             /\ \A what \in {"nothing", "torn", "noNewline", "whole"} :
                  LogAfter(what) \in File
  <2>1. Last(mem) \in Change
    <3>1. Len(mem) \in 1 .. Len(mem)
      BY <1>9, EmptySeq DEF Content
    <3> QED BY <3>1, ElementOfSeq DEF Last, Content
  <2>2. PendingRecord \in Line
    BY <2>1, <1>7 DEF PendingRecord, Change, Line
  <2>3. \A what \in {"nothing", "torn", "noNewline", "whole"} :
          LogAfter(what) \in File
    BY <2>2, <1>1, <1>4, FileTypes DEF LogAfter
  <2> QED BY <2>2, <2>3
<1> QED BY <1>1, <1>2, <1>6, <1>7, <1>8, <1>9

(* A crash, and giving up recovery, keep the types of the volatile state.   *)
LEMMA VolatileTypes ==
  ASSUME TypeInv
  PROVE  /\ LosesMemory =>
              /\ package' \in Versions /\ rewritten' \in Rewriters /\ mem' \in Content
              /\ promised' \in Content /\ nextSeq' \in Nat
              /\ staleSize' \in Nat /\ linked' \in BOOLEAN
              /\ broken' \in BOOLEAN /\ pc' = "down" /\ reason' = "none"
              /\ pos' \in Nat /\ executed' \in Nat /\ crashes' \in Nat
              /\ errors' \in Nat
         /\ Refuse =>
              /\ package' \in Versions /\ rewritten' \in Rewriters /\ mem' \in Content
              /\ promised' \in Content /\ nextSeq' \in Nat
              /\ staleSize' \in Nat /\ linked' \in BOOLEAN
              /\ broken' \in BOOLEAN /\ pc' = "refused"
              /\ reason' \in {"none", "auto", "command", "save"}
              /\ pos' \in Nat /\ executed' \in Nat /\ crashes' \in Nat
<1>1. << >> \in Content
  BY EmptySeq DEF Content
<1>2. ASSUME LosesMemory
      PROVE  /\ package' \in Versions /\ rewritten' \in Rewriters /\ mem' \in Content
             /\ promised' \in Content /\ nextSeq' \in Nat
             /\ staleSize' \in Nat /\ linked' \in BOOLEAN
             /\ broken' \in BOOLEAN /\ pc' = "down" /\ reason' = "none"
             /\ pos' \in Nat /\ executed' \in Nat /\ crashes' \in Nat
             /\ errors' \in Nat
  <2>1. /\ mem' = << >> /\ nextSeq' = 0 /\ linked' = TRUE /\ staleSize' = 0
        /\ broken' = FALSE /\ pc' = "down" /\ reason' = "none" /\ pos' = 0
        /\ crashes' = crashes + 1
        /\ rewritten' = CutSave
        /\ UNCHANGED << package, executed, promised, errors >>
    BY <1>2 DEF LosesMemory
  <2>2. /\ package \in Versions /\ executed \in Nat /\ promised \in Content
        /\ errors \in Nat /\ crashes \in Nat /\ CutSave \in Rewriters
    BY DEF TypeInv, TypeOK, CutSave, Rewriters
  <2>3. linked' \in BOOLEAN /\ broken' \in BOOLEAN
    BY <2>1, Zenon
  <2>4. crashes' \in Nat /\ nextSeq' \in Nat /\ staleSize' \in Nat
        /\ pos' \in Nat /\ executed' \in Nat /\ errors' \in Nat
    BY <2>1, <2>2
  <2> QED BY <1>1, <2>1, <2>2, <2>3, <2>4, Zenon
<1>3. ASSUME Refuse
      PROVE  /\ package' \in Versions /\ rewritten' \in Rewriters /\ mem' \in Content
             /\ promised' \in Content /\ nextSeq' \in Nat
             /\ staleSize' \in Nat /\ linked' \in BOOLEAN
             /\ broken' \in BOOLEAN /\ pc' = "refused"
             /\ reason' \in {"none", "auto", "command", "save"}
             /\ pos' \in Nat /\ executed' \in Nat /\ crashes' \in Nat
  BY <1>1, <1>3 DEF TypeInv, TypeOK, Refuse, external
<1> QED BY <1>2, <1>3

LEMMA TypeStep == TypeInv /\ [Next]_vars => TypeInv'
<1> SUFFICES ASSUME TypeInv, [Next]_vars
             PROVE  TypeInv'
  OBVIOUS
<1> USE DEF disk, handle, external, counters, File
<1>1. /\ log \in File /\ Existing \in Dir /\ LastOnDisk \in Nat
      /\ NextSeq \in Nat \ {0} /\ FileSize \in Nat
      /\ Junk \in Line /\ EmptyFile \in File
  BY StateTypes, EmptySeq DEF Junk, Line, EmptyFile
<1>2. CASE UNCHANGED vars
  BY <1>2 DEF TypeInv, TypeOK, vars
<1>3. CASE Execute
  <2>1. ASSUME NEW ver \in {0, package},
               mem' = Append(mem, [id |-> executed + 1, ver |-> ver])
        PROVE  mem' \in Content /\ mem' # << >>
    <3>1. [id |-> executed + 1, ver |-> ver] \in Change
      BY DEF TypeInv, TypeOK, Change, Versions
    <3>2. mem \in Seq(Change)
      BY DEF TypeInv, TypeOK, Content
    <3> QED BY <2>1, <3>1, <3>2, AppendProperties DEF Content
  <2>2. mem' \in Content /\ mem' # << >>
    BY <1>3, <2>1 DEF Execute
  <2> QED BY <1>3, <2>2 DEF TypeInv, TypeOK, Execute, CheckpointSteps
<1>4. CASE AppendRecord
  <2>1. log' \in File
    BY <1>4, StateTypes DEF AppendRecord
  <2>2. nextSeq' \in Nat \ {0} /\ staleSize' \in Nat
    BY <1>1, <1>4 DEF AppendRecord, TypeInv, TypeOK
  <2> QED BY <1>4, <2>1, <2>2 DEF TypeInv, TypeOK, AppendRecord,
          CheckpointSteps
<1>5. CASE AppendFails
  <2>1. log' \in File
    BY <1>5, StateTypes DEF AppendFails
  <2> QED BY <1>1, <1>5, <2>1 DEF TypeInv, TypeOK, AppendFails,
          CheckpointSteps
<1>6. CASE CheckpointCommand
  BY <1>1, <1>6 DEF TypeInv, TypeOK, CheckpointCommand, StartCheckpoint,
     CheckpointSteps
<1>7. CASE Save
  BY <1>1, <1>7 DEF TypeInv, TypeOK, Save, StartCheckpoint, CheckpointSteps,
     Rewriters
<1>8. CASE ClearTmp
  BY <1>8, DirTypes DEF TypeInv, TypeOK, ClearTmp, CheckpointSteps
<1>9. CASE WriteBuffers
  BY <1>9, DirTypes DEF TypeInv, TypeOK, WriteBuffers, CheckpointSteps
<1>10. CASE WriteManifest
  <2>1. tmp' \in Dir
    BY <1>10 DEF TypeInv, TypeOK, WriteManifest, CheckpointSteps, Dir,
       DirStates
  <2> QED BY <1>10, <2>1 DEF TypeInv, TypeOK, WriteManifest, CheckpointSteps
<1>11. CASE RemoveOld
  BY <1>11, DirTypes DEF TypeInv, TypeOK, RemoveOld, CheckpointSteps
<1>12. CASE ReplaceOnlyCheckpoint
  BY <1>12, DirTypes DEF TypeInv, TypeOK, ReplaceOnlyCheckpoint,
     CheckpointSteps, Rewriters
<1>13. CASE Rotate
  BY <1>13, DirTypes DEF TypeInv, TypeOK, Rotate, CheckpointSteps
<1>14. CASE Install
  BY <1>14, DirTypes DEF TypeInv, TypeOK, Install, CheckpointSteps, Rewriters
<1>15. CASE DropOld
  <2>1. old' \in Dir
    BY <1>15, DirTypes DEF TypeInv, TypeOK, DropOld
  <2> QED BY <1>15, <2>1 DEF TypeInv, TypeOK, DropOld, CheckpointSteps
<1>16. CASE TruncateLog
  BY <1>1, <1>16 DEF TypeInv, TypeOK, TruncateLog, CheckpointSteps
<1>17. CASE ReopenLog
  BY <1>17 DEF TypeInv, TypeOK, ReopenLog, CheckpointSteps
<1>18. CASE CheckpointFails
  <2>1. old' \in Dir
    BY <1>18, DirTypes DEF TypeInv, TypeOK, CheckpointFails
  <2>2. CutSave \in Rewriters
    BY DEF TypeInv, TypeOK, CutSave, Rewriters
  <2> QED BY <1>18, <2>1, <2>2 DEF TypeInv, TypeOK, CheckpointFails,
          CheckpointSteps
<1>19. CASE Crash
  <2>1. log' \in File
    <3>1. PICK what \in {"nothing", "torn", "noNewline", "whole"} :
            log' = LogAfter(what) /\ (pc # "append" => what = "nothing")
      BY <1>19 DEF Crash
    <3>2. CASE pc = "append"
      BY <3>1, <3>2, StateTypes
    <3>3. CASE pc # "append"
      BY <1>1, <3>1, <3>3 DEF LogAfter
    <3> QED BY <3>2, <3>3
  <2>2. old' \in Dir /\ current' \in Dir
    BY <1>19, DirTypes DEF TypeInv, TypeOK, Crash, Survives
  <2>3. UNCHANGED tmp /\ LosesMemory
    BY <1>19 DEF Crash
  <2> QED BY <2>1, <2>2, <2>3, VolatileTypes DEF TypeInv, TypeOK,
          CheckpointSteps
<1>21. CASE ExternalEdit
  BY <1>21 DEF TypeInv, TypeOK, ExternalEdit, Rewriters
<1>22. CASE Restore
  <2>1. CASE Refuse /\ UNCHANGED << disk, errors >>
    BY <2>1, VolatileTypes DEF TypeInv, TypeOK, CheckpointSteps
  <2>2. CASE ~Refuse
    <3>1. Existing.content \in Content
      BY <1>1 DEF Dir
    <3> QED BY <1>22, <2>2, <3>1 DEF TypeInv, TypeOK, Restore,
            CheckpointSteps
  <2> QED BY <1>22, <2>1, <2>2 DEF Restore
<1>23. CASE ReadLog
  <2>1. CASE Refuse /\ UNCHANGED << disk, errors >>
    BY <2>1, VolatileTypes DEF TypeInv, TypeOK, CheckpointSteps
  <2>2. CASE ~Refuse
    <3>1. log' \in File
      BY <1>1, <1>23, <2>2, FileTypes DEF ReadLog
    <3> QED BY <1>23, <2>2, <3>1 DEF TypeInv, TypeOK, ReadLog,
            CheckpointSteps
  <2> QED BY <1>23, <2>1, <2>2 DEF ReadLog, Refuse
<1>24. CASE ReplayRecord
  <2>1. CASE Refuse /\ UNCHANGED << disk, errors >>
    BY <2>1, VolatileTypes DEF TypeInv, TypeOK, CheckpointSteps
  <2>2. CASE ~Refuse
    <3>1. Records(log)[pos + 1] \in Line
      <4>1. Records(log) \in Seq(Line)
        BY <1>1, FileTypes
      <4>2. pos + 1 \in 1 .. Len(Records(log))
        BY <1>24, <4>1, LenProperties DEF ReplayRecord, TypeInv, TypeOK
      <4> QED BY <4>1, <4>2, ElementOfSeq
    <3>2. ChangeOf(Records(log)[pos + 1]) \in Change
      BY <3>1 DEF ChangeOf, Change, Line
    <3>3. Append(mem, ChangeOf(Records(log)[pos + 1])) \in Content
      BY <3>2, AppendProperties DEF TypeInv, TypeOK, Content
    <3>4. mem' \in Content /\ pos' \in Nat
      <4>1. mem' \in {mem, Append(mem, ChangeOf(Records(log)[pos + 1]))}
        BY <1>24, <2>2 DEF ReplayRecord, FileChanged
      <4>2. pos' = pos + 1
        BY <1>24, <2>2 DEF ReplayRecord
      <4>3. mem \in Content /\ pos \in Nat
        BY DEF TypeInv, TypeOK
      <4>4. mem' \in Content
        BY <4>1, <4>3, <3>3, Zenon
      <4> QED BY <4>2, <4>3, <4>4
    <3>5. /\ UNCHANGED << disk, external, handle, pc, reason, executed,
                          promised, crashes, errors >>
          /\ pc = "replay"
      BY <1>24, <2>2 DEF ReplayRecord
    <3> QED BY <3>4, <3>5 DEF TypeInv, TypeOK, CheckpointSteps
  <2> QED BY <1>24, <2>1, <2>2 DEF ReplayRecord
<1>25. CASE FinishRecovery
  BY <1>1, <1>25 DEF TypeInv, TypeOK, FinishRecovery, CheckpointSteps
<1>26. CASE RecoveryFails
  <2>1. Refuse /\ UNCHANGED disk /\ errors' \in Nat
    BY <1>26 DEF RecoveryFails, TypeInv, TypeOK
  <2> QED BY <2>1, VolatileTypes DEF TypeInv, TypeOK, CheckpointSteps
<1>27. CASE Restart
  BY <1>27 DEF TypeInv, TypeOK, Restart, CheckpointSteps
<1> QED
  BY <1>2, <1>3, <1>4, <1>5, <1>6, <1>7, <1>8, <1>9, <1>10, <1>11, <1>12,
     <1>13, <1>14, <1>15, <1>16, <1>17, <1>18, <1>19, <1>21, <1>22, <1>23,
     <1>24, <1>25, <1>26, <1>27 DEF Next, EngineStep

(* Every state has the types the code's structures have, whatever faults    *)
(* the environment shows.  In particular `next_seq - 1`, an unsigned        *)
(* subtraction in Wal::last_seq, never underflows.                          *)
THEOREM TypeCorrect == Spec => []TypeOK
<1>1. Init => TypeInv
  <2> SUFFICES ASSUME Init PROVE TypeInv
    OBVIOUS
  <2>1. EmptyFile \in File
    BY EmptySeq DEF EmptyFile, File
  <2>2. 1 \in Versions
    BY BoundsAssumption DEF Versions
  <2>3. << >> \in Content
    BY EmptySeq DEF Content
  <2> QED BY <2>1, <2>2, <2>3, DirTypes DEF Init, TypeInv, TypeOK, File,
          CheckpointSteps, Rewriters
<1>2. TypeInv => TypeOK
  BY DEF TypeInv
<1> QED BY <1>1, <1>2, TypeStep, PTL DEF Spec

-----------------------------------------------------------------------------
(***************************************************************************)
(* The safety invariants of module Durability, for every bound on          *)
(* statements, crashes, errors and versions, in the environment of Sane:   *)
(* the process may die between any two file operations, any file operation *)
(* may fail and the loaded files may be edited, but no other event of      *)
(* FaultNames occurs. Each of those breaks some of what follows: a record  *)
(* left behind by a failed append (run WalFailedSync), an interrupted swap *)
(* over the only checkpoint (run WalSwapOverOld), a power loss.            *)
(***************************************************************************)

(* The inductive invariant, in parts.                                       *)

Disk == Rebuilt(Existing, log.lines)

(* wal.log has at most one line that does not parse, the last one, and only *)
(* where an append failed or the process died.                              *)
LogShape ==
  /\ log.tail \in {<< >>, << Junk >>}
  /\ Consecutive(log.lines)
  /\ Gapless(Existing, log.lines)
  /\ (pc = "replay" \/ (Serving /\ ~broken)) => log.tail = << >>

(* Whatever step of a swap the files are in, one of checkpoint/ and         *)
(* checkpoint.old/ is complete, or there never was a checkpoint.            *)
DirShape ==
  /\ current.state \in {"absent", "full"}
  /\ current.state = "absent" => old.state \in {"absent", "full"}
  /\ pc = "rotate" => old = Absent
  /\ pc = "install" => current.state = "absent"
  /\ pc \in {"removeOld", "rotate", "install"} =>
       tmp = [state |-> "full", seq |-> nextSeq - 1, content |-> mem]
  /\ pc \in {"dropOld", "truncate", "reopen"} =>
       current = [state |-> "full", seq |-> nextSeq - 1, content |-> mem]

(* The next sequence number is the one behind everything on disk.           *)
HandleShape ==
  /\ linked <=> pc # "reopen"
  /\ pc = "reopen" => log = EmptyFile
  /\ nextSeq # 0 => nextSeq = TopSeq(Existing, log.lines) + 1
  /\ pc \in CheckpointSteps => nextSeq # 0
  /\ ~Serving => nextSeq = 0
  /\ pc \notin {"idle"} \union CheckpointSteps => ~broken

OneAhead == mem # << >> /\ Disk = Front(mem)

(* How many changes of the log recovery has applied. *)
Replayed ==
  IF pos = 0 THEN 0
  ELSE IF log.lines[pos].seq <= Existing.seq THEN 0
  ELSE log.lines[pos].seq - Existing.seq

(* Memory and disk differ by at most the one change being logged.           *)
MemoryShape ==
  /\ pc = "append" => OneAhead
  /\ pc \in {"idle"} \union CheckpointSteps =>
       Disk = mem \/ (broken /\ OneAhead)
  /\ pc = "read" => mem = Existing.content
  /\ pc # "replay" => pos = 0
  /\ pc = "replay" =>
       /\ pos <= Len(log.lines)
       /\ Len(mem) = Len(Existing.content) + Replayed
       /\ IsPrefix(mem, Disk)
  /\ pc \in {"down", "refused"} => mem = << >>

(* Statements are applied in the order of their execution, once each.       *)
Ordered(content) ==
  \A i \in 1 .. Len(content) :
    /\ content[i].id <= executed
    /\ \A j \in 1 .. Len(content) : i < j => content[i].id < content[j].id

History ==
  /\ IsPrefix(promised, Disk)
  /\ Ordered(mem)
  /\ Ordered(Disk)

IInv ==
  /\ TypeOK
  /\ LogShape
  /\ DirShape
  /\ HandleShape
  /\ MemoryShape
  /\ History

-----------------------------------------------------------------------------
(* Consequences of the invariant that every step uses.                      *)

Sane == Faults \subseteq {"externalEdit"}

(* A log whose only unparsable line is an unterminated last one reads as    *)
(* its terminated lines.                                                    *)
LEMMA CleanFile ==
  ASSUME NEW f \in File, f.tail \in {<< >>, << Junk >>}, Consecutive(f.lines)
  PROVE  /\ Records(f) = f.lines
         /\ EndsInJunk(f) <=> f.tail # << >>
         /\ LastSeq(f) = LineSeq(f.lines)
<1>1. f.lines \in Seq(Line) /\ Len(f.lines) \in Nat
  BY LenProperties DEF File
<1>2. CASE f.tail = << >>
  <2>1. AllLines(f) = f.lines
    BY <1>1, <1>2, ConcatEmptySeq DEF AllLines
  <2>2. ~EndsInJunk(f)
    <3>1. CASE f.lines = << >>
      BY <2>1, <3>1 DEF EndsInJunk
    <3>2. CASE f.lines # << >>
      <4>1. Len(f.lines) \in 1 .. Len(f.lines)
        BY <1>1, <3>2, EmptySeq
      <4> QED BY <2>1, <4>1 DEF EndsInJunk, Consecutive
    <3> QED BY <3>1, <3>2
  <2> QED BY <1>2, <2>1, <2>2 DEF Records, LastSeq, LineSeq
<1>3. CASE f.tail = << Junk >>
  <2> DEFINE all == AllLines(f)
  <2>1. Junk \in Line
    BY DEF Junk, Line
  <2>2. /\ all \in Seq(Line)
        /\ Len(all) = Len(f.lines) + 1
        /\ \A i \in 1 .. Len(f.lines) : all[i] = f.lines[i]
        /\ all[Len(f.lines) + 1] = Junk
    <3>1. all = Append(f.lines, Junk)
      BY <1>1, <1>3, <2>1, AppendIsConcat DEF AllLines
    <3> QED BY <3>1, <1>1, <2>1, AppendProperties
  <2>3. EndsInJunk(f)
    BY <1>1, <2>2 DEF EndsInJunk, Junk
  <2>4. SubSeq(all, 1, Len(all) - 1) = f.lines
    <3>1. \A i \in 1 .. Len(all) - 1 : all[i] \in Line
      BY <1>1, <2>2, ElementOfSeq
    <3>2. /\ SubSeq(all, 1, Len(all) - 1) \in Seq(Line)
          /\ Len(SubSeq(all, 1, Len(all) - 1)) = Len(f.lines)
          /\ \A i \in 1 .. Len(f.lines) :
               SubSeq(all, 1, Len(all) - 1)[i] = all[i]
      <4>1. Len(all) - 1 = Len(f.lines)
        BY <1>1, <2>2
      <4> HIDE DEF all
      <4>2. /\ SubSeq(all, 1, Len(f.lines)) \in Seq(Line)
            /\ Len(SubSeq(all, 1, Len(f.lines))) =
                 IF 1 <= Len(f.lines) THEN Len(f.lines) - 1 + 1 ELSE 0
            /\ \A i \in 1 .. Len(f.lines) - 1 + 1 :
                 SubSeq(all, 1, Len(f.lines))[i] = all[1 + i - 1]
        BY <1>1, <3>1, <4>1, SubSeqProperties
      <4> QED BY <1>1, <4>1, <4>2
    <3> QED BY <1>1, <2>2, <3>2, SeqEqual
  <2>5. Records(f) = f.lines
    BY <2>3, <2>4 DEF Records
  <2> QED BY <1>3, <2>3, <2>5 DEF LastSeq, LineSeq
<1> QED BY <1>2, <1>3

(* In a state of the invariant the operators of the code's reading agree    *)
(* with those of the proof.                                                 *)
LEMMA CleanState ==
  ASSUME IInv
  PROVE  /\ TypeInv
         /\ log \in File /\ log.lines \in Seq(Line) /\ Existing \in Dir
         /\ Existing.seq \in Nat
         /\ Existing.content \in Seq(Change)
         /\ Records(log) = log.lines
         /\ EndsInJunk(log) <=> log.tail # << >>
         /\ LastOnDisk = TopSeq(Existing, log.lines)
         /\ TopSeq(Existing, log.lines) \in Nat
         /\ Disk \in Seq(Change) /\ mem \in Seq(Change)
         /\ Serving => NextSeq = TopSeq(Existing, log.lines) + 1
         /\ DurableContent = Disk
<1>1. TypeInv
  BY DEF IInv, TypeInv, MemoryShape, OneAhead, HandleShape
<1>2. log \in File /\ Existing \in Dir
  BY <1>1, StateTypes
<1>3. /\ log.lines \in Seq(Line) /\ Existing.seq \in Nat
      /\ Existing.content \in Seq(Change)
  BY <1>2 DEF File, Dir, Content
<1>4. /\ log.tail \in {<< >>, << Junk >>} /\ Consecutive(log.lines)
      /\ Gapless(Existing, log.lines)
  BY DEF IInv, LogShape
<1>5. /\ Records(log) = log.lines
      /\ EndsInJunk(log) <=> log.tail # << >>
      /\ LastSeq(log) = LineSeq(log.lines)
  BY <1>2, <1>4, CleanFile
<1>6. LastOnDisk = TopSeq(Existing, log.lines)
  BY <1>5 DEF LastOnDisk, TopSeq
<1>7. TopSeq(Existing, log.lines) \in Nat /\ Disk \in Seq(Change)
  BY <1>2, <1>3, <1>4, RebuiltProperties DEF Disk, Content
<1>8. Serving => NextSeq = TopSeq(Existing, log.lines) + 1
  BY <1>6 DEF IInv, HandleShape, NextSeq
<1>9. DurableContent = Disk
  BY <1>5, <1>6 DEF DurableContent, Disk, Rebuilt, RecordAt
<1>10. mem \in Seq(Change)
  BY DEF IInv, TypeOK, Content
<1> QED BY <1>1, <1>2, <1>3, <1>5, <1>6, <1>7, <1>8, <1>9, <1>10

(* A step that leaves the lines of the log and the checkpoint in force      *)
(* alone leaves what a restart would rebuild alone.                         *)
LEMMA SameDisk ==
  ASSUME IInv, log'.lines = log.lines, Existing' = Existing
  PROVE  /\ Disk' = Disk
         /\ TopSeq(Existing, log.lines)' = TopSeq(Existing, log.lines)
         /\ Consecutive(log.lines)' /\ Gapless(Existing, log.lines)'
BY DEF IInv, LogShape, Disk

(* Dropping and putting back the last element of a sequence.                *)
LEMMA FrontLast ==
  ASSUME NEW S, NEW s \in Seq(S)
  PROVE  /\ \A e \in S : Front(Append(s, e)) = s /\ Last(Append(s, e)) = e
         /\ s # << >> => /\ Front(s) \in Seq(S) /\ Last(s) \in S
                         /\ Append(Front(s), Last(s)) = s
                         /\ Len(s) = Len(Front(s)) + 1
<1>1. Len(s) \in Nat
  BY LenProperties
<1>2. ASSUME NEW e \in S
      PROVE  Front(Append(s, e)) = s /\ Last(Append(s, e)) = e
  <2> DEFINE t == Append(s, e)
  <2>1. /\ t \in Seq(S) /\ Len(t) = Len(s) + 1 /\ t[Len(s) + 1] = e
        /\ \A i \in 1 .. Len(s) : t[i] = s[i]
    BY AppendProperties
  <2> HIDE DEF t
  <2>2. Last(t) = e
    BY <2>1 DEF Last
  <2>3. Front(t) = s
    <3>1. Len(t) - 1 = Len(s)
      BY <1>1, <2>1
    <3>2. \A i \in 1 .. Len(s) : t[i] \in S
      BY <2>1, ElementOfSeq
    <3>3. /\ SubSeq(t, 1, Len(s)) \in Seq(S)
          /\ Len(SubSeq(t, 1, Len(s))) =
               IF 1 <= Len(s) THEN Len(s) - 1 + 1 ELSE 0
          /\ \A i \in 1 .. Len(s) - 1 + 1 : SubSeq(t, 1, Len(s))[i] = t[1 + i - 1]
      BY <1>1, <3>2, SubSeqProperties
    <3>4. Len(SubSeq(t, 1, Len(s))) = Len(s)
      BY <1>1, <3>3
    <3>5. \A i \in 1 .. Len(s) : SubSeq(t, 1, Len(s))[i] = s[i]
      BY <1>1, <2>1, <3>3
    <3>6. SubSeq(t, 1, Len(s)) = s
      BY <3>3, <3>4, <3>5, SeqEqual
    <3> QED BY <3>1, <3>6 DEF Front
  <2> QED BY <2>2, <2>3 DEF t
<1>3. ASSUME s # << >>
      PROVE  /\ Front(s) \in Seq(S) /\ Last(s) \in S
             /\ Append(Front(s), Last(s)) = s
             /\ Len(s) = Len(Front(s)) + 1
  <2>1. Len(s) \in Nat \ {0}
    BY <1>3, EmptySeq
  <2>2. \A i \in 1 .. Len(s) - 1 : s[i] \in S
    BY <2>1, ElementOfSeq
  <2>3. /\ Front(s) \in Seq(S)
        /\ Len(Front(s)) =
             IF 1 <= Len(s) - 1 THEN (Len(s) - 1) - 1 + 1 ELSE 0
        /\ \A i \in 1 .. (Len(s) - 1) - 1 + 1 : Front(s)[i] = s[1 + i - 1]
    BY <2>1, <2>2, SubSeqProperties DEF Front
  <2>4. Len(Front(s)) = Len(s) - 1
    <3>1. CASE Len(s) = 1
      BY <2>3, <3>1
    <3>2. CASE Len(s) # 1
      <4>1. 1 <= Len(s) - 1
        BY <2>1, <3>2, Z3
      <4>2. Len(Front(s)) = (Len(s) - 1) - 1 + 1
        BY <2>3, <4>1
      <4> QED BY <2>1, <4>2
    <3> QED BY <3>1, <3>2
  <2>5. Last(s) \in S
    <3>1. Len(s) \in 1 .. Len(s)
      BY <2>1
    <3> QED BY <3>1, ElementOfSeq DEF Last
  <2> DEFINE t == Append(Front(s), Last(s))
  <2>6. /\ t \in Seq(S) /\ Len(t) = Len(Front(s)) + 1
        /\ t[Len(Front(s)) + 1] = Last(s)
        /\ \A i \in 1 .. Len(Front(s)) : t[i] = Front(s)[i]
    BY <2>3, <2>5, AppendProperties
  <2> HIDE DEF t
  <2>7. \A i \in 1 .. Len(s) : t[i] = s[i]
    <3> TAKE i \in 1 .. Len(s)
    <3>1. CASE i = Len(s)
      BY <3>1, <2>1, <2>4, <2>6 DEF Last
    <3>2. CASE i # Len(s)
      BY <3>2, <2>1, <2>3, <2>4, <2>6
    <3> QED BY <3>1, <3>2
  <2>8. Len(t) = Len(s)
    BY <2>1, <2>4, <2>6
  <2>9. t = s
    BY <2>6, <2>7, <2>8, SeqEqual
  <2> QED BY <2>1, <2>3, <2>4, <2>5, <2>9 DEF t
<1> QED BY <1>2, <1>3

(* Prefixes.                                                                *)
LEMMA PrefixOfFront ==
  ASSUME NEW S, NEW s \in Seq(S), NEW t \in Seq(S)
  PROVE  /\ IsPrefix(s, s)
         /\ t # << >> /\ IsPrefix(s, Front(t)) => IsPrefix(s, t)
<1>1. Len(s) \in Nat /\ Len(t) \in Nat
  BY LenProperties
<1>2. IsPrefix(s, s)
  BY <1>1 DEF IsPrefix
<1>3. ASSUME t # << >>, IsPrefix(s, Front(t))
      PROVE  IsPrefix(s, t)
  <2> DEFINE u == Front(t)
             e == Last(t)
  <2>1. u \in Seq(S) /\ e \in S /\ t = Append(u, e) /\ Len(t) = Len(u) + 1
    BY <1>3, FrontLast
  <2>2. Len(u) \in Nat /\ \A i \in 1 .. Len(u) : t[i] = u[i]
    <3>1. \A i \in 1 .. Len(u) : Append(u, e)[i] = u[i]
      BY <2>1, AppendProperties
    <3> QED BY <2>1, <3>1, LenProperties
  <2> HIDE DEF u, e
  <2>3. Len(s) <= Len(u) /\ SubSeq(s, 1, Len(s)) = SubSeq(u, 1, Len(s))
    BY <1>3 DEF IsPrefix, u
  <2>4. SubSeq(u, 1, Len(s)) = SubSeq(t, 1, Len(s))
    BY <1>1, <2>2, <2>3
  <2> QED BY <1>1, <2>1, <2>2, <2>3, <2>4 DEF IsPrefix
<1> QED BY <1>2, <1>3

(* What the writes of the pending record leave of the log.                  *)
LEMMA PendingWrites ==
  ASSUME IInv, pc = "append"
  PROVE  /\ LogAfter("nothing") = log
         /\ LogAfter("torn") = [lines |-> log.lines, tail |-> << Junk >>]
         /\ PendingRecord \in Line
         /\ LogAfter("whole").lines = Append(log.lines, PendingRecord)
         /\ LogAfter("whole").tail = << >>
         /\ Consecutive(LogAfter("whole").lines)
         /\ Gapless(Existing, LogAfter("whole").lines)
         /\ TopSeq(Existing, LogAfter("whole").lines) =
              TopSeq(Existing, log.lines) + 1
         /\ Rebuilt(Existing, LogAfter("whole").lines) = mem
<1>1. /\ log.tail = << >> /\ linked /\ mem # << >> /\ Disk = Front(mem)
      /\ Serving
  BY DEF IInv, LogShape, HandleShape, MemoryShape, OneAhead, Serving,
     CheckpointSteps
<1>2. LogAfter("nothing") = log
  BY <1>1 DEF LogAfter
<1>3. LogAfter("torn") = [lines |-> log.lines, tail |-> << Junk >>]
  <2>1. log = [lines |-> log.lines, tail |-> log.tail]
    BY CleanState DEF File
  <2> QED BY <1>1, <2>1 DEF LogAfter, Unterminated
<1>4. LogAfter("whole") =
        [lines |-> Append(log.lines, PendingRecord), tail |-> << >>]
  BY <1>1 DEF LogAfter, Terminated
<1>5. PendingRecord \in Line
  BY CleanState, StateTypes
<1>6. /\ PendingRecord.seq = TopSeq(Existing, log.lines) + 1
      /\ ChangeOf(PendingRecord) = Last(mem)
  <2>1. Last(mem) \in Change
    BY <1>1, CleanState, FrontLast
  <2> QED BY <1>1, <2>1, CleanState DEF PendingRecord, ChangeOf, Change
<1>7. Consecutive(log.lines) /\ Gapless(Existing, log.lines)
  BY DEF IInv, LogShape
<1>8. /\ Consecutive(Append(log.lines, PendingRecord))
      /\ Gapless(Existing, Append(log.lines, PendingRecord))
      /\ TopSeq(Existing, Append(log.lines, PendingRecord)) = PendingRecord.seq
      /\ Rebuilt(Existing, Append(log.lines, PendingRecord)) =
           Append(Disk, ChangeOf(PendingRecord))
  BY <1>5, <1>6, <1>7, CleanState, RebuiltAppend DEF Disk
<1>9. Append(Disk, ChangeOf(PendingRecord)) = mem
  BY <1>1, <1>6, CleanState, FrontLast
<1>10. /\ LogAfter("whole").tail = << >>
       /\ LogAfter("whole").lines = Append(log.lines, PendingRecord)
  BY <1>4
<1> QED BY <1>2, <1>3, <1>5, <1>6, <1>8, <1>9, <1>10, Zenon

(* An automatic checkpoint runs behind a record that was just appended, so   *)
(* the log is not broken; its failure is only a warning.                    *)
AutoInv ==
  /\ reason = "auto" => pc \in CheckpointSteps
  /\ pc = "append" \/ reason = "auto" => ~broken

LEMMA AutoStep == AutoInv /\ [Next]_vars => AutoInv'
<1> SUFFICES ASSUME AutoInv, [Next]_vars PROVE AutoInv'
  OBVIOUS
<1> USE DEF AutoInv, CheckpointSteps
<1>1. CASE Execute \/ AppendRecord \/ AppendFails
  BY <1>1 DEF Execute, AppendRecord, AppendFails, handle
<1>2. CASE CheckpointCommand \/ Save
  BY <1>2 DEF CheckpointCommand, Save, StartCheckpoint
<1>3. CASE ClearTmp \/ WriteBuffers \/ WriteManifest \/ RemoveOld
             \/ ReplaceOnlyCheckpoint \/ Rotate
  BY <1>3 DEF ClearTmp, WriteBuffers, WriteManifest, RemoveOld,
     ReplaceOnlyCheckpoint, Rotate, handle
<1>4. CASE Install \/ DropOld \/ TruncateLog \/ ReopenLog \/ CheckpointFails
  BY <1>4 DEF Install, DropOld, TruncateLog, ReopenLog, CheckpointFails, handle
<1>5. CASE Crash \/ ExternalEdit \/ Restart
  BY <1>5 DEF Crash, LosesMemory, ExternalEdit, Restart, handle
<1>6. CASE Restore \/ ReadLog \/ ReplayRecord \/ FinishRecovery
             \/ RecoveryFails
  BY <1>6 DEF Restore, ReadLog, ReplayRecord, FinishRecovery, RecoveryFails,
     Refuse, handle
<1>7. CASE UNCHANGED vars
  BY <1>7 DEF vars
<1> QED BY <1>1, <1>2, <1>3, <1>4, <1>5, <1>6, <1>7 DEF Next, EngineStep

-----------------------------------------------------------------------------
(* Each step preserves the invariant.                                       *)

Intact == /\ IInv /\ Sane /\ TypeInv'

(* The history depends only on the content of memory and disk.              *)
LEMMA SameHistory ==
  ASSUME IInv, Disk' = Disk, mem' = mem \/ mem' = << >>,
         promised' = promised, executed' = executed
  PROVE  History'
<1>1. Ordered(Disk)'
  BY DEF IInv, History, Ordered
<1>2. Ordered(mem)'
  BY DEF IInv, History, Ordered
<1>3. IsPrefix(promised, Disk)'
  BY DEF IInv, History
<1> QED BY <1>1, <1>2, <1>3 DEF History

LEMMA ExecuteStep ==
  ASSUME Intact, Execute
  PROVE  IInv'
<1>1. PICK ver \in {0, package} :
        mem' = Append(mem, [id |-> executed + 1, ver |-> ver])
  BY DEF Execute
<1> DEFINE change == [id |-> executed + 1, ver |-> ver]
<1>2. /\ pc = "idle" /\ ~broken /\ pc' = "append"
      /\ executed' = executed + 1 /\ executed \in Nat
      /\ UNCHANGED << log, current, old, tmp, nextSeq, linked, broken, pos,
                      promised >>
  BY DEF Execute, disk, handle, Intact, IInv, TypeOK
<1>3. Existing' = Existing
  BY <1>2 DEF Existing
<1>4. /\ Disk' = Disk
      /\ TopSeq(Existing, log.lines)' = TopSeq(Existing, log.lines)
      /\ Consecutive(log.lines)' /\ Gapless(Existing, log.lines)'
  BY <1>2, <1>3, SameDisk DEF Intact
<1>5. Disk = mem
  BY <1>2 DEF Intact, IInv, MemoryShape
<1>6. change \in Change
  BY <1>2 DEF Change, Intact, IInv, TypeOK, Versions
<1>7. mem \in Seq(Change)
  BY CleanState DEF Intact
<1>8. /\ Len(mem') = Len(mem) + 1 /\ mem' # << >> /\ Len(mem) \in Nat
      /\ \A i \in 1 .. Len(mem) : mem'[i] = mem[i]
      /\ mem'[Len(mem) + 1] = change
  BY <1>1, <1>6, <1>7, AppendProperties, LenProperties
<1>9. Disk' = Front(mem')
  BY <1>1, <1>4, <1>5, <1>6, <1>7, FrontLast
<1>10. LogShape'
  BY <1>2, <1>4 DEF Intact, IInv, LogShape, Serving
<1>11. DirShape'
  BY <1>2 DEF Intact, IInv, DirShape
<1>12. HandleShape'
  BY <1>2, <1>4 DEF Intact, IInv, HandleShape, Serving, CheckpointSteps
<1>13. MemoryShape'
  BY <1>2, <1>8, <1>9 DEF Intact, IInv, MemoryShape, OneAhead, CheckpointSteps
<1>14. History'
  <2>1. /\ Ordered(mem)
        /\ IsPrefix(promised, Disk)
    BY DEF Intact, IInv, History
  <2>2. ASSUME NEW i \in 1 .. Len(mem)
        PROVE  mem[i].id \in Nat /\ mem[i].id <= executed
    <3>1. mem[i] \in Change
      BY <1>7, ElementOfSeq
    <3> QED BY <2>1, <3>1 DEF Ordered, Change
  <2>3. Ordered(mem)'
    <3>1. ASSUME NEW i \in 1 .. Len(mem')
          PROVE  mem'[i].id <= executed'
      <4>1. CASE i = Len(mem) + 1
        BY <1>2, <1>8, <4>1
      <4>2. CASE i # Len(mem) + 1
        <5>1. i \in 1 .. Len(mem)
          BY <1>8, <4>2
        <5> QED BY <1>2, <1>8, <2>2, <5>1
      <4> QED BY <4>1, <4>2
    <3>2. ASSUME NEW i \in 1 .. Len(mem'), NEW j \in 1 .. Len(mem'), i < j
          PROVE  mem'[i].id < mem'[j].id
      <4>1. i \in 1 .. Len(mem)
        BY <1>8, <3>2
      <4>2. CASE j = Len(mem) + 1
        BY <1>2, <1>8, <2>2, <4>1, <4>2
      <4>3. CASE j # Len(mem) + 1
        <5>1. j \in 1 .. Len(mem)
          BY <1>8, <4>3
        <5> QED BY <1>8, <2>1, <3>2, <4>1, <5>1 DEF Ordered
      <4> QED BY <4>2, <4>3
    <3> QED BY <3>1, <3>2 DEF Ordered
  <2>4. Ordered(Disk)'
    <3>1. ASSUME NEW i \in 1 .. Len(mem)
          PROVE  mem[i].id <= executed'
      BY <1>2, <2>2, <3>1
    <3> QED BY <1>4, <1>5, <2>1, <3>1 DEF Ordered
  <2> QED BY <1>2, <1>4, <2>1, <2>3, <2>4 DEF History
<1> QED
  BY <1>10, <1>11, <1>12, <1>13, <1>14 DEF IInv, Intact, TypeInv

LEMMA AppendRecordStep ==
  ASSUME Intact, AppendRecord
  PROVE  IInv'
<1>1. /\ pc = "append" /\ log' = LogAfter("whole") /\ nextSeq' = NextSeq + 1
      /\ pc' \in {"clear", "idle"} /\ promised' \in {promised, mem}
      /\ UNCHANGED << current, old, tmp, mem, linked, broken, pos, executed >>
  BY DEF AppendRecord
<1>2. Existing' = Existing
  BY <1>1 DEF Existing
<1>3. /\ log'.tail = << >> /\ Consecutive(log'.lines)
      /\ Gapless(Existing, log'.lines)
      /\ TopSeq(Existing, log'.lines) = TopSeq(Existing, log.lines) + 1
      /\ Disk' = mem
  BY <1>1, <1>2, PendingWrites DEF Intact, Disk
<1>4. /\ NextSeq = TopSeq(Existing, log.lines) + 1
      /\ TopSeq(Existing, log.lines) \in Nat
      /\ mem \in Seq(Change) /\ Disk \in Seq(Change)
  BY <1>1, CleanState DEF Intact, Serving
<1>5. mem # << >> /\ Disk = Front(mem) /\ ~broken /\ linked
  BY <1>1 DEF Intact, IInv, MemoryShape, OneAhead, HandleShape,
     CheckpointSteps
<1>6. LogShape'
  BY <1>1, <1>2, <1>3 DEF LogShape
<1>7. DirShape'
  BY <1>1 DEF Intact, IInv, DirShape
<1>8. HandleShape'
  BY <1>1, <1>2, <1>3, <1>4, <1>5 DEF HandleShape, CheckpointSteps, Serving
<1>9. MemoryShape'
  BY <1>1, <1>3 DEF Intact, IInv, MemoryShape, CheckpointSteps
<1>10. History'
  <2>1. IsPrefix(promised, Disk) /\ Ordered(mem)
    BY DEF Intact, IInv, History
  <2>2. IsPrefix(promised, mem) /\ IsPrefix(mem, mem)
    BY <1>4, <1>5, <2>1, PrefixOfFront DEF Intact, IInv, TypeOK, Content
  <2>3. Ordered(mem)'
    BY <1>1, <2>1 DEF Ordered
  <2>4. IsPrefix(promised, Disk)'
    BY <1>1, <1>3, <2>2
  <2> QED BY <1>1, <1>3, <2>3, <2>4 DEF History, Ordered
<1> QED
  BY <1>6, <1>7, <1>8, <1>9, <1>10 DEF IInv, Intact, TypeInv

LEMMA AppendFailsStep ==
  ASSUME Intact, AppendFails
  PROVE  IInv'
<1>1. PICK what \in {"nothing", "torn"} : log' = LogAfter(what)
  BY DEF AppendFails, Intact, Sane
<1>2. /\ pc = "append" /\ nextSeq' = NextSeq /\ broken' = TRUE /\ pc' = "idle"
      /\ UNCHANGED << current, old, tmp, mem, linked, pos, executed,
                      promised >>
  BY DEF AppendFails
<1>3. log'.lines = log.lines /\ log'.tail \in {<< >>, << Junk >>}
  <2>1. log.tail \in {<< >>, << Junk >>}
    BY DEF Intact, IInv, LogShape
  <2>2. CASE what = "nothing"
    BY <1>1, <1>2, <2>1, <2>2, PendingWrites DEF Intact
  <2>3. CASE what = "torn"
    BY <1>1, <1>2, <2>3, PendingWrites DEF Intact
  <2> QED BY <2>2, <2>3
<1>4. Existing' = Existing
  BY <1>2 DEF Existing
<1>5. /\ Disk' = Disk
      /\ TopSeq(Existing, log.lines)' = TopSeq(Existing, log.lines)
      /\ Consecutive(log.lines)' /\ Gapless(Existing, log.lines)'
  BY <1>3, <1>4, SameDisk DEF Intact
<1>6. NextSeq = TopSeq(Existing, log.lines) + 1
  BY <1>2, CleanState DEF Intact, Serving
<1>7. OneAhead /\ linked
  BY <1>2 DEF Intact, IInv, MemoryShape, HandleShape
<1>8. LogShape'
  BY <1>2, <1>3, <1>5 DEF LogShape
<1>9. DirShape'
  BY <1>2 DEF Intact, IInv, DirShape
<1>10. HandleShape'
  BY <1>2, <1>5, <1>6, <1>7 DEF HandleShape, CheckpointSteps, Serving
<1>11. MemoryShape'
  BY <1>2, <1>5, <1>7 DEF Intact, IInv, MemoryShape, OneAhead, CheckpointSteps
<1>12. History'
  BY <1>2, <1>5, SameHistory DEF Intact
<1> QED
  BY <1>8, <1>9, <1>10, <1>11, <1>12 DEF IInv, Intact, TypeInv

(* The steps of a checkpoint that leave the log and the checkpoint in force *)
(* alone: only pc, tmp, old or the sequence number move.                    *)
LEMMA QuietStep ==
  ASSUME Intact, pc \in {"idle"} \union CheckpointSteps,
         pc' \in {"idle"} \union CheckpointSteps, pc # "reopen",
         pc' # "reopen", pc' \in {"dropOld", "truncate"} => pc = "dropOld",
         UNCHANGED << log, mem, linked, broken, pos, executed >>,
         promised' = promised \/ (promised' = mem /\ Disk = mem),
         nextSeq' \in {nextSeq, NextSeq},
         pc' \in CheckpointSteps => nextSeq' # 0,
         Existing' = Existing, DirShape'
  PROVE  IInv'
<1>1. /\ Disk' = Disk
      /\ TopSeq(Existing, log.lines)' = TopSeq(Existing, log.lines)
      /\ Consecutive(log.lines)' /\ Gapless(Existing, log.lines)'
  BY SameDisk DEF Intact
<1>2. NextSeq = TopSeq(Existing, log.lines) + 1
  BY CleanState DEF Intact, Serving, CheckpointSteps
<1>3. LogShape'
  BY <1>1 DEF Intact, IInv, LogShape, Serving, CheckpointSteps
<1>4. HandleShape'
  BY <1>1, <1>2 DEF Intact, IInv, HandleShape, Serving, CheckpointSteps
<1>5. MemoryShape'
  BY <1>1 DEF Intact, IInv, MemoryShape, OneAhead, CheckpointSteps
<1>6. History'
  <2>1. CASE promised' = promised
    BY <1>1, <2>1, SameHistory DEF Intact
  <2>2. CASE promised' = mem /\ Disk = mem
    <3>1. IsPrefix(mem, mem)
      BY CleanState, PrefixOfFront DEF Intact
    <3> QED BY <1>1, <2>2, <3>1 DEF Intact, IInv, History, Ordered
  <2> QED BY <2>1, <2>2
<1> QED BY <1>3, <1>4, <1>5, <1>6 DEF IInv, Intact, TypeInv

(* After the swap the checkpoint holds all there is in memory.              *)
LEMMA Installed ==
  ASSUME IInv, pc \in {"dropOld", "truncate", "reopen"}
  PROVE  /\ Existing = current
         /\ TopSeq(Existing, log.lines) = current.seq
         /\ nextSeq = current.seq + 1 /\ nextSeq \in Nat
         /\ Disk = mem
<1>1. current = [state |-> "full", seq |-> nextSeq - 1, content |-> mem]
  BY DEF IInv, DirShape
<1>2. Existing = current
  BY <1>1 DEF Existing, HasManifest
<1>3. /\ nextSeq = TopSeq(Existing, log.lines) + 1 /\ nextSeq \in Nat
  BY DEF IInv, HandleShape, CheckpointSteps, TypeOK
<1>4. TopSeq(Existing, log.lines) \in Nat
  BY CleanState
<1>5. current.seq = nextSeq - 1 /\ current.content = mem
  BY <1>1
<1>6. TopSeq(Existing, log.lines) = current.seq
  BY <1>3, <1>4, <1>5
<1>7. LineSeq(log.lines) <= Existing.seq
  <2>1. LineSeq(log.lines) \in Nat /\ Existing.seq \in Nat
    BY CleanState, LineSeqType
  <2> QED BY <1>2, <1>6, <2>1 DEF TopSeq
<1>8. Rebuilt(Existing, log.lines) = Existing.content
  BY <1>7, CleanState, RebuiltCovered DEF IInv, LogShape
<1> QED BY <1>2, <1>3, <1>4, <1>5, <1>6, <1>8 DEF Disk

(* A checkpoint that covers the log may take the place of the one in force. *)
LEMMA Supersedes ==
  ASSUME IInv, pc \in {"removeOld", "rotate", "install"}
  PROVE  /\ tmp \in Dir /\ tmp.state = "full"
         /\ tmp.seq = TopSeq(Existing, log.lines)
         /\ tmp.content = mem
         /\ Gapless(tmp, log.lines)
         /\ TopSeq(tmp, log.lines) = tmp.seq
         /\ Rebuilt(tmp, log.lines) = mem
<1>1. tmp = [state |-> "full", seq |-> nextSeq - 1, content |-> mem]
  BY DEF IInv, DirShape
<1>2. tmp \in Dir
  BY DEF IInv, TypeOK
<1>3. /\ nextSeq = TopSeq(Existing, log.lines) + 1
      /\ TopSeq(Existing, log.lines) \in Nat
  BY CleanState DEF IInv, HandleShape, CheckpointSteps
<1>4. tmp.state = "full" /\ tmp.seq = nextSeq - 1 /\ tmp.content = mem
  BY <1>1
<1>5. tmp.seq = TopSeq(Existing, log.lines)
  BY <1>3, <1>4
<1>6. LineSeq(log.lines) \in Nat /\ Existing.seq \in Nat
  BY CleanState, LineSeqType
<1>7. Gapless(tmp, log.lines)
  <2>1. SUFFICES ASSUME log.lines # << >>
                 PROVE  /\ log.lines[1].seq <= tmp.seq + 1
                        /\ tmp.seq <= LineSeq(log.lines)
    BY DEF Gapless
  <2>2. /\ log.lines[1].seq <= Existing.seq + 1
        /\ Existing.seq <= LineSeq(log.lines)
    BY <2>1 DEF IInv, LogShape, Gapless
  <2>3. log.lines[1].seq \in Nat
    <3>1. 1 \in 1 .. Len(log.lines)
      BY <2>1, CleanState, EmptySeq
    <3>2. log.lines[1] \in Line
      BY <3>1, CleanState, ElementOfSeq
    <3> QED BY <3>2 DEF Line
  <2>4. tmp.seq = LineSeq(log.lines)
    BY <1>5, <1>6, <2>2 DEF TopSeq
  <2> QED BY <1>6, <2>2, <2>3, <2>4
<1>8. LineSeq(log.lines) <= tmp.seq
  BY <1>5, <1>6 DEF TopSeq
<1>9. Consecutive(log.lines) /\ log.lines \in Seq(Line)
  BY CleanState DEF IInv, LogShape
<1> QED BY <1>2, <1>4, <1>5, <1>7, <1>8, <1>9, RebuiltCovered

(* checkpoint.tmp is renamed to checkpoint.                                 *)
LEMMA InstallStep ==
  ASSUME Intact, pc \in {"removeOld", "install"}, pc' = "dropOld",
         current' = tmp,
         UNCHANGED << log, mem, nextSeq, linked, broken, pos, executed,
                      promised >>
  PROVE  IInv'
<1>1. /\ tmp = [state |-> "full", seq |-> nextSeq - 1, content |-> mem]
      /\ linked
  BY DEF Intact, IInv, DirShape, HandleShape
<1>2. Existing' = tmp
  BY <1>1 DEF Existing, HasManifest
<1>3. /\ Gapless(tmp, log.lines)
      /\ TopSeq(tmp, log.lines) = TopSeq(Existing, log.lines)
      /\ Rebuilt(tmp, log.lines) = mem
  BY Supersedes DEF Intact
<1>4. Disk' = mem
  BY <1>2, <1>3 DEF Disk
<1>5. LogShape'
  BY <1>2, <1>3 DEF Intact, IInv, LogShape, Serving
<1>6. DirShape'
  BY <1>1 DEF DirShape
<1>7. HandleShape'
  BY <1>2, <1>3 DEF Intact, IInv, HandleShape, Serving, CheckpointSteps
<1>8. MemoryShape'
  BY <1>4 DEF Intact, IInv, MemoryShape, CheckpointSteps
<1>9. History'
  <2>1. IsPrefix(promised, Disk) /\ Ordered(mem)
    BY DEF Intact, IInv, History
  <2>2. Disk = mem \/ OneAhead
    BY DEF Intact, IInv, MemoryShape, CheckpointSteps
  <2>3. IsPrefix(promised, mem)
    BY <2>1, <2>2, CleanState, PrefixOfFront DEF OneAhead, Intact, IInv,
       TypeOK, Content
  <2> QED BY <1>4, <2>1, <2>3 DEF History, Ordered
<1> QED BY <1>5, <1>6, <1>7, <1>8, <1>9 DEF IInv, Intact, TypeInv

(* An empty file takes the place of the log.                                *)
LEMMA TruncateStep ==
  ASSUME Intact, TruncateLog
  PROVE  IInv'
<1>1. /\ pc = "truncate" /\ pc' = "reopen" /\ log' = EmptyFile
      /\ linked' = FALSE
      /\ UNCHANGED << current, old, tmp, mem, nextSeq, broken, pos, executed,
                      promised >>
  BY DEF TruncateLog
<1>2. Existing' = Existing
  BY <1>1 DEF Existing
<1>3. /\ Existing = current /\ nextSeq = current.seq + 1 /\ nextSeq \in Nat
      /\ Disk = mem /\ current.content = mem
  BY <1>1, Installed DEF Intact, IInv, DirShape
<1>4. log'.lines = << >> /\ log'.tail = << >>
  BY <1>1 DEF EmptyFile
<1>5. /\ << >> \in Seq(Line)
      /\ Consecutive(<< >>) /\ Gapless(Existing, << >>)
      /\ LineSeq(<< >>) = 0
  BY EmptySeq DEF Consecutive, Gapless, LineSeq
<1>6. /\ TopSeq(Existing, << >>) = Existing.seq
      /\ Rebuilt(Existing, << >>) = Existing.content
  <2>1. LineSeq(<< >>) <= Existing.seq
    BY <1>5, CleanState DEF Intact
  <2>2. ASSUME NEW lines \in Seq(Line), lines = << >>
        PROVE  /\ TopSeq(Existing, lines) = Existing.seq
               /\ Rebuilt(Existing, lines) = Existing.content
    <3>1. /\ Consecutive(lines) /\ Gapless(Existing, lines)
          /\ LineSeq(lines) <= Existing.seq
      BY <1>5, <2>1, <2>2
    <3> QED BY <3>1, CleanState, RebuiltCovered DEF Intact
  <2> QED BY <1>5, <2>2
<1>7. Disk' = mem
  BY <1>2, <1>3, <1>4, <1>6 DEF Disk
<1>8. LogShape'
  BY <1>1, <1>2, <1>4, <1>5 DEF LogShape
<1>9. DirShape'
  BY <1>1 DEF Intact, IInv, DirShape
<1>10. HandleShape'
  BY <1>1, <1>2, <1>3, <1>4, <1>6 DEF Intact, IInv, HandleShape, Serving,
     CheckpointSteps
<1>11. MemoryShape'
  BY <1>1, <1>7 DEF Intact, IInv, MemoryShape, CheckpointSteps
<1>12. History'
  BY <1>1, <1>3, <1>7, SameHistory DEF Intact
<1> QED BY <1>8, <1>9, <1>10, <1>11, <1>12 DEF IInv, Intact, TypeInv

LEMMA ReopenStep ==
  ASSUME Intact, ReopenLog
  PROVE  IInv'
<1>1. /\ pc = "reopen" /\ pc' = "idle" /\ linked' = TRUE /\ broken' = FALSE
      /\ promised' = mem
      /\ UNCHANGED << log, current, old, tmp, mem, nextSeq, pos, executed >>
  BY DEF ReopenLog, disk
<1>2. Existing' = Existing
  BY <1>1 DEF Existing
<1>3. /\ Disk' = Disk
      /\ TopSeq(Existing, log.lines)' = TopSeq(Existing, log.lines)
      /\ Consecutive(log.lines)' /\ Gapless(Existing, log.lines)'
  BY <1>1, <1>2, SameDisk DEF Intact
<1>4. Disk = mem
  BY <1>1, Installed DEF Intact
<1>5. log = EmptyFile
  BY <1>1 DEF Intact, IInv, HandleShape
<1>6. LogShape'
  BY <1>1, <1>3, <1>5 DEF LogShape, EmptyFile
<1>7. DirShape'
  BY <1>1 DEF Intact, IInv, DirShape
<1>8. HandleShape'
  BY <1>1, <1>3 DEF Intact, IInv, HandleShape, Serving, CheckpointSteps
<1>9. MemoryShape'
  BY <1>1, <1>3, <1>4 DEF Intact, IInv, MemoryShape, CheckpointSteps
<1>10. History'
  <2>1. IsPrefix(mem, mem)
    BY CleanState, PrefixOfFront DEF Intact
  <2> QED BY <1>1, <1>3, <1>4, <2>1 DEF Intact, IInv, History, Ordered
<1> QED BY <1>6, <1>7, <1>8, <1>9, <1>10 DEF IInv, Intact, TypeInv

(* A directory that is removed, even in part, was not the checkpoint in     *)
(* force.                                                                   *)
LEMMA RemoveKeepsExisting ==
  ASSUME IInv, UNCHANGED current,
         \/ old' = old
         \/ /\ pc \in {"removeOld", "dropOld"}
            /\ pc = "removeOld" => ~OnlyOld
            /\ old' \in Remains(old)
  PROVE  /\ Existing' = Existing
         /\ current'.state = "absent" => old'.state \in {"absent", "full"}
<1>1. /\ current.state \in {"absent", "full"}
      /\ current.state = "absent" => old.state \in {"absent", "full"}
  BY DEF IInv, DirShape
<1>2. CASE old' = old
  BY <1>1, <1>2 DEF Existing
<1>3. CASE current.state = "full"
  BY <1>3 DEF Existing, HasManifest
<1>4. CASE current.state = "absent" /\ old' # old
  <2>1. pc # "dropOld"
    BY <1>4 DEF IInv, DirShape
  <2>2. ~OnlyOld /\ old' \in Remains(old)
    BY <1>4, <2>1
  <2>3. old.state = "absent"
    BY <1>1, <1>4, <2>2 DEF OnlyOld, HasManifest
  <2>4. old' = Absent
    BY <2>2, <2>3 DEF Remains, Exists
  <2> QED BY <1>4, <2>3, <2>4 DEF Existing, HasManifest, Absent
<1> QED BY <1>1, <1>2, <1>3, <1>4

LEMMA CrashStep ==
  ASSUME Intact, Crash
  PROVE  IInv'
<1>1. PICK what \in {"nothing", "torn", "whole"} :
        /\ log' = LogAfter(what)
        /\ pc # "append" => what = "nothing"
  BY DEF Crash, Intact, Sane
<1>2. /\ pc' = "down" /\ mem' = << >> /\ nextSeq' = 0 /\ linked' = TRUE
      /\ broken' = FALSE /\ pos' = 0
      /\ UNCHANGED << current, tmp, executed, promised >>
  BY DEF Crash, LosesMemory, Survives, Intact, Sane
<1>3. \/ old' = old
      \/ /\ pc \in {"removeOld", "dropOld"}
         /\ pc = "removeOld" => ~OnlyOld
         /\ old' \in Remains(old)
  BY DEF Crash, Survives, Intact, Sane
<1>4. /\ Existing' = Existing
      /\ current'.state = "absent" => old'.state \in {"absent", "full"}
  BY <1>2, <1>3, RemoveKeepsExisting DEF Intact
<1>5. /\ log'.tail \in {<< >>, << Junk >>}
      /\ Consecutive(log'.lines) /\ Gapless(Existing, log'.lines)
      /\ \/ Disk' = Disk
         \/ Disk' = mem /\ OneAhead
  <2>1. CASE what = "nothing"
    <3>1. log' = log
      BY <1>1, <2>1 DEF LogAfter
    <3> QED BY <1>4, <3>1 DEF Intact, IInv, LogShape, Disk
  <2>2. CASE what = "torn"
    <3>1. log'.lines = log.lines /\ log'.tail = << Junk >>
      BY <1>1, <2>2, PendingWrites DEF Intact
    <3> QED BY <1>4, <3>1 DEF Intact, IInv, LogShape, Disk
  <2>3. CASE what = "whole"
    <3>1. pc = "append" /\ OneAhead
      BY <1>1, <2>3 DEF Intact, IInv, MemoryShape
    <3>2. /\ log'.tail = << >> /\ Consecutive(log'.lines)
          /\ Gapless(Existing, log'.lines)
          /\ Rebuilt(Existing, log'.lines) = mem
      BY <1>1, <2>3, <3>1, PendingWrites DEF Intact
    <3> QED BY <1>4, <3>1, <3>2 DEF Disk
  <2> QED BY <1>1, <2>1, <2>2, <2>3
<1>6. LogShape'
  BY <1>2, <1>4, <1>5 DEF LogShape, Serving
<1>7. DirShape'
  BY <1>2, <1>4 DEF Intact, IInv, DirShape
<1>8. HandleShape'
  BY <1>2 DEF HandleShape, Serving, CheckpointSteps
<1>9. MemoryShape'
  BY <1>2 DEF MemoryShape, CheckpointSteps
<1>10. History'
  <2>1. Ordered(mem) /\ Ordered(Disk) /\ IsPrefix(promised, Disk)
    BY DEF Intact, IInv, History
  <2>2. Ordered(mem)'
    BY <1>2 DEF Ordered
  <2>3. Ordered(Disk)'
    BY <1>2, <1>5, <2>1 DEF Ordered
  <2>4. IsPrefix(promised, Disk)'
    <3>1. OneAhead => IsPrefix(promised, mem)
      BY <2>1, CleanState, PrefixOfFront DEF OneAhead, Intact, IInv, TypeOK,
         Content
    <3> QED BY <1>2, <1>5, <2>1, <3>1
  <2> QED BY <2>2, <2>3, <2>4 DEF History
<1> QED BY <1>6, <1>7, <1>8, <1>9, <1>10 DEF IInv, Intact, TypeInv

-----------------------------------------------------------------------------
(* Recovery.                                                                *)

(* Steps of recovery leave the disk as it reads; the engine is not serving. *)
LEMMA RecoveryFrame ==
  ASSUME Intact, pc \in {"down", "read", "replay", "refused"},
         pc' \in {"down", "read", "replay", "refused"},
         UNCHANGED << current, old, tmp, nextSeq, linked, broken, executed,
                      promised >>,
         log'.lines = log.lines, log'.tail \in {<< >>, << Junk >>},
         pc' = "replay" => log'.tail = << >>,
         MemoryShape', Ordered(mem)'
  PROVE  IInv'
<1>1. Existing' = Existing
  BY DEF Existing
<1>2. /\ Disk' = Disk
      /\ TopSeq(Existing, log.lines)' = TopSeq(Existing, log.lines)
      /\ Consecutive(log.lines)' /\ Gapless(Existing, log.lines)'
  BY <1>1, SameDisk DEF Intact
<1>3. LogShape'
  BY <1>2 DEF LogShape, Serving
<1>4. DirShape'
  BY DEF Intact, IInv, DirShape
<1>5. HandleShape'
  BY <1>2 DEF Intact, IInv, HandleShape, Serving, CheckpointSteps
<1>6. History'
  BY <1>2 DEF Intact, IInv, History, Ordered
<1> QED BY <1>3, <1>4, <1>5, <1>6 DEF IInv, Intact, TypeInv

LEMMA RefuseStep ==
  ASSUME Intact, Refuse, UNCHANGED disk, pc \in {"down", "read", "replay"}
  PROVE  IInv'
<1>1. /\ pc' = "refused" /\ mem' = << >> /\ pos' = 0
      /\ UNCHANGED << log, current, old, tmp, nextSeq, linked, broken,
                      executed, promised >>
  BY DEF Refuse, disk
<1>2. MemoryShape'
  BY <1>1 DEF MemoryShape, CheckpointSteps
<1>3. Ordered(mem)'
  BY <1>1 DEF Ordered
<1> QED BY <1>1, <1>2, <1>3, RecoveryFrame DEF Intact, IInv, LogShape

LEMMA RestartStep ==
  ASSUME Intact, Restart
  PROVE  IInv'
<1>1. /\ pc = "refused" /\ pc' = "down"
      /\ UNCHANGED << log, current, old, tmp, mem, pos, nextSeq, linked,
                      broken, executed, promised >>
  BY DEF Restart, disk, handle
<1>2. mem = << >> /\ pos = 0
  BY <1>1 DEF Intact, IInv, MemoryShape
<1>3. MemoryShape'
  BY <1>1, <1>2 DEF MemoryShape, CheckpointSteps
<1>4. Ordered(mem)'
  BY <1>1, <1>2 DEF Ordered
<1> QED BY <1>1, <1>3, <1>4, RecoveryFrame DEF Intact, IInv, LogShape

LEMMA RestoreStep ==
  ASSUME Intact, Restore
  PROVE  IInv'
<1>1. CASE Refuse
  BY <1>1, RefuseStep DEF Restore, disk
<1>2. CASE ~Refuse
  <2>1. /\ pc = "down" /\ pc' = "read" /\ mem' = Existing.content
        /\ UNCHANGED << log, current, old, tmp, nextSeq, linked, broken, pos,
                        executed, promised >>
    BY <1>2 DEF Restore, disk, handle
  <2>2. Existing' = Existing
    BY <2>1 DEF Existing
  <2>3. MemoryShape'
    BY <2>1, <2>2 DEF Intact, IInv, MemoryShape, CheckpointSteps
  <2>4. Ordered(Existing.content)
    <3>1. /\ Len(Disk) = Len(Existing.content) +
               (TopSeq(Existing, log.lines) - Existing.seq)
          /\ TopSeq(Existing, log.lines) - Existing.seq \in Nat
          /\ Len(Existing.content) \in Nat
          /\ \A i \in 1 .. Len(Existing.content) :
               Disk[i] = Existing.content[i]
      <4>1. Consecutive(log.lines) /\ Gapless(Existing, log.lines)
        BY DEF Intact, IInv, LogShape
      <4> QED BY <4>1, CleanState, RebuiltProperties, LenProperties
              DEF Disk, Intact
    <3>2. \A i \in 1 .. Len(Existing.content) : i \in 1 .. Len(Disk)
      BY <3>1
    <3>3. Ordered(Disk)
      BY DEF Intact, IInv, History
    <3> QED BY <3>1, <3>2, <3>3 DEF Ordered
  <2>5. Ordered(mem)'
    BY <2>1, <2>4 DEF Ordered
  <2> QED BY <2>1, <2>3, <2>5, RecoveryFrame DEF Intact, IInv, LogShape
<1> QED BY <1>1, <1>2

LEMMA ReadLogStep ==
  ASSUME Intact, ReadLog
  PROVE  IInv'
<1>1. CASE pc' = "refused"
  BY <1>1, RefuseStep DEF ReadLog, disk
<1>2. CASE pc' # "refused"
  <2>1. /\ pc = "read" /\ pc' = "replay"
        /\ log' = IF EndsInJunk(log) THEN Rewritten(log) ELSE log
        /\ UNCHANGED << current, old, tmp, mem, nextSeq, linked, broken, pos,
                        executed, promised >>
    BY <1>2 DEF ReadLog, handle, Refuse
  <2>2. log'.lines = log.lines /\ log'.tail = << >>
    BY <2>1, CleanState DEF Rewritten, Intact
  <2>3. /\ Existing' = Existing /\ mem = Existing.content /\ pos = 0
        /\ mem' = mem /\ pos' = pos
    BY <2>1 DEF Existing, Intact, IInv, MemoryShape
  <2>4. Disk' = Disk
    BY <2>2, <2>3, SameDisk DEF Intact
  <2>5. IsPrefix(Existing.content, Disk)
    <3>1. /\ Len(Disk) = Len(Existing.content) +
               (TopSeq(Existing, log.lines) - Existing.seq)
          /\ TopSeq(Existing, log.lines) - Existing.seq \in Nat
          /\ Len(Existing.content) \in Nat
          /\ \A i \in 1 .. Len(Existing.content) :
               Disk[i] = Existing.content[i]
      <4>1. Consecutive(log.lines) /\ Gapless(Existing, log.lines)
        BY DEF Intact, IInv, LogShape
      <4> QED BY <4>1, CleanState, RebuiltProperties, LenProperties
              DEF Disk, Intact
    <3> QED BY <3>1 DEF IsPrefix
  <2>6. MemoryShape'
    <3>1. Len(mem) \in Nat /\ Len(log.lines) \in Nat
      BY CleanState, LenProperties DEF Intact
    <3>2. /\ pos' <= Len(log'.lines)
          /\ Replayed' = 0
          /\ Len(mem') = Len(Existing'.content) + 0
      BY <2>2, <2>3, <3>1 DEF Replayed
    <3>3. IsPrefix(mem, Disk)'
      BY <2>3, <2>4, <2>5
    <3> QED BY <2>1, <3>2, <3>3 DEF MemoryShape, CheckpointSteps
  <2>7. Ordered(mem)'
    BY <2>1 DEF Intact, IInv, History, Ordered
  <2> QED BY <2>1, <2>2, <2>6, <2>7, RecoveryFrame DEF Intact
<1> QED BY <1>1, <1>2

(* A prefix, element by element.                                            *)
LEMMA PrefixByIndex ==
  ASSUME NEW S, NEW s \in Seq(S), NEW t \in Seq(S)
  PROVE  IsPrefix(s, t) <=> /\ Len(s) <= Len(t)
                            /\ \A i \in 1 .. Len(s) : s[i] = t[i]
<1>1. Len(s) \in Nat /\ Len(t) \in Nat
  BY LenProperties
<1>2. ASSUME Len(s) <= Len(t)
      PROVE  /\ SubSeq(s, 1, Len(s)) \in Seq(S)
             /\ SubSeq(t, 1, Len(s)) \in Seq(S)
             /\ Len(SubSeq(s, 1, Len(s))) = Len(SubSeq(t, 1, Len(s)))
             /\ \A i \in 1 .. Len(s) : /\ SubSeq(s, 1, Len(s))[i] = s[i]
                                       /\ SubSeq(t, 1, Len(s))[i] = t[i]
             /\ Len(SubSeq(s, 1, Len(s))) = Len(s)
  <2>1. \A i \in 1 .. Len(s) : s[i] \in S /\ t[i] \in S
    BY <1>1, <1>2, ElementOfSeq
  <2>2. /\ SubSeq(s, 1, Len(s)) \in Seq(S)
        /\ Len(SubSeq(s, 1, Len(s))) =
             IF 1 <= Len(s) THEN Len(s) - 1 + 1 ELSE 0
        /\ \A i \in 1 .. Len(s) - 1 + 1 :
             SubSeq(s, 1, Len(s))[i] = s[1 + i - 1]
    BY <1>1, <2>1, SubSeqProperties
  <2>3. /\ SubSeq(t, 1, Len(s)) \in Seq(S)
        /\ Len(SubSeq(t, 1, Len(s))) =
             IF 1 <= Len(s) THEN Len(s) - 1 + 1 ELSE 0
        /\ \A i \in 1 .. Len(s) - 1 + 1 :
             SubSeq(t, 1, Len(s))[i] = t[1 + i - 1]
    BY <1>1, <2>1, SubSeqProperties
  <2>4. \A i \in 1 .. Len(s) : i \in 1 .. Len(s) - 1 + 1 /\ 1 + i - 1 = i
    BY <1>1
  <2>5. Len(SubSeq(s, 1, Len(s))) = Len(s)
    BY <1>1, <2>2
  <2> QED BY <2>2, <2>3, <2>4, <2>5
<1> QED BY <1>1, <1>2, SeqEqual DEF IsPrefix

(* A prefix of an ordered content is ordered.                               *)
LEMMA PrefixOrdered ==
  ASSUME NEW s \in Seq(Change), NEW t \in Seq(Change), IsPrefix(s, t),
         Ordered(t)
  PROVE  Ordered(s)
<1>1. /\ Len(s) <= Len(t) /\ Len(s) \in Nat /\ Len(t) \in Nat
      /\ \A i \in 1 .. Len(s) : s[i] = t[i]
  BY PrefixByIndex, LenProperties
<1>2. \A i \in 1 .. Len(s) : i \in 1 .. Len(t)
  BY <1>1
<1> QED BY <1>1, <1>2 DEF Ordered

LEMMA ReplayStep ==
  ASSUME Intact, ReplayRecord
  PROVE  IInv'
<1> DEFINE lines == log.lines
           record == lines[pos + 1]
           base == Existing.seq
<1>1. CASE pc' = "refused"
  BY <1>1, RefuseStep DEF ReplayRecord, disk, Refuse
<1>2. CASE pc' # "refused"
  <2>1. /\ pc = "replay" /\ pc' = "replay" /\ pos' = pos + 1
        /\ pos < Len(lines) /\ pos \in Nat
        /\ UNCHANGED << log, current, old, tmp, nextSeq, linked, broken,
                        executed, promised >>
    BY <1>2, CleanState DEF ReplayRecord, disk, handle, Refuse, Intact, IInv,
       TypeOK
  <2>2. \/ record.seq <= base /\ mem' = mem
        \/ ~(record.seq <= base) /\ mem' = Append(mem, ChangeOf(record))
    BY <1>2, CleanState DEF ReplayRecord, Refuse, InCheckpoint, FileChanged,
       Intact
  <2>3. /\ Existing' = Existing /\ lines' = lines
        /\ log'.tail = << >>
    BY <2>1 DEF Existing, Intact, IInv, LogShape
  <2>4. Disk' = Disk
    BY <2>3, SameDisk DEF Intact
  <2>5. /\ Len(mem) = Len(Existing.content) + Replayed
        /\ IsPrefix(mem, Disk)
    BY <2>1 DEF Intact, IInv, MemoryShape
  <2>6. /\ lines \in Seq(Line) /\ Len(lines) \in Nat
        /\ base \in Nat /\ Existing \in Dir
        /\ mem \in Seq(Change) /\ Disk \in Seq(Change)
        /\ Len(Existing.content) \in Nat
        /\ Consecutive(lines) /\ Gapless(Existing, lines)
    BY CleanState, LenProperties DEF Intact, IInv, LogShape
  <2>7. /\ lines # << >> /\ 1 \in 1 .. Len(lines) /\ pos + 1 \in 1 .. Len(lines)
        /\ Len(lines) \in 1 .. Len(lines)
    BY <2>1, <2>6
  <2>8. lines[1] \in Line /\ record \in Line
    BY <2>6, <2>7, ElementOfSeq
  <2>9. /\ lines[1].seq \in Nat /\ record.seq \in Nat
        /\ record.seq = lines[1].seq + pos
        /\ lines[1].seq <= base + 1
        /\ LineSeq(lines) = lines[1].seq + Len(lines) - 1
    <3>1. lines[1].seq \in Nat /\ record.seq \in Nat
      BY <2>8 DEF Line
    <3>2. record.seq = lines[1].seq + (pos + 1) - 1
      BY <2>6, <2>7 DEF Consecutive
    <3>3. lines[1].seq <= base + 1
      BY <2>6, <2>7 DEF Gapless
    <3>4. LineSeq(lines) = lines[1].seq + Len(lines) - 1
      BY <2>6, <2>7 DEF Consecutive, LineSeq
    <3> QED BY <2>1, <3>1, <3>2, <3>3, <3>4
  <2>10. pos # 0 => lines[pos].seq = lines[1].seq + pos - 1
    <3>1. pos # 0 => pos \in 1 .. Len(lines)
      BY <2>1, <2>6
    <3> QED BY <2>6, <3>1 DEF Consecutive
  <2> HIDE DEF lines, record, base
  <2>11. Replayed = IF record.seq <= base THEN 0 ELSE record.seq - 1 - base
    <3>1. CASE pos = 0
      <4>1. Replayed = 0 /\ record.seq = lines[1].seq
        BY <2>9, <3>1 DEF Replayed
      <4> QED BY <2>6, <2>9, <4>1, Z3
    <3>2. CASE pos # 0
      <4>1. Replayed = IF lines[pos].seq <= base THEN 0
                       ELSE lines[pos].seq - base
        BY <3>2 DEF Replayed, lines, base
      <4>2. lines[pos].seq = record.seq - 1
        BY <2>1, <2>9, <2>10, <3>2
      <4>3. record.seq - 1 <= base /\ ~(record.seq <= base) =>
              record.seq - 1 - base = 0
        BY <2>6, <2>9
      <4>4. record.seq <= base => record.seq - 1 <= base
        BY <2>6, <2>9
      <4> QED BY <4>1, <4>2, <4>3, <4>4
    <3> QED BY <3>1, <3>2
  <2>12. Replayed' = IF record.seq <= base THEN 0 ELSE record.seq - base
    <3>1. pos' # 0
      BY <2>1
    <3>2. /\ log'.lines[pos'] = record /\ Existing'.seq = base
      BY <2>1, <2>3 DEF lines, record, base
    <3> QED BY <3>1, <3>2 DEF Replayed
  <2>13. /\ Len(mem') = Len(Existing'.content) + Replayed'
         /\ IsPrefix(mem, Disk)'
         /\ mem' \in Seq(Change)
    <3>1. CASE record.seq <= base
      BY <2>2, <2>3, <2>4, <2>5, <2>6, <2>11, <2>12, <3>1
    <3>2. CASE ~(record.seq <= base)
      <4> DEFINE n == record.seq - base
      <4>1. /\ Replayed = n - 1 /\ Replayed' = n /\ n \in Nat \ {0}
        <5>1. Replayed = record.seq - 1 - base
          BY <2>11, <3>2
        <5>2. Replayed' = record.seq - base
          BY <2>12, <3>2
        <5>3. record.seq \in Nat /\ base \in Nat
          BY <2>6, <2>9
        <5>4. /\ record.seq - 1 - base = record.seq - base - 1
              /\ record.seq - base \in Nat \ {0}
          BY <5>3, <3>2
        <5> QED BY <5>1, <5>2, <5>4
      <4>2. mem' = Append(mem, ChangeOf(record)) /\ ChangeOf(record) \in Change
        BY <2>2, <2>8, <3>2 DEF ChangeOf, Change, Line
      <4>3. /\ mem' \in Seq(Change) /\ Len(mem') = Len(mem) + 1
            /\ \A i \in 1 .. Len(mem) : mem'[i] = mem[i]
            /\ mem'[Len(mem) + 1] = ChangeOf(record)
        BY <2>6, <4>2, AppendProperties
      <4>4. Len(mem) + 1 = Len(Existing.content) + n
        BY <2>5, <2>6, <4>1, Z3
      <4>5. n \in 1 .. TopSeq(Existing, lines) - base
        <5>1. record.seq <= LineSeq(lines)
          BY <2>1, <2>6, <2>7, <2>9, Z3
        <5>2. /\ LineSeq(lines) \in Nat
              /\ TopSeq(Existing, lines) \in Nat
          BY <2>6, LineSeqType, RebuiltProperties
        <5>3. LineSeq(lines) <= TopSeq(Existing, lines)
          BY <2>6, <5>2 DEF TopSeq, base
        <5>4. record.seq \in Nat /\ base \in Nat /\ LineSeq(lines) \in Nat
          BY <2>6, <2>9, <5>2
        <5>5. record.seq <= TopSeq(Existing, lines)
          BY <5>1, <5>2, <5>3, <5>4
        <5>6. record.seq - base <= TopSeq(Existing, lines) - base
          BY <5>2, <5>4, <5>5
        <5>7. n \in Int /\ 1 <= n
          BY <4>1
        <5> QED BY <5>2, <5>4, <5>6, <5>7
      <4>6. /\ Len(Disk) = Len(Existing.content)
                             + (TopSeq(Existing, lines) - base)
            /\ Disk[Len(Existing.content) + n] =
                 ChangeOf(lines[base + n + 1 - lines[1].seq])
            /\ TopSeq(Existing, lines) \in Nat
        BY <2>6, <4>5, RebuiltProperties DEF Disk, lines, base
      <4>7. base + n + 1 - lines[1].seq = pos + 1
        BY <2>1, <2>6, <2>9, Z3
      <4>8. Disk[Len(mem) + 1] = ChangeOf(record)
        BY <4>4, <4>6, <4>7 DEF record
      <4>9. \A i \in 1 .. Len(mem) : mem[i] = Disk[i]
        BY <2>5, <2>6, PrefixByIndex
      <4>10. Len(mem) \in Nat
        BY <2>6, LenProperties
      <4> HIDE DEF n
      <4>11. Len(mem') <= Len(Disk)
        BY <2>6, <4>3, <4>4, <4>5, <4>6, <4>10, Z3
      <4>12. \A i \in 1 .. Len(mem') : mem'[i] = Disk[i]
        <5> TAKE i \in 1 .. Len(mem')
        <5>1. CASE i = Len(mem) + 1
          BY <4>3, <4>8, <5>1
        <5>2. CASE i # Len(mem) + 1
          <6>1. i \in 1 .. Len(mem)
            BY <4>3, <4>10, <5>2
          <6> QED BY <4>3, <4>9, <6>1
        <5> QED BY <5>1, <5>2
      <4>13. IsPrefix(mem', Disk)
        BY <2>6, <4>3, <4>11, <4>12, PrefixByIndex
      <4>14. Len(mem') = Len(Existing'.content) + Replayed'
        BY <2>3, <4>1, <4>3, <4>4
      <4> QED BY <2>4, <4>3, <4>13, <4>14
    <3> QED BY <3>1, <3>2
  <2>14. pos' <= Len(log'.lines)
    BY <2>1, <2>3, <2>6 DEF lines
  <2>15. MemoryShape'
    BY <2>1, <2>13, <2>14 DEF MemoryShape, CheckpointSteps
  <2>16. Ordered(mem)'
    <3>1. Ordered(Disk)
      BY DEF Intact, IInv, History
    <3>2. IsPrefix(mem', Disk)
      BY <2>4, <2>13
    <3>3. Ordered(mem')
      BY <2>6, <2>13, <3>1, <3>2, PrefixOrdered
    <3> QED BY <2>1, <3>3 DEF Ordered
  <2>17. log'.lines = log.lines
    BY <2>3 DEF lines
  <2> QED BY <2>1, <2>3, <2>15, <2>16, <2>17, RecoveryFrame DEF Intact
<1> QED BY <1>1, <1>2
LEMMA FinishRecoveryStep ==
  ASSUME Intact, FinishRecovery
  PROVE  IInv'
<1> DEFINE lines == log.lines
           base == Existing.seq
<1>1. /\ pc = "replay" /\ pos = Len(Records(log)) /\ pc' = "idle" /\ pos' = 0
      /\ nextSeq' = LastOnDisk + 1
      /\ UNCHANGED << log, current, old, tmp, mem, linked, broken, executed,
                      promised >>
  BY DEF FinishRecovery, disk
<1>2. pos = Len(lines) /\ LastOnDisk = TopSeq(Existing, lines)
  BY <1>1, CleanState DEF Intact
<1>3. Existing' = Existing
  BY <1>1 DEF Existing
<1>4. /\ Disk' = Disk
      /\ TopSeq(Existing, log.lines)' = TopSeq(Existing, log.lines)
      /\ Consecutive(log.lines)' /\ Gapless(Existing, log.lines)'
  BY <1>1, <1>3, SameDisk DEF Intact
<1>5. /\ lines \in Seq(Line) /\ Len(lines) \in Nat /\ base \in Nat
      /\ Existing \in Dir /\ mem \in Seq(Change) /\ Disk \in Seq(Change)
      /\ Len(Existing.content) \in Nat /\ Len(mem) \in Nat
      /\ Consecutive(lines) /\ Gapless(Existing, lines)
  BY CleanState, LenProperties DEF Intact, IInv, LogShape
<1>6. /\ Len(mem) = Len(Existing.content) + Replayed
      /\ IsPrefix(mem, Disk)
  BY <1>1 DEF Intact, IInv, MemoryShape
<1>7. /\ LineSeq(lines) \in Nat
      /\ TopSeq(Existing, lines) \in Nat
      /\ Len(Disk) = Len(Existing.content) + (TopSeq(Existing, lines) - base)
  BY <1>5, LineSeqType, RebuiltProperties DEF Disk
<1>8. Replayed = TopSeq(Existing, lines) - base
  <2>1. CASE pos = 0
    <3>1. lines = << >>
      BY <1>2, <1>5, <2>1, EmptySeq
    <3>2. LineSeq(lines) = 0
      BY <3>1 DEF LineSeq
    <3>3. TopSeq(Existing, lines) = base
      BY <1>5, <3>2 DEF TopSeq
    <3> QED BY <1>5, <2>1, <3>3 DEF Replayed
  <2>2. CASE pos # 0
    <3>1. lines # << >>
      BY <1>2, <1>5, <2>2, EmptySeq
    <3>2. lines[pos].seq = LineSeq(lines)
      BY <1>2, <3>1 DEF LineSeq
    <3>3. Replayed = IF LineSeq(lines) <= base THEN 0
                     ELSE LineSeq(lines) - base
      BY <2>2, <3>2 DEF Replayed
    <3>4. TopSeq(Existing, lines) = IF LineSeq(lines) > base
                                    THEN LineSeq(lines) ELSE base
      BY DEF TopSeq
    <3> HIDE DEF base, lines
    <3> QED BY <1>5, <1>7, <3>3, <3>4
  <2> QED BY <2>1, <2>2
<1>9. Disk = mem
  <2>1. Len(mem) = Len(Disk)
    BY <1>6, <1>7, <1>8
  <2>2. \A i \in 1 .. Len(mem) : mem[i] = Disk[i]
    BY <1>5, <1>6, PrefixByIndex
  <2> QED BY <1>5, <2>1, <2>2, SeqEqual
<1>10. LogShape'
  BY <1>1, <1>4 DEF Intact, IInv, LogShape
<1>11. DirShape'
  BY <1>1 DEF Intact, IInv, DirShape
<1>12. HandleShape'
  BY <1>1, <1>2, <1>4 DEF Intact, IInv, HandleShape, Serving, CheckpointSteps
<1>13. MemoryShape'
  BY <1>1, <1>4, <1>9 DEF MemoryShape, CheckpointSteps
<1>14. History'
  BY <1>1, <1>4, SameHistory DEF Intact
<1> QED BY <1>10, <1>11, <1>12, <1>13, <1>14 DEF IInv, Intact, TypeInv

-----------------------------------------------------------------------------
(* The remaining steps of a checkpoint, and all steps together.             *)

LEMMA StartStep ==
  ASSUME Intact, NEW why, StartCheckpoint(why)
  PROVE  IInv'
<1>1. /\ pc = "idle" /\ pc' = "clear" /\ nextSeq' = NextSeq
      /\ UNCHANGED << log, current, old, tmp, mem, linked, broken, pos,
                      executed, promised >>
  BY DEF StartCheckpoint, disk
<1>2. NextSeq # 0
  BY <1>1, CleanState DEF Intact, Serving
<1>3. Existing' = Existing
  BY <1>1 DEF Existing
<1>4. DirShape'
  BY <1>1 DEF Intact, IInv, DirShape
<1> QED BY <1>1, <1>2, <1>3, <1>4, QuietStep DEF CheckpointSteps

LEMMA PrepareStep ==
  ASSUME Intact, ClearTmp \/ WriteBuffers \/ WriteManifest
  PROVE  IInv'
<1>1. /\ pc \in {"clear", "buffers", "manifest"}
      /\ pc' \in {"buffers", "manifest", "removeOld"}
      /\ pc' = "removeOld" =>
           tmp' = [state |-> "full", seq |-> nextSeq - 1, content |-> mem]
      /\ UNCHANGED << log, current, old, mem, nextSeq, linked, broken, pos,
                      executed, promised >>
  BY DEF ClearTmp, WriteBuffers, WriteManifest, handle
<1>2. nextSeq # 0
  BY <1>1 DEF Intact, IInv, HandleShape, CheckpointSteps
<1>3. Existing' = Existing
  BY <1>1 DEF Existing
<1>4. DirShape'
  BY <1>1 DEF Intact, IInv, DirShape
<1> QED BY <1>1, <1>2, <1>3, <1>4, QuietStep DEF CheckpointSteps

LEMMA SwapStep ==
  ASSUME Intact, RemoveOld \/ Rotate \/ DropOld
  PROVE  IInv'
<1>1. /\ pc \in {"removeOld", "rotate", "dropOld"}
      /\ pc' \in {"rotate", "install", "truncate"}
      /\ pc' = "truncate" => pc = "dropOld"
      /\ UNCHANGED << log, tmp, mem, nextSeq, linked, broken, pos, executed,
                      promised >>
  BY DEF RemoveOld, Rotate, DropOld, handle
<1>2. nextSeq # 0
  BY <1>1 DEF Intact, IInv, HandleShape, CheckpointSteps
<1>3. Existing' = Existing /\ DirShape'
  <2>1. CASE RemoveOld
    <3>1. /\ pc = "removeOld" /\ pc' = "rotate" /\ old' = Absent
          /\ current' = current /\ ~OnlyOld
      BY <2>1 DEF RemoveOld, Intact, Sane
    <3>2. old' \in Remains(old)
      BY <3>1 DEF Remains, Exists
    <3>3. /\ Existing' = Existing
          /\ current'.state = "absent" => old'.state \in {"absent", "full"}
      BY <3>1, <3>2, RemoveKeepsExisting DEF Intact
    <3> QED BY <1>1, <3>1, <3>3 DEF Intact, IInv, DirShape
  <2>2. CASE Rotate
    <3>1. /\ pc = "rotate" /\ pc' = "install"
          /\ old = Absent /\ current.state \in {"absent", "full"}
      BY <2>2 DEF Rotate, Intact, IInv, DirShape
    <3>2. CASE current.state = "full"
      <4>1. old' = current /\ current' = Absent
        BY <2>2, <3>2 DEF Rotate, Exists
      <4> QED BY <1>1, <3>1, <3>2, <4>1 DEF Intact, IInv, DirShape, Existing,
                 HasManifest, Absent
    <3>3. CASE current.state = "absent"
      <4>1. old' = old /\ current' = current
        BY <2>2, <3>3 DEF Rotate, Exists
      <4> QED BY <1>1, <3>1, <3>3, <4>1 DEF Intact, IInv, DirShape, Existing
    <3> QED BY <3>1, <3>2, <3>3
  <2>3. CASE DropOld
    <3>1. /\ pc = "dropOld" /\ pc' = "truncate" /\ old' \in Remains(old)
          /\ current' = current
      BY <2>3 DEF DropOld
    <3>2. /\ Existing' = Existing
          /\ current'.state = "absent" => old'.state \in {"absent", "full"}
      BY <3>1, RemoveKeepsExisting DEF Intact
    <3> QED BY <1>1, <3>1, <3>2 DEF Intact, IInv, DirShape
  <2> QED BY <2>1, <2>2, <2>3
<1> QED BY <1>1, <1>2, <1>3, QuietStep DEF CheckpointSteps

LEMMA CheckpointFailsStep ==
  ASSUME Intact, AutoInv, CheckpointFails
  PROVE  IInv'
<1>1. /\ pc \in CheckpointSteps \ {"dropOld", "reopen"} /\ pc' = "idle"
      /\ promised' = IF reason = "auto" THEN mem ELSE promised
      /\ UNCHANGED << log, current, tmp, mem, nextSeq, linked, broken, pos,
                      executed >>
  BY DEF CheckpointFails, handle, Intact, Sane
<1>2. \/ old' = old
      \/ pc = "removeOld" /\ ~OnlyOld /\ old' \in Remains(old)
  BY DEF CheckpointFails, Intact, Sane
<1>3. /\ Existing' = Existing
      /\ current'.state = "absent" => old'.state \in {"absent", "full"}
  BY <1>1, <1>2, RemoveKeepsExisting DEF Intact
<1>4. DirShape'
  BY <1>1, <1>3 DEF Intact, IInv, DirShape
<1>5. reason = "auto" => Disk = mem
  BY <1>1 DEF AutoInv, Intact, IInv, MemoryShape
<1>6. CASE reason = "auto"
  BY <1>1, <1>3, <1>4, <1>5, <1>6, QuietStep DEF CheckpointSteps
<1>7. CASE reason # "auto"
  BY <1>1, <1>3, <1>4, <1>7, QuietStep DEF CheckpointSteps
<1> QED BY <1>6, <1>7

(* The invariant is inductive.                                              *)
LEMMA InvStep ==
  ASSUME Sane, IInv, AutoInv, TypeInv', [Next]_vars
  PROVE  IInv'
<1>0. Intact
  BY DEF Intact
<1>1. CASE Execute
  BY <1>0, <1>1, ExecuteStep
<1>2. CASE AppendRecord
  BY <1>0, <1>2, AppendRecordStep
<1>3. CASE AppendFails
  BY <1>0, <1>3, AppendFailsStep
<1>4. CASE CheckpointCommand
  BY <1>0, <1>4, StartStep DEF CheckpointCommand
<1>5. CASE Save
  BY <1>0, <1>5, StartStep DEF Save
<1>6. CASE ClearTmp \/ WriteBuffers \/ WriteManifest
  BY <1>0, <1>6, PrepareStep
<1>7. CASE RemoveOld \/ Rotate \/ DropOld
  BY <1>0, <1>7, SwapStep
<1>8. CASE ReplaceOnlyCheckpoint
  BY <1>0, <1>8, InstallStep DEF ReplaceOnlyCheckpoint, handle
<1>9. CASE Install
  BY <1>0, <1>9, InstallStep DEF Install, handle
<1>10. CASE TruncateLog
  BY <1>0, <1>10, TruncateStep
<1>11. CASE ReopenLog
  BY <1>0, <1>11, ReopenStep
<1>12. CASE CheckpointFails
  BY <1>0, <1>12, CheckpointFailsStep
<1>13. CASE Crash
  BY <1>0, <1>13, CrashStep
<1>15. CASE ExternalEdit \/ UNCHANGED vars
  <2>1. UNCHANGED << log, current, old, tmp, mem, nextSeq, linked, broken, pc,
                     pos, executed, promised >>
    BY <1>15 DEF ExternalEdit, disk, handle, vars
  <2>2. Existing' = Existing
    BY <2>1 DEF Existing
  <2>3. /\ Disk' = Disk
        /\ TopSeq(Existing, log.lines)' = TopSeq(Existing, log.lines)
        /\ Consecutive(log.lines)' /\ Gapless(Existing, log.lines)'
    BY <2>1, <2>2, SameDisk
  <2>4. LogShape' /\ DirShape'
    BY <2>1, <2>3 DEF IInv, LogShape, DirShape, Serving
  <2>5. HandleShape'
    BY <2>1, <2>3 DEF IInv, HandleShape, Serving
  <2>6. MemoryShape'
    BY <2>1, <2>2, <2>3 DEF IInv, MemoryShape, OneAhead, Replayed
  <2>7. History'
    BY <2>1, <2>3, SameHistory
  <2> QED BY <2>4, <2>5, <2>6, <2>7 DEF IInv, TypeInv
<1>16. CASE Restore
  BY <1>0, <1>16, RestoreStep
<1>17. CASE ReadLog
  BY <1>0, <1>17, ReadLogStep
<1>18. CASE ReplayRecord
  BY <1>0, <1>18, ReplayStep
<1>19. CASE FinishRecovery
  BY <1>0, <1>19, FinishRecoveryStep
<1>20. CASE RecoveryFails
  BY <1>0, <1>20, RefuseStep DEF RecoveryFails
<1>21. CASE Restart
  BY <1>0, <1>21, RestartStep
<1> QED
  BY <1>1, <1>2, <1>3, <1>4, <1>5, <1>6, <1>7, <1>8, <1>9, <1>10, <1>11,
     <1>12, <1>13, <1>15, <1>16, <1>17, <1>18, <1>19, <1>20, <1>21
  DEF Next, EngineStep

LEMMA InvInit == Init => IInv /\ AutoInv
<1> SUFFICES ASSUME Init PROVE IInv /\ AutoInv
  OBVIOUS
<1>1. /\ log.lines = << >> /\ log.tail = << >> /\ current = Absent
      /\ old = Absent /\ mem = << >> /\ nextSeq = 0 /\ linked = TRUE
      /\ broken = FALSE /\ pc = "idle" /\ reason = "none" /\ pos = 0
      /\ promised = << >> /\ executed = 0
  BY DEF Init, EmptyFile
<1>2. TypeOK
  <2>1. EmptyFile \in [lines : Seq(Line), tail : Seq(Line)]
    BY EmptySeq DEF EmptyFile
  <2>2. 1 \in Versions
    BY BoundsAssumption DEF Versions
  <2>3. << >> \in Content
    BY EmptySeq DEF Content
  <2> QED BY <2>1, <2>2, <2>3, DirTypes DEF Init, TypeOK, CheckpointSteps,
          Rewriters
<1>3. /\ Consecutive(<< >>) /\ Gapless(Absent, << >>) /\ LineSeq(<< >>) = 0
      /\ Existing = Absent
  BY <1>1, EmptySeq DEF Consecutive, Gapless, LineSeq, Existing, HasManifest,
     Absent
<1>4. LogShape /\ DirShape /\ HandleShape
  BY <1>1, <1>3 DEF LogShape, DirShape, HandleShape, Serving, Absent,
     CheckpointSteps
<1>5. Disk = << >>
  <2>1. << >> \in Seq(Line) /\ Absent \in Dir
    BY EmptySeq, DirTypes
  <2>2. LineSeq(<< >>) <= Absent.seq
    BY <1>3 DEF Absent
  <2>3. ASSUME NEW lines \in Seq(Line), lines = << >>
        PROVE  Rebuilt(Absent, lines) = Absent.content
    BY <1>3, <2>1, <2>2, <2>3, RebuiltCovered
  <2>4. Rebuilt(Absent, << >>) = << >>
    BY <2>1, <2>3 DEF Absent
  <2> QED BY <1>1, <1>3, <2>4 DEF Disk
<1>6. MemoryShape
  BY <1>1, <1>5 DEF MemoryShape, CheckpointSteps
<1>7. History
  <2>1. IsPrefix(<< >>, << >>)
    BY EmptySeq, PrefixOfFront
  <2> QED BY <1>1, <1>5, <2>1, EmptySeq DEF History, Ordered
<1> QED BY <1>1, <1>2, <1>4, <1>6, <1>7 DEF IInv, AutoInv

-----------------------------------------------------------------------------
(* The theorems.                                                            *)

LEMMA Inductive == ASSUME Sane PROVE Spec => [](IInv /\ AutoInv)
<1> DEFINE Inv == IInv /\ AutoInv /\ TypeInv
<1>1. Init => Inv
  BY InvInit, CleanState
<1>2. Inv /\ [Next]_vars => Inv'
  <2> SUFFICES ASSUME Inv, [Next]_vars PROVE Inv'
    OBVIOUS
  <2>1. TypeInv'
    BY TypeStep
  <2>2. AutoInv'
    BY AutoStep
  <2>3. IInv'
    BY <2>1, InvStep
  <2> QED BY <2>1, <2>2, <2>3
<1>3. Inv => IInv /\ AutoInv
  OBVIOUS
<1> HIDE DEF Inv
<1> QED BY <1>1, <1>2, <1>3, PTL DEF Spec

(* A database that serves requests shows everything a client was told is    *)
(* safe: dsl::execute_logged answers only behind wal_append, and            *)
(* replay_active brings back all of the log.                                *)
THEOREM PromiseKept == ASSUME Sane PROVE Spec => []PromisedServed
<1>1. IInv => PromisedServed
  <2> SUFFICES ASSUME IInv, pc = "idle" PROVE IsPrefix(promised, mem)
    BY DEF PromisedServed
  <2>1. IsPrefix(promised, Disk)
    BY DEF IInv, History
  <2>2. Disk = mem \/ OneAhead
    BY DEF IInv, MemoryShape
  <2> QED BY <2>1, <2>2, CleanState, PrefixOfFront DEF OneAhead, IInv, TypeOK,
             Content
<1> QED BY <1>1, Inductive, PTL

-----------------------------------------------------------------------------
(***************************************************************************)
(* That no statement is applied twice needs far less of the environment    *)
(* than Sane: power may fail, files may be edited, a swap over             *)
(* checkpoint.old and the reopening of the log may be interrupted, and     *)
(* content may be lost to any of it.  One event must not happen, and       *)
(* WalFailedSync shows that it must not: that an append which failed has   *)
(* left its record behind.                                                 *)
(***************************************************************************)
NoLateRecord == "recordDespiteError" \notin Faults

Lines == AllLines(log)

IdsBelow(content, id) == \A k \in 1 .. Len(content) : content[k].id < id

(* The records of a log are in the order of their execution.                *)
Rising(all) ==
  \A i, j \in 1 .. Len(all) :
    i < j /\ all[i].seq > 0 /\ all[j].seq > 0 =>
      all[i].seq < all[j].seq /\ all[i].id < all[j].id

(* What a checkpoint leaves to be replayed was executed after all it holds. *)
Follow(all, dir) ==
  \A i \in 1 .. Len(all) :
    all[i].seq > dir.seq => IdsBelow(dir.content, all[i].id)

OnceLog ==
  /\ Len(log.tail) <= 1
  /\ Rising(Lines)
  /\ \A i \in 1 .. Len(Lines) : Lines[i].id <= executed

OnceDirs ==
  \A dir \in {current, old} : Ordered(dir.content) /\ Follow(Lines, dir)

OnceMemory ==
  /\ Ordered(mem)
  /\ pc \in {"removeOld", "rotate", "install"} =>
       tmp.seq = nextSeq - 1 /\ tmp.content = mem

OnceHandle ==
  Serving =>
    IF nextSeq = 0 THEN log = EmptyFile
    ELSE \A i \in 1 .. Len(Lines) : Lines[i].seq < nextSeq

OncePending ==
  pc = "append" =>
    /\ Last(mem).id = executed
    /\ \A i \in 1 .. Len(Lines) : Lines[i].id < executed
    /\ \A dir \in {current, old} : IdsBelow(dir.content, executed)

OnceRecovery ==
  /\ pc = "read" => mem = Existing.content
  /\ pc = "replay" =>
       /\ \A i \in 1 .. Len(Lines) : Lines[i].seq > 0
       /\ \A j \in 1 .. Len(Lines) :
            j > pos /\ Lines[j].seq > Existing.seq => IdsBelow(mem, Lines[j].id)

OnceInv ==
  /\ OnceLog /\ OnceDirs /\ OnceMemory /\ OnceHandle /\ OncePending
  /\ OnceRecovery

-----------------------------------------------------------------------------
(* All lines of a file that has at most one behind its last newline.        *)
LEMMA AllShape ==
  ASSUME NEW f \in File, Len(f.tail) <= 1
  PROVE  /\ AllLines(f) \in Seq(Line) /\ Len(AllLines(f)) \in Nat
         /\ f.lines \in Seq(Line) /\ Len(f.lines) \in Nat
         /\ f.tail = << >> => AllLines(f) = f.lines
         /\ f.tail # << >> => /\ f.tail[1] \in Line
                              /\ AllLines(f) = Append(f.lines, f.tail[1])
         /\ Len(f.lines) <= Len(AllLines(f))
         /\ \A i \in 1 .. Len(f.lines) : AllLines(f)[i] = f.lines[i]
<1>1. /\ f.lines \in Seq(Line) /\ f.tail \in Seq(Line)
      /\ Len(f.lines) \in Nat /\ Len(f.tail) \in Nat
  BY LenProperties DEF File
<1>2. CASE f.tail = << >>
  <2>1. AllLines(f) = f.lines
    BY <1>1, <1>2, ConcatEmptySeq DEF AllLines
  <2> QED BY <1>1, <1>2, <2>1
<1>3. CASE f.tail # << >>
  <2>1. Len(f.tail) = 1
    <3>1. Len(f.tail) \in Nat \ {0}
      BY <1>1, <1>3, EmptySeq
    <3>2. Len(f.tail) <= 1
      OBVIOUS
    <3>3. \A n \in Nat \ {0} : n <= 1 => n = 1
      OBVIOUS
    <3> QED BY <3>1, <3>2, <3>3, Zenon
  <2>2. f.tail[1] \in Line
    BY <1>1, <2>1, ElementOfSeq
  <2>3. f.tail = << f.tail[1] >>
    <3> DEFINE e == f.tail[1]
    <3>1. /\ << e >> \in Seq(Line) /\ Len(<< e >>) = 1 /\ << e >>[1] = e
      BY <2>2
    <3> HIDE DEF e
    <3>2. \A i \in 1 .. Len(f.tail) : f.tail[i] = << e >>[i]
      BY <2>1, <3>1 DEF e
    <3> QED BY <1>1, <2>1, <3>1, <3>2, SeqEqual DEF e
  <2>4. AllLines(f) = Append(f.lines, f.tail[1])
    <3> DEFINE e == f.tail[1]
    <3>1. f.lines \o << e >> = Append(f.lines, e)
      BY <1>1, <2>2, AppendIsConcat
    <3> QED BY <2>3, <3>1 DEF AllLines
  <2>5. /\ AllLines(f) \in Seq(Line) /\ Len(AllLines(f)) = Len(f.lines) + 1
        /\ \A i \in 1 .. Len(f.lines) : AllLines(f)[i] = f.lines[i]
    BY <1>1, <2>2, <2>4, AppendProperties
  <2> QED BY <1>1, <1>3, <2>2, <2>4, <2>5
<1> QED BY <1>2, <1>3

(* A line more behind the terminated ones.                                  *)
LEMMA OneMore ==
  ASSUME NEW f \in File, Len(f.tail) <= 1, NEW line \in Line, NEW all,
         all = Append(f.lines, line)
  PROVE  /\ all \in Seq(Line) /\ Len(all) = Len(f.lines) + 1
         /\ \A i \in 1 .. Len(all) :
              \/ /\ i \in 1 .. Len(AllLines(f)) /\ i \in 1 .. Len(f.lines)
                 /\ all[i] = AllLines(f)[i]
              \/ i = Len(f.lines) + 1 /\ all[i] = line
<1>1. /\ f.lines \in Seq(Line) /\ Len(f.lines) \in Nat
      /\ Len(AllLines(f)) \in Nat /\ Len(f.lines) <= Len(AllLines(f))
      /\ \A i \in 1 .. Len(f.lines) : AllLines(f)[i] = f.lines[i]
  BY AllShape
<1>2. /\ all \in Seq(Line) /\ Len(all) = Len(f.lines) + 1
      /\ \A i \in 1 .. Len(f.lines) : all[i] = f.lines[i]
      /\ all[Len(f.lines) + 1] = line
  BY <1>1, AppendProperties
<1>3. ASSUME NEW i \in 1 .. Len(all)
      PROVE  \/ /\ i \in 1 .. Len(AllLines(f)) /\ i \in 1 .. Len(f.lines)
                /\ all[i] = AllLines(f)[i]
             \/ i = Len(f.lines) + 1 /\ all[i] = line
  <2>1. CASE i = Len(f.lines) + 1
    BY <1>2, <2>1
  <2>2. CASE i # Len(f.lines) + 1
    <3>1. i \in 1 .. Len(f.lines)
      BY <1>1, <1>2, <2>2
    <3> QED BY <1>1, <1>2, <3>1
  <2> QED BY <2>1, <2>2
<1> QED BY <1>2, <1>3

(* The lines after a write: those there were, or the terminated ones and a  *)
(* record, or what does not parse.                                          *)
LEMMA WriteShape ==
  ASSUME TypeInv, pc = "append", Len(log.tail) <= 1,
         NEW what \in {"nothing", "torn", "noNewline", "whole"}
  PROVE  /\ Len(LogAfter(what).tail) <= 1
         /\ \/ AllLines(LogAfter(what)) = Lines
            \/ AllLines(LogAfter(what)) = Append(log.lines, Junk)
            \/ /\ what \notin {"nothing", "torn"}
               /\ AllLines(LogAfter(what)) = Append(log.lines, PendingRecord)
<1>1. /\ log \in File /\ PendingRecord \in Line /\ LogAfter(what) \in File
      /\ Junk \in Line
  BY StateTypes, FileTypes
<1>2. log.lines \in Seq(Line) /\ log.tail \in Seq(Line)
  BY <1>1 DEF File
<1>3. ASSUME NEW line \in Line
      PROVE  LET f == Terminated(log, line) IN
             /\ Len(f.tail) <= 1
             /\ \/ AllLines(f) = Append(log.lines, line)
                \/ AllLines(f) = Append(log.lines, Junk)
  <2> DEFINE f == Terminated(log, line)
  <2>1. f \in File
    BY <1>1, FileTypes
  <2>2. /\ f.tail = << >>
        /\ f.lines \in {Append(log.lines, line), Append(log.lines, Junk)}
    BY DEF Terminated
  <2>3. Len(f.tail) <= 1
    BY <2>2
  <2> HIDE DEF f
  <2>4. AllLines(f) = f.lines
    BY <2>1, <2>2, <2>3, AllShape
  <2> QED BY <2>2, <2>3, <2>4 DEF f
<1>4. ASSUME NEW line \in Line
      PROVE  LET f == Unterminated(log, line) IN
             /\ Len(f.tail) <= 1
             /\ \/ AllLines(f) = Append(log.lines, line)
                \/ AllLines(f) = Append(log.lines, Junk)
  <2> DEFINE f == Unterminated(log, line)
  <2>1. f \in File
    BY <1>1, FileTypes
  <2>2. /\ f.lines = log.lines
        /\ f.tail = << line >> \/ f.tail = << Junk >>
    <3>1. log = [lines |-> log.lines, tail |-> log.tail]
      BY <1>1 DEF File
    <3> QED BY <3>1 DEF Unterminated
  <2>3. Len(f.tail) <= 1 /\ f.tail # << >> /\ f.tail[1] \in {line, Junk}
    <3>1. ASSUME NEW e \in Line
          PROVE  Len(<< e >>) = 1 /\ << e >> # << >> /\ << e >>[1] = e
      OBVIOUS
    <3> HIDE DEF f
    <3>2. CASE f.tail = << line >>
      BY <3>1, <3>2
    <3>3. CASE f.tail = << Junk >>
      BY <1>1, <3>1, <3>3
    <3> QED BY <2>2, <3>2, <3>3
  <2> HIDE DEF f
  <2>4. AllLines(f) = Append(f.lines, f.tail[1])
    BY <2>1, <2>3, AllShape
  <2> QED BY <2>2, <2>3, <2>4 DEF f
<1>5. CASE ~linked \/ what = "nothing"
  BY <1>5 DEF LogAfter, Lines
<1>6. CASE linked /\ what = "torn"
  BY <1>1, <1>4, <1>6 DEF LogAfter
<1>7. CASE linked /\ what = "noNewline"
  BY <1>1, <1>4, <1>7 DEF LogAfter
<1>8. CASE linked /\ what = "whole"
  BY <1>1, <1>3, <1>8 DEF LogAfter
<1> QED BY <1>5, <1>6, <1>7, <1>8

(* A write leaves the records in order, and those behind a checkpoint are   *)
(* still newer than what it holds.                                          *)
LEMMA WriteKeeps ==
  ASSUME TypeInv, OnceInv, pc = "append",
         NEW what \in {"nothing", "torn", "noNewline", "whole"},
         NEW all, all = AllLines(LogAfter(what))
  PROVE  /\ Len(LogAfter(what).tail) <= 1
         /\ Rising(all)
         /\ \A dir \in {current, old} : Follow(all, dir)
         /\ \A i \in 1 .. Len(all) :
              /\ all[i].id <= executed
              /\ all[i].seq < NextSeq + 1
              /\ what \in {"nothing", "torn"} => all[i].seq < NextSeq
<1>1. /\ log \in File /\ Junk \in Line /\ PendingRecord \in Line
      /\ NextSeq \in Nat \ {0} /\ executed \in Nat /\ mem # << >>
      /\ Len(log.tail) <= 1
  BY StateTypes, FileTypes DEF TypeInv, TypeOK, OnceInv, OnceLog
<1>2. /\ PendingRecord.seq = NextSeq /\ PendingRecord.id = executed
      /\ Junk.seq = 0 /\ Junk.id = 0
  BY DEF OnceInv, OncePending, PendingRecord, Junk
<1>3. Lines \in Seq(Line) /\ Len(Lines) \in Nat
  BY <1>1, AllShape DEF Lines
<1>4. ASSUME NEW i \in 1 .. Len(Lines)
      PROVE  /\ Lines[i].seq \in Nat /\ Lines[i].id \in Nat
             /\ Lines[i].seq < NextSeq /\ Lines[i].id < executed
  <2>1. Lines[i] \in Line
    BY <1>3, ElementOfSeq
  <2>2. nextSeq # 0
    <3>1. SUFFICES ASSUME nextSeq = 0 PROVE FALSE
      OBVIOUS
    <3>2. log = EmptyFile
      BY <3>1 DEF OnceInv, OnceHandle, Serving
    <3>3. log.tail = << >> /\ log.lines = << >>
      BY <3>2 DEF EmptyFile
    <3>4. Lines = << >>
      BY <1>1, <3>3, AllShape DEF Lines
    <3> QED BY <3>4
  <2>3. Lines[i].seq < NextSeq
    BY <2>2 DEF OnceInv, OnceHandle, Serving, NextSeq
  <2>4. Lines[i].id < executed
    BY DEF OnceInv, OncePending
  <2> QED BY <2>1, <2>3, <2>4 DEF Line
<1>5. ASSUME NEW dir \in {current, old}
      PROVE  dir.seq \in Nat /\ IdsBelow(dir.content, executed)
  BY DEF OnceInv, OncePending, TypeInv, TypeOK, Dir
<1>6. /\ Len(LogAfter(what).tail) <= 1
      /\ \/ all = Lines
         \/ all = Append(log.lines, Junk)
         \/ what \notin {"nothing", "torn"} /\ all = Append(log.lines, PendingRecord)
  BY <1>1, WriteShape, Zenon
<1>7. CASE all = Lines
  <2>1. Rising(all) /\ \A dir \in {current, old} : Follow(all, dir)
    BY <1>7 DEF OnceInv, OnceLog, OnceDirs
  <2>2. ASSUME NEW i \in 1 .. Len(all)
        PROVE  /\ all[i].id <= executed
               /\ all[i].seq < NextSeq + 1 /\ all[i].seq < NextSeq
    BY <1>1, <1>4, <1>7
  <2> QED BY <1>6, <2>1, <2>2
<1>8. ASSUME NEW line \in Line, all = Append(log.lines, line),
             \/ line = Junk
             \/ line = PendingRecord /\ what \notin {"nothing", "torn"}
      PROVE  /\ Rising(all)
             /\ \A dir \in {current, old} : Follow(all, dir)
             /\ \A i \in 1 .. Len(all) :
                  /\ all[i].id <= executed
                  /\ all[i].seq < NextSeq + 1
                  /\ what \in {"nothing", "torn"} => all[i].seq < NextSeq
  <2>1. /\ Len(all) = Len(log.lines) + 1 /\ Len(log.lines) \in Nat
        /\ \A i \in 1 .. Len(all) :
             \/ /\ i \in 1 .. Len(Lines) /\ i \in 1 .. Len(log.lines)
                /\ all[i] = Lines[i]
             \/ i = Len(log.lines) + 1 /\ all[i] = line
    BY <1>1, <1>8, OneMore, AllShape DEF Lines
  <2>2. /\ line.seq \in {0, NextSeq} /\ line.id \in {0, executed}
        /\ line.seq = 0 \/ (line.seq = NextSeq /\ line.id = executed)
        /\ what \in {"nothing", "torn"} => line.seq = 0
    BY <1>2, <1>8
  <2>3. ASSUME NEW i \in 1 .. Len(all), NEW j \in 1 .. Len(all), i < j,
               all[i].seq > 0, all[j].seq > 0
        PROVE  all[i].seq < all[j].seq /\ all[i].id < all[j].id
    <3>1. i \in 1 .. Len(Lines) /\ all[i] = Lines[i]
      BY <2>1, <2>3
    <3>2. CASE j \in 1 .. Len(Lines) /\ all[j] = Lines[j]
      BY <2>3, <3>1, <3>2 DEF OnceInv, OnceLog, Rising
    <3>3. CASE all[j] = line
      <4>1. line.seq = NextSeq /\ line.id = executed
        BY <2>2, <2>3, <3>3
      <4> QED BY <1>4, <3>1, <3>3, <4>1
    <3> QED BY <2>1, <3>2, <3>3
  <2>4. ASSUME NEW dir \in {current, old}
        PROVE  Follow(all, dir)
    <3>1. Follow(Lines, dir)
      BY DEF OnceInv, OnceDirs
    <3>2. ASSUME NEW i \in 1 .. Len(all), all[i].seq > dir.seq
          PROVE  IdsBelow(dir.content, all[i].id)
      <4>1. CASE i \in 1 .. Len(Lines) /\ all[i] = Lines[i]
        BY <3>1, <3>2, <4>1 DEF Follow
      <4>2. CASE all[i] = line
        <5>1. line.seq # 0
          BY <1>5, <3>2, <4>2
        <5> QED BY <1>5, <2>2, <4>2, <5>1
      <4> QED BY <2>1, <4>1, <4>2
    <3> QED BY <3>2 DEF Follow
  <2>5. ASSUME NEW i \in 1 .. Len(all)
        PROVE  /\ all[i].id <= executed
               /\ all[i].seq < NextSeq + 1
               /\ what \in {"nothing", "torn"} => all[i].seq < NextSeq
    <3>1. CASE i \in 1 .. Len(Lines) /\ all[i] = Lines[i]
      BY <1>1, <1>4, <3>1
    <3>2. CASE all[i] = line
      BY <1>1, <2>2, <3>2
    <3> QED BY <2>1, <3>1, <3>2
  <2> QED BY <2>3, <2>4, <2>5 DEF Rising
<1> QED BY <1>1, <1>6, <1>7, <1>8

-----------------------------------------------------------------------------
(* A step that leaves the count of statements alone, drops directories or   *)
(* parts of them, and does not begin to append or to recover.               *)
LEMMA OnceFrame ==
  ASSUME OnceInv, executed' = executed, mem' \in {mem, << >>},
         OnceLog', OnceHandle',
         \A dir \in {current, old} : Follow(Lines', dir),
         \A dir \in {current', old'} :
           dir \in {current, old} \/ dir.content = << >>,
         pc' \notin {"append", "read", "replay"},
         pc' \in {"removeOld", "rotate", "install"} =>
           tmp'.seq = nextSeq' - 1 /\ tmp'.content = mem'
  PROVE  OnceInv'
<1>1. ASSUME NEW c, Ordered(c)
      PROVE  Ordered(c)'
  BY <1>1 DEF Ordered
<1>2. Ordered(<< >>)
  BY DEF Ordered
<1>3. OnceDirs'
  <2>1. ASSUME NEW dir \in {current', old'}
        PROVE  Ordered(dir.content)' /\ Follow(Lines', dir)
    <3>1. CASE dir \in {current, old}
      BY <1>1, <3>1 DEF OnceInv, OnceDirs
    <3>2. CASE dir.content = << >>
      BY <1>1, <1>2, <3>2 DEF Follow, IdsBelow
    <3> QED BY <3>1, <3>2
  <2> QED BY <2>1 DEF OnceDirs, Follow, Ordered
<1>4. OnceMemory'
  BY <1>1, <1>2 DEF OnceInv, OnceMemory, Ordered
<1> QED BY <1>3, <1>4 DEF OnceInv, OncePending, OnceRecovery

(* A step that leaves the log alone.                                        *)
LEMMA OnceQuiet ==
  ASSUME OnceInv, executed' = executed, mem' \in {mem, << >>}, log' = log,
         Serving' => Serving /\ nextSeq' = nextSeq,
         \A dir \in {current', old'} :
           dir \in {current, old} \/ dir.content = << >>,
         pc' \notin {"append", "read", "replay"},
         pc' \in {"removeOld", "rotate", "install"} =>
           tmp'.seq = nextSeq' - 1 /\ tmp'.content = mem'
  PROVE  OnceInv'
<1>1. Lines' = Lines
  BY DEF Lines
<1>2. OnceLog' /\ \A dir \in {current, old} : Follow(Lines', dir)
  BY <1>1 DEF OnceInv, OnceLog, OnceDirs
<1>3. OnceHandle'
  BY <1>1 DEF OnceInv, OnceHandle
<1> QED BY <1>2, <1>3, OnceFrame

LEMMA OnceExecute ==
  ASSUME TypeInv, OnceInv, Execute
  PROVE  OnceInv'
<1>1. PICK ver \in {0, package} :
        mem' = Append(mem, [id |-> executed + 1, ver |-> ver])
  BY DEF Execute
<1> DEFINE change == [id |-> executed + 1, ver |-> ver]
<1>2. /\ pc = "idle" /\ pc' = "append" /\ executed' = executed + 1
      /\ executed \in Nat /\ mem \in Seq(Change) /\ change \in Change
      /\ UNCHANGED << log, current, old, tmp, nextSeq >>
  BY DEF Execute, disk, handle, TypeInv, TypeOK, Content, Change, Versions
<1>3. /\ Len(mem') = Len(mem) + 1 /\ Len(mem) \in Nat
      /\ \A i \in 1 .. Len(mem) : mem'[i] = mem[i]
      /\ mem'[Len(mem) + 1] = change
      /\ Last(mem') = change /\ change.id = executed + 1
  <2>1. change.id = executed + 1
    OBVIOUS
  <2> HIDE DEF change
  <2>2. /\ Len(mem') = Len(mem) + 1 /\ Len(mem) \in Nat
        /\ \A i \in 1 .. Len(mem) : mem'[i] = mem[i]
        /\ mem'[Len(mem) + 1] = change
    BY <1>1, <1>2, AppendProperties, LenProperties DEF change
  <2>3. Last(mem') = change
    BY <1>1, <1>2, FrontLast DEF change
  <2> QED BY <2>1, <2>2, <2>3
<1> HIDE DEF change
<1>4. ASSUME NEW c \in Seq(Change), Ordered(c)
      PROVE  Ordered(c)' /\ IdsBelow(c, executed + 1)
  <2>1. ASSUME NEW i \in 1 .. Len(c)
        PROVE  c[i].id \in Nat /\ c[i].id <= executed
    <3>1. c[i] \in Change
      BY ElementOfSeq
    <3> QED BY <1>4, <3>1 DEF Ordered, Change
  <2>2. \A i \in 1 .. Len(c) : c[i].id <= executed + 1 /\ c[i].id < executed + 1
    BY <1>2, <2>1
  <2> QED BY <1>2, <1>4, <2>2 DEF Ordered, IdsBelow
<1>5. Lines' = Lines /\ log \in File /\ Len(log.tail) <= 1
  BY <1>2, StateTypes DEF Lines, OnceInv, OnceLog
<1>6. ASSUME NEW i \in 1 .. Len(Lines)
      PROVE  /\ Lines[i].id \in Nat /\ Lines[i].id <= executed
             /\ Lines[i].id < executed + 1
  <2>1. Lines[i] \in Line
    BY <1>5, AllShape, ElementOfSeq DEF Lines
  <2>2. Lines[i].id \in Nat /\ Lines[i].id <= executed
    BY <2>1 DEF Line, OnceInv, OnceLog
  <2> QED BY <1>2, <2>2
<1>7. OnceLog'
  BY <1>2, <1>5, <1>6 DEF OnceInv, OnceLog
<1>8. /\ current.content \in Seq(Change) /\ old.content \in Seq(Change)
      /\ Ordered(current.content) /\ Ordered(old.content) /\ Ordered(mem)
  BY DEF TypeInv, TypeOK, Dir, Content, OnceInv, OnceDirs, OnceMemory
<1>9. OnceDirs'
  <2>1. Ordered(current.content)' /\ Ordered(old.content)'
    <3>1. \A c \in Seq(Change) : Ordered(c) =>
            \A i \in 1 .. Len(c) :
              /\ c[i].id <= executed'
              /\ \A j \in 1 .. Len(c) : i < j => c[i].id < c[j].id
      BY <1>4 DEF Ordered
    <3> QED BY <1>2, <1>8, <3>1 DEF Ordered
  <2> QED BY <1>2, <1>5, <2>1 DEF OnceInv, OnceDirs
<1>10. OnceMemory'
  <2>1. ASSUME NEW i \in 1 .. Len(mem')
        PROVE  mem'[i].id <= executed'
    <3>1. CASE i = Len(mem) + 1
      BY <1>2, <1>3, <3>1
    <3>2. CASE i # Len(mem) + 1
      <4>1. i \in 1 .. Len(mem)
        BY <1>3, <3>2
      <4>2. IdsBelow(mem, executed + 1)
        BY <1>2, <1>4, <1>8
      <4>3. mem[i] \in Change
        BY <1>2, <4>1, ElementOfSeq
      <4>4. mem[i].id < executed + 1 /\ mem[i].id \in Nat
        BY <4>1, <4>2, <4>3 DEF IdsBelow, Change
      <4> QED BY <1>2, <1>3, <4>1, <4>4
    <3> QED BY <3>1, <3>2
  <2>2. ASSUME NEW i \in 1 .. Len(mem'), NEW j \in 1 .. Len(mem'), i < j
        PROVE  mem'[i].id < mem'[j].id
    <3>1. i \in 1 .. Len(mem)
      BY <1>3, <2>2
    <3>2. CASE j = Len(mem) + 1
      <4>1. IdsBelow(mem, executed + 1)
        BY <1>2, <1>4, <1>8
      <4> QED BY <1>3, <3>1, <3>2, <4>1 DEF IdsBelow
    <3>3. CASE j # Len(mem) + 1
      <4>1. j \in 1 .. Len(mem)
        BY <1>3, <3>3
      <4> QED BY <1>3, <1>8, <2>2, <3>1, <4>1 DEF Ordered
    <3> QED BY <3>2, <3>3
  <2> QED BY <1>2, <2>1, <2>2 DEF OnceMemory, Ordered
<1>11. OnceHandle'
  BY <1>2, <1>5 DEF OnceInv, OnceHandle, Serving
<1>12. OncePending'
  <2>1. IdsBelow(current.content, executed + 1)
    BY <1>4, <1>8
  <2>2. IdsBelow(old.content, executed + 1)
    BY <1>4, <1>8
  <2> QED BY <1>2, <1>3, <1>5, <1>6, <2>1, <2>2 DEF OncePending
<1>13. OnceRecovery'
  BY <1>2 DEF OnceRecovery
<1> QED BY <1>7, <1>9, <1>10, <1>11, <1>12, <1>13 DEF OnceInv

LEMMA OnceAppend ==
  ASSUME TypeInv, OnceInv, NoLateRecord, AppendRecord \/ AppendFails
  PROVE  OnceInv'
<1>1. /\ pc = "append" /\ pc' \in {"clear", "idle"}
      /\ UNCHANGED << current, old, tmp, mem, executed >>
  BY DEF AppendRecord, AppendFails
<1>2. PICK what \in {"nothing", "torn", "whole"} :
        /\ log' = LogAfter(what)
        /\ what = "whole" => nextSeq' = NextSeq + 1
        /\ what # "whole" => nextSeq' = NextSeq
  BY DEF AppendRecord, AppendFails, NoLateRecord
<1>3. NextSeq \in Nat \ {0}
  BY StateTypes
<1>4. /\ Len(log'.tail) <= 1 /\ Rising(Lines')
      /\ \A dir \in {current, old} : Follow(Lines', dir)
      /\ \A i \in 1 .. Len(Lines') :
           Lines'[i].id <= executed /\ Lines'[i].seq < nextSeq'
  <2>1. Lines' = AllLines(LogAfter(what))
    BY <1>2 DEF Lines
  <2> QED BY <1>1, <1>2, <2>1, WriteKeeps
<1>5. OnceLog'
  BY <1>1, <1>4 DEF OnceLog
<1>6. OnceHandle'
  BY <1>2, <1>3, <1>4 DEF OnceHandle
<1> QED BY <1>1, <1>4, <1>5, <1>6, OnceFrame

LEMMA OnceStart ==
  ASSUME TypeInv, OnceInv, NEW why, StartCheckpoint(why)
  PROVE  OnceInv'
<1>1. /\ pc = "idle" /\ pc' = "clear" /\ nextSeq' = NextSeq
      /\ UNCHANGED << log, current, old, tmp, mem, executed >>
  BY DEF StartCheckpoint, disk
<1>2. Lines' = Lines /\ NextSeq \in Nat \ {0}
  BY <1>1, StateTypes DEF Lines
<1>3. OnceHandle'
  <2>1. CASE nextSeq = 0
    <3>1. log = EmptyFile
      BY <1>1, <2>1 DEF OnceInv, OnceHandle, Serving
    <3>2. log \in File /\ log.tail = << >> /\ log.lines = << >>
      BY <3>1, StateTypes DEF EmptyFile
    <3>3. Lines = << >>
      BY <3>2, AllShape DEF Lines
    <3> QED BY <1>1, <1>2, <3>3 DEF OnceHandle
  <2>2. CASE nextSeq # 0
    BY <1>1, <1>2, <2>2 DEF OnceInv, OnceHandle, Serving, NextSeq
  <2> QED BY <2>1, <2>2
<1>4. OnceLog' /\ \A dir \in {current, old} : Follow(Lines', dir)
  BY <1>1, <1>2 DEF OnceInv, OnceLog, OnceDirs
<1> QED BY <1>1, <1>3, <1>4, OnceFrame

(* What is left of a directory is the directory, or holds nothing.          *)
LEMMA RestIsLess ==
  /\ \A dir : \A rest \in Remains(dir) \union Survives(dir) :
       rest = dir \/ rest.content = << >>
  /\ Absent.content = << >>
BY DEF Remains, Survives, Absent, Partial, Gutted

LEMMA OncePrepare ==
  ASSUME OnceInv,
         \/ ClearTmp \/ WriteBuffers \/ WriteManifest \/ RemoveOld \/ Rotate
         \/ DropOld \/ ReopenLog \/ CheckpointFails
  PROVE  OnceInv'
<1>1. /\ UNCHANGED << log, mem, nextSeq, executed >>
      /\ Serving /\ pc' \notin {"append", "read", "replay"}
  BY DEF ClearTmp, WriteBuffers, WriteManifest, RemoveOld, Rotate, DropOld,
     ReopenLog, CheckpointFails, disk, handle, Serving, CheckpointSteps
<1>2. ASSUME NEW dir \in {current', old'}
      PROVE  dir \in {current, old} \/ dir.content = << >>
  BY RestIsLess DEF ClearTmp, WriteBuffers, WriteManifest, RemoveOld, Rotate,
     DropOld, ReopenLog, CheckpointFails, disk
<1>3. pc' \in {"removeOld", "rotate", "install"} =>
        tmp'.seq = nextSeq' - 1 /\ tmp'.content = mem'
  BY DEF ClearTmp, WriteBuffers, WriteManifest, RemoveOld, Rotate, DropOld,
     ReopenLog, CheckpointFails, handle, OnceInv, OnceMemory
<1> QED BY <1>1, <1>2, <1>3, OnceQuiet

LEMMA OnceInstall ==
  ASSUME TypeInv, OnceInv, Install \/ ReplaceOnlyCheckpoint
  PROVE  OnceInv'
<1>1. /\ pc \in {"removeOld", "install"} /\ pc' = "dropOld" /\ current' = tmp
      /\ old' \in {old, Absent}
      /\ UNCHANGED << log, mem, nextSeq, executed >>
  BY DEF Install, ReplaceOnlyCheckpoint, handle
<1>2. tmp.seq = nextSeq - 1 /\ tmp.content = mem /\ nextSeq \in Nat \ {0}
  BY <1>1 DEF OnceInv, OnceMemory, TypeInv, TypeOK, CheckpointSteps
<1>3. /\ Lines' = Lines
      /\ \A i \in 1 .. Len(Lines) : Lines[i].seq < nextSeq
  BY <1>1, <1>2 DEF Lines, OnceInv, OnceHandle, Serving
<1>4. Follow(Lines, tmp)
  <2>1. log \in File /\ Len(log.tail) <= 1
    BY StateTypes DEF OnceInv, OnceLog
  <2>2. ASSUME NEW i \in 1 .. Len(Lines)
        PROVE  ~(Lines[i].seq > tmp.seq)
    <3>1. Lines[i] \in Line
      BY <2>1, AllShape, ElementOfSeq DEF Lines
    <3>2. Lines[i].seq \in Nat
      BY <3>1 DEF Line
    <3> QED BY <1>2, <1>3, <3>2
  <2> QED BY <2>2 DEF Follow
<1>5. OnceDirs'
  <2>1. /\ Ordered(mem) /\ Ordered(old.content) /\ Follow(Lines, old)
        /\ Ordered(<< >>)
    BY DEF OnceInv, OnceDirs, OnceMemory, Ordered
  <2>2. ASSUME NEW dir, dir.content = << >>
        PROVE  Follow(Lines, dir)
    BY <2>2 DEF Follow, IdsBelow
  <2>3. Follow(Lines, Absent)
    BY <2>2, RestIsLess
  <2> QED BY <1>1, <1>2, <1>3, <1>4, <2>1, <2>3, RestIsLess DEF OnceDirs, Ordered
<1> QED BY <1>1, <1>3, <1>5 DEF OnceInv, OnceLog, OnceMemory, OnceHandle,
           OncePending, OnceRecovery, Serving, Ordered

LEMMA OnceTruncate ==
  ASSUME TypeInv, OnceInv, TruncateLog
  PROVE  OnceInv'
<1>1. /\ pc' = "reopen" /\ log' = EmptyFile
      /\ UNCHANGED << current, old, tmp, mem, nextSeq, executed >>
  BY DEF TruncateLog
<1>2. EmptyFile \in File /\ EmptyFile.tail = << >> /\ EmptyFile.lines = << >>
  BY EmptySeq DEF EmptyFile, File
<1>3. Lines' = << >>
  BY <1>1, <1>2, AllShape DEF Lines
<1>4. OnceLog' /\ OnceHandle' /\ \A dir \in {current, old} : Follow(Lines', dir)
  BY <1>1, <1>2, <1>3 DEF OnceLog, OnceHandle, Rising, Follow
<1> QED BY <1>1, <1>4, OnceFrame

LEMMA OnceCrash ==
  ASSUME TypeInv, OnceInv, Crash
  PROVE  OnceInv'
<1>1. PICK what \in {"nothing", "torn", "noNewline", "whole"} :
        log' = LogAfter(what) /\ (pc # "append" => what = "nothing")
  BY DEF Crash
<1>2. /\ pc' = "down" /\ mem' = << >> /\ executed' = executed
  BY DEF Crash, LosesMemory
<1>3. \A dir \in {current', old'} : dir \in {current, old} \/ dir.content = << >>
  BY RestIsLess DEF Crash
<1>4. OnceLog' /\ \A dir \in {current, old} : Follow(Lines', dir)
  <2>1. CASE pc = "append"
    <3>1. Lines' = AllLines(LogAfter(what))
      BY <1>1 DEF Lines
    <3> QED BY <1>1, <1>2, <2>1, <3>1, WriteKeeps DEF OnceLog
  <2>2. CASE pc # "append"
    <3>1. log' = log
      BY <1>1, <2>2 DEF LogAfter
    <3> QED BY <1>2, <3>1 DEF OnceInv, OnceLog, OnceDirs, Lines
  <2> QED BY <2>1, <2>2
<1>5. OnceHandle'
  BY <1>2 DEF OnceHandle, Serving
<1> QED BY <1>2, <1>3, <1>4, <1>5, OnceFrame

(* Recovery: the records behind the checkpoint are newer than its content,  *)
(* and each record than those before it.                                    *)
LEMMA OnceRestore ==
  ASSUME TypeInv, OnceInv, Restore
  PROVE  OnceInv'
<1>1. CASE Refuse
  <2>1. pc' = "refused" /\ mem' = << >> /\ UNCHANGED << log, current, old, executed >>
    BY <1>1 DEF Restore, Refuse, disk
  <2> QED BY <2>1, OnceQuiet DEF Serving
<1>2. CASE ~Refuse
  <2>1. /\ pc' = "read" /\ mem' = Existing.content
        /\ UNCHANGED << log, current, old, executed >>
    BY <1>2 DEF Restore, disk
  <2>2. Existing' = Existing /\ Lines' = Lines
    BY <2>1 DEF Existing, Lines
  <2>3. Ordered(Existing.content)
    BY RestIsLess DEF Existing, OnceInv, OnceDirs, Ordered
  <2> QED BY <2>1, <2>2, <2>3 DEF OnceInv, OnceLog, OnceDirs, OnceMemory,
             OnceHandle, OncePending, OnceRecovery, Serving, Ordered
<1> QED BY <1>1, <1>2

LEMMA OnceReadLog ==
  ASSUME TypeInv, OnceInv, ReadLog
  PROVE  OnceInv'
<1>1. CASE pc' = "refused"
  <2>1. mem' = << >> /\ UNCHANGED << log, current, old, executed >>
    BY <1>1 DEF ReadLog, Refuse
  <2> QED BY <1>1, <2>1, OnceQuiet DEF Serving
<1>2. CASE pc' # "refused"
  <2>1. /\ pc = "read" /\ pc' = "replay" /\ Readable(log)
        /\ log' = IF EndsInJunk(log) THEN Rewritten(log) ELSE log
        /\ UNCHANGED << current, old, mem, executed >>
    BY <1>2 DEF ReadLog, Refuse
  <2>2. /\ log \in File /\ Len(log.tail) <= 1 /\ Rising(Lines)
        /\ Lines \in Seq(Line) /\ Len(Lines) \in Nat
    BY StateTypes, AllShape DEF OnceInv, OnceLog, Lines
  <2>3. /\ Records(log) \in Seq(Line)
        /\ Len(Records(log)) \in Nat /\ Len(Records(log)) <= Len(Lines)
        /\ \A i \in 1 .. Len(Records(log)) : Records(log)[i] = Lines[i]
    <3>1. CASE ~EndsInJunk(log)
      BY <2>2, <3>1 DEF Records, Lines
    <3>2. CASE EndsInJunk(log)
      <4>1. Len(Lines) >= 1
        BY <2>2, <3>2, EmptySeq DEF EndsInJunk, Lines
      <4>2. Records(log) = SubSeq(Lines, 1, Len(Lines) - 1)
        BY <3>2 DEF Records, Lines
      <4>3. \A i \in 1 .. Len(Lines) - 1 : Lines[i] \in Line
        BY <2>2, ElementOfSeq
      <4> DEFINE n == Len(Lines) - 1
      <4>4. n \in Nat /\ n <= Len(Lines) /\ \A i \in 1 .. n : Lines[i] \in Line
        BY <2>2, <4>1, <4>3
      <4>5. /\ SubSeq(Lines, 1, n) \in Seq(Line)
            /\ Len(SubSeq(Lines, 1, n)) = IF 1 <= n THEN n - 1 + 1 ELSE 0
            /\ \A i \in 1 .. n - 1 + 1 : SubSeq(Lines, 1, n)[i] = Lines[1 + i - 1]
        <5> HIDE DEF n
        <5> QED BY <4>4, SubSeqProperties
      <4>6. Records(log) = SubSeq(Lines, 1, n)
        BY <4>2
      <4> HIDE DEF n
      <4>7. Len(SubSeq(Lines, 1, n)) = n
        BY <4>4, <4>5
      <4>8. \A i \in 1 .. n : i \in 1 .. n - 1 + 1 /\ 1 + i - 1 = i
        BY <4>4
      <4> QED BY <4>4, <4>5, <4>6, <4>7, <4>8
    <3> QED BY <3>1, <3>2
  <2>4. Lines' = Records(log) /\ Len(log'.tail) <= 1
    <3>1. CASE ~EndsInJunk(log)
      BY <2>1, <2>2, <3>1 DEF Records, Lines
    <3>2. CASE EndsInJunk(log)
      <4>1. /\ log' \in File /\ log'.tail = << >> /\ log'.lines = Records(log)
        BY <2>1, <2>2, <2>3, <3>2, EmptySeq DEF Rewritten, File
      <4>2. Len(log'.tail) <= 1
        BY <4>1
      <4> QED BY <4>1, <4>2, AllShape DEF Lines
    <3> QED BY <3>1, <3>2
  <2>5. \A i \in 1 .. Len(Lines') : Lines'[i].seq > 0
    BY <2>1, <2>4 DEF Readable
  <2>6. \A i \in 1 .. Len(Lines') :
          i \in 1 .. Len(Lines) /\ Lines'[i] = Lines[i]
    BY <2>2, <2>3, <2>4
  <2>7. OnceLog'
    BY <2>1, <2>4, <2>6 DEF OnceInv, OnceLog, Rising
  <2>8. OnceDirs'
    BY <2>1, <2>6 DEF OnceInv, OnceDirs, Follow, Ordered
  <2>9. OnceMemory' /\ OnceHandle' /\ OncePending'
    BY <2>1 DEF OnceInv, OnceMemory, OnceHandle, OncePending, Serving, Ordered
  <2>10. OnceRecovery'
    <3>1. mem' = Existing.content /\ Existing' = Existing
      BY <2>1 DEF OnceInv, OnceRecovery, Existing
    <3>2. Follow(Lines, Existing)
      <4>1. Follow(Lines, current) /\ Follow(Lines, old)
        BY DEF OnceInv, OnceDirs
      <4>2. Follow(Lines, Absent)
        BY RestIsLess DEF Follow, IdsBelow
      <4> QED BY <4>1, <4>2 DEF Existing
    <3> QED BY <2>1, <2>5, <2>6, <3>1, <3>2 DEF OnceRecovery, Follow
  <2> QED BY <2>7, <2>8, <2>9, <2>10 DEF OnceInv
<1> QED BY <1>1, <1>2

(* While recovery replays, every line of the log is a record.               *)
LEMMA AllRecords ==
  ASSUME TypeInv, OnceInv, pc = "replay"
  PROVE  /\ Records(log) = Lines
         /\ Lines \in Seq(Line) /\ Len(Lines) \in Nat
<1>1. Lines \in Seq(Line) /\ Len(Lines) \in Nat
  BY StateTypes, AllShape DEF OnceInv, OnceLog, Lines
<1>2. ~EndsInJunk(log)
  <2>1. SUFFICES ASSUME Lines # << >>, Lines[Len(Lines)].seq = 0
                 PROVE  FALSE
    BY DEF EndsInJunk, Lines
  <2>2. Len(Lines) \in 1 .. Len(Lines)
    BY <1>1, <2>1, EmptySeq
  <2>3. Lines[Len(Lines)].seq > 0
    BY <2>2 DEF OnceInv, OnceRecovery
  <2> QED BY <2>1, <2>3
<1> QED BY <1>1, <1>2 DEF Records, Lines

LEMMA OnceReplay ==
  ASSUME TypeInv, OnceInv, ReplayRecord
  PROVE  OnceInv'
<1>1. CASE pc' = "refused"
  <2>1. mem' = << >> /\ UNCHANGED << log, current, old, executed >>
    BY <1>1 DEF ReplayRecord, Refuse, disk
  <2> QED BY <1>1, <2>1, OnceQuiet DEF Serving
<1>2. CASE pc' # "refused"
  <2> DEFINE record == Lines[pos + 1]
  <2>1. /\ pc = "replay" /\ pc' = "replay" /\ pos' = pos + 1 /\ pos \in Nat
        /\ UNCHANGED << log, current, old, executed, nextSeq >>
        /\ \/ InCheckpoint(Records(log)[pos + 1]) /\ mem' = mem
           \/ /\ ~InCheckpoint(Records(log)[pos + 1])
              /\ mem' = Append(mem, ChangeOf(Records(log)[pos + 1]))
        /\ pos < Len(Records(log))
    BY <1>2 DEF ReplayRecord, Refuse, FileChanged, disk, handle, TypeInv, TypeOK
  <2>2. /\ Records(log) = Lines /\ Lines \in Seq(Line) /\ Len(Lines) \in Nat
    BY <2>1, AllRecords
  <2>3. pos + 1 \in 1 .. Len(Lines)
    BY <2>1, <2>2
  <2>4. record \in Line /\ ChangeOf(record) \in Change /\ ChangeOf(record).id = record.id
    <3>1. record \in Line
      BY <2>2, <2>3, ElementOfSeq
    <3> QED BY <3>1 DEF ChangeOf, Change, Line
  <2>5. Existing' = Existing /\ Lines' = Lines /\ Existing.seq \in Nat
    BY <2>1, StateTypes DEF Existing, Lines, Dir
  <2>6. /\ Ordered(mem) /\ mem \in Seq(Change) /\ Len(mem) \in Nat
        /\ record.id <= executed /\ executed \in Nat
    BY <2>3, LenProperties DEF OnceInv, OnceMemory, OnceLog, TypeInv, TypeOK,
       Content
  <2>7. /\ \A i \in 1 .. Len(Lines) : Lines[i].seq > 0
        /\ \A j \in 1 .. Len(Lines) :
             j > pos /\ Lines[j].seq > Existing.seq => IdsBelow(mem, Lines[j].id)
    BY <2>1 DEF OnceInv, OnceRecovery
  <2> HIDE DEF record
  <2>8. CASE InCheckpoint(Records(log)[pos + 1]) /\ mem' = mem
    <3>1. OnceRecovery'
      BY <2>1, <2>5, <2>7, <2>8 DEF OnceRecovery
    <3> QED BY <2>1, <2>5, <2>8, <3>1 DEF OnceInv, OnceLog, OnceDirs,
               OnceMemory, OnceHandle, OncePending, Serving, Ordered
  <2>9. CASE /\ ~InCheckpoint(Records(log)[pos + 1])
             /\ mem' = Append(mem, ChangeOf(Records(log)[pos + 1]))
    <3>1. record.seq > Existing.seq /\ mem' = Append(mem, ChangeOf(record))
      BY <2>2, <2>4, <2>5, <2>9 DEF InCheckpoint, record, Line
    <3>2. /\ Len(mem') = Len(mem) + 1
          /\ \A i \in 1 .. Len(mem) : mem'[i] = mem[i]
          /\ mem'[Len(mem) + 1] = ChangeOf(record)
      BY <2>4, <2>6, <3>1, AppendProperties
    <3>3. ASSUME NEW i \in 1 .. Len(mem')
          PROVE  \/ i \in 1 .. Len(mem) /\ mem'[i] = mem[i]
                 \/ i = Len(mem) + 1 /\ mem'[i].id = record.id
      BY <2>4, <2>6, <3>2
    <3>4. IdsBelow(mem, record.id)
      BY <2>1, <2>3, <2>7, <3>1 DEF record
    <3>5. OnceMemory'
      <4>1. \A i \in 1 .. Len(mem') : mem'[i].id <= executed
        BY <2>6, <3>3 DEF Ordered
      <4>2. ASSUME NEW i \in 1 .. Len(mem'), NEW j \in 1 .. Len(mem'), i < j
            PROVE  mem'[i].id < mem'[j].id
        <5>1. i \in 1 .. Len(mem) /\ mem'[i] = mem[i]
          BY <2>6, <3>2, <4>2
        <5>2. CASE j \in 1 .. Len(mem) /\ mem'[j] = mem[j]
          BY <2>6, <4>2, <5>1, <5>2 DEF Ordered
        <5>3. CASE mem'[j].id = record.id
          BY <3>4, <5>1, <5>3 DEF IdsBelow
        <5> QED BY <3>3, <5>2, <5>3
      <4> QED BY <2>1, <4>1, <4>2 DEF OnceMemory, Ordered
    <3>6. OnceRecovery'
      <4>1. ASSUME NEW j \in 1 .. Len(Lines), j > pos + 1,
                   Lines[j].seq > Existing.seq
            PROVE  IdsBelow(mem', Lines[j].id)
        <5>1. record.id < Lines[j].id
          <6>1. pos + 1 < j /\ record.seq > 0 /\ Lines[j].seq > 0
            BY <2>3, <2>7, <4>1 DEF record
          <6> QED BY <2>3, <6>1 DEF OnceInv, OnceLog, Rising, record
        <5>2. IdsBelow(mem, Lines[j].id)
          BY <2>1, <2>7, <4>1
        <5> QED BY <3>3, <5>1, <5>2 DEF IdsBelow
      <4> QED BY <2>1, <2>5, <2>7, <4>1 DEF OnceRecovery
    <3> QED BY <2>1, <2>5, <3>5, <3>6 DEF OnceInv, OnceLog, OnceDirs,
               OnceHandle, OncePending, Serving, Ordered
  <2> QED BY <2>1, <2>8, <2>9
<1> QED BY <1>1, <1>2

LEMMA OnceFinish ==
  ASSUME TypeInv, OnceInv, FinishRecovery
  PROVE  OnceInv'
<1>1. /\ pc = "replay" /\ pc' = "idle" /\ nextSeq' = LastOnDisk + 1
      /\ UNCHANGED << log, current, old, mem, executed >>
  BY DEF FinishRecovery, disk
<1>2. /\ Records(log) = Lines /\ Lines \in Seq(Line) /\ Len(Lines) \in Nat
      /\ Lines' = Lines /\ LastOnDisk \in Nat /\ LastSeq(log) \in Nat
      /\ Existing.seq \in Nat
  <2>1. log \in File /\ Existing \in Dir /\ LastOnDisk \in Nat
    BY StateTypes
  <2>2. Junk \in Line
    BY DEF Junk, Line
  <2>3. LastSeq(log) \in Nat /\ Existing.seq \in Nat
    BY <2>1, <2>2, FileTypes DEF Dir
  <2> QED BY <1>1, <2>1, <2>3, AllRecords DEF Lines
<1>3. ASSUME NEW i \in 1 .. Len(Lines)
      PROVE  Lines[i].seq < LastOnDisk + 1
  <2>1. /\ Lines # << >> /\ Len(Lines) \in 1 .. Len(Lines)
    BY <1>2
  <2>2. LastSeq(log) = Lines[Len(Lines)].seq
    BY <1>2, <2>1 DEF LastSeq
  <2>3. LastSeq(log) <= LastOnDisk
    BY <1>2 DEF LastOnDisk
  <2>4. /\ Lines[i].seq > 0 /\ Lines[Len(Lines)].seq > 0
    BY <1>1, <2>1 DEF OnceInv, OnceRecovery
  <2>5. Lines[i].seq <= Lines[Len(Lines)].seq
    <3>1. CASE i = Len(Lines)
      BY <1>2, <2>2, <3>1
    <3>2. CASE i # Len(Lines)
      <4>1. i < Len(Lines)
        BY <1>2, <3>2
      <4>2. Lines[i] \in Line
        BY <1>2, ElementOfSeq
      <4>3. Lines[i].seq < Lines[Len(Lines)].seq
        BY <2>1, <2>4, <4>1 DEF OnceInv, OnceLog, Rising
      <4> QED BY <1>2, <2>2, <4>2, <4>3 DEF Line
    <3> QED BY <3>1, <3>2
  <2>6. Lines[i].seq \in Nat
    <3>1. Lines[i] \in Line
      BY <1>2, ElementOfSeq
    <3> QED BY <3>1 DEF Line
  <2> QED BY <1>2, <2>2, <2>3, <2>5, <2>6
<1>4. OnceHandle'
  BY <1>1, <1>2, <1>3 DEF OnceHandle
<1>5. OnceLog' /\ \A dir \in {current, old} : Follow(Lines', dir)
  BY <1>1, <1>2 DEF OnceInv, OnceLog, OnceDirs
<1> QED BY <1>1, <1>4, <1>5, OnceFrame

LEMMA OnceStep ==
  ASSUME NoLateRecord, TypeInv, OnceInv, [Next]_vars
  PROVE  OnceInv'
<1>1. CASE Execute
  BY <1>1, OnceExecute
<1>2. CASE AppendRecord \/ AppendFails
  BY <1>2, OnceAppend
<1>3. CASE CheckpointCommand \/ Save
  BY <1>3, OnceStart DEF CheckpointCommand, Save
<1>4. CASE \/ ClearTmp \/ WriteBuffers \/ WriteManifest \/ RemoveOld \/ Rotate
           \/ DropOld \/ ReopenLog \/ CheckpointFails
  BY <1>4, OncePrepare
<1>5. CASE Install \/ ReplaceOnlyCheckpoint
  BY <1>5, OnceInstall
<1>6. CASE TruncateLog
  BY <1>6, OnceTruncate
<1>7. CASE Crash
  BY <1>7, OnceCrash
<1>8. CASE ExternalEdit \/ UNCHANGED vars
  BY <1>8 DEF ExternalEdit, vars, disk, handle, OnceInv, OnceLog, OnceDirs,
     OnceMemory, OnceHandle, OncePending, OnceRecovery, Lines, Existing,
     Serving, Ordered
<1>9. CASE Restore
  BY <1>9, OnceRestore
<1>10. CASE ReadLog
  BY <1>10, OnceReadLog
<1>11. CASE ReplayRecord
  BY <1>11, OnceReplay
<1>12. CASE FinishRecovery
  BY <1>12, OnceFinish
<1>13. CASE RecoveryFails \/ Restart
  <2>1. /\ pc' \in {"refused", "down"} /\ mem' \in {mem, << >>}
        /\ UNCHANGED << log, current, old, executed >>
    BY <1>13 DEF RecoveryFails, Restart, Refuse, disk
  <2> QED BY <2>1, OnceQuiet DEF Serving
<1> QED BY <1>1, <1>2, <1>3, <1>4, <1>5, <1>6, <1>7, <1>8, <1>9, <1>10, <1>11,
           <1>12, <1>13 DEF Next, EngineStep

(* No statement is applied twice, and the statements of a database are in    *)
(* the order of their execution: replay_active skips what the checkpoint    *)
(* has, and the log never holds a record twice. Whatever else may happen to *)
(* the files, this needs only that a failed append leaves no record behind; *)
(* where one does, it is false (run WalFailedSync).                         *)
THEOREM AppliedOnceCorrect == ASSUME NoLateRecord PROVE Spec => []AppliedOnce
<1>1. Init => TypeInv
  BY InvInit, CleanState
<1>2. Init => OnceInv
  <2> SUFFICES ASSUME Init PROVE OnceInv
    OBVIOUS
  <2>1. EmptyFile \in File /\ EmptyFile.tail = << >> /\ EmptyFile.lines = << >>
    BY EmptySeq DEF EmptyFile, File
  <2>2. Lines = << >>
    BY <2>1, AllShape DEF Init, Lines
  <2> QED BY <2>1, <2>2, RestIsLess DEF Init, OnceInv, OnceLog, OnceDirs,
             OnceMemory, OnceHandle, OncePending, OnceRecovery, Rising, Follow,
             Ordered
<1>3. TypeInv /\ OnceInv /\ [Next]_vars => TypeInv' /\ OnceInv'
  BY TypeStep, OnceStep
<1>4. OnceInv => AppliedOnce
  BY DEF OnceInv, OnceMemory, Ordered, AppliedOnce
<1> QED BY <1>1, <1>2, <1>3, <1>4, PTL DEF Spec

(* Between statements the files hold what the database shows, except for    *)
(* the statement whose append failed.                                       *)
THEOREM DurableWhenIdle == ASSUME Sane PROVE Spec => []IdleIsDurable
<1>1. IInv => IdleIsDurable
  <2> SUFFICES ASSUME IInv, pc = "idle"
               PROVE  \/ DurableContent = mem
                      \/ broken /\ DurableContent = Front(mem)
    BY DEF IdleIsDurable
  <2>1. DurableContent = Disk
    BY CleanState
  <2>2. Disk = mem \/ (broken /\ OneAhead)
    BY DEF IInv, MemoryShape
  <2> QED BY <2>1, <2>2 DEF OneAhead
<1> QED BY <1>1, Inductive, PTL

-----------------------------------------------------------------------------
(***************************************************************************)
(* Module Durability implements DurableStore, for every bound, in the      *)
(* environment of Sane: every file operation, failure and crash that can   *)
(* happen there is a step of the store or changes nothing it shows.        *)
(***************************************************************************)

(* What the store shows.                                                    *)
View == IF Serving THEN mem ELSE << >>

Mode ==
  IF Serving THEN "serving" ELSE IF pc = "refused" THEN "refused" ELSE "recovering"

(* The store's steps in these terms.                                        *)
Stutters == UNCHANGED << Disk, promised, View, Mode >>

Applies ==
  /\ Mode = "serving" /\ View = Disk
  /\ Len(View') = Len(View) + 1 /\ IsPrefix(View, View')
  /\ UNCHANGED << Disk, promised, Mode >>

Commits ==
  /\ Mode = "serving" /\ Disk' = View /\ promised' \in {promised, View}
  /\ UNCHANGED << View, Mode >>

Crashes ==
  /\ Mode = "serving" /\ Disk' \in {Disk, View} /\ View' = << >>
  /\ Mode' = "recovering" /\ UNCHANGED promised

Recovers ==
  /\ Mode = "recovering" /\ Mode' = "serving" /\ View' = Disk
  /\ UNCHANGED << Disk, promised >>

GivesUp ==
  /\ Mode = "recovering" /\ Mode' = "refused"
  /\ UNCHANGED << Disk, promised, View >>

Retries ==
  /\ Mode = "refused" /\ Mode' = "recovering"
  /\ UNCHANGED << Disk, promised, View >>

StoreStep ==
  \/ Stutters \/ Applies \/ Commits \/ Crashes \/ Recovers \/ GivesUp \/ Retries

LEMMA NeverGutted == IInv => Existing.state # "gutted" /\ DurableContent = Disk
<1>1. IInv => Existing.state # "gutted"
  BY DEF IInv, DirShape, Existing, HasManifest, Absent
<1> QED BY <1>1, CleanState

LEMMA StoreMaps ==
  ASSUME IInv, IInv', StoreStep
  PROVE  [Store!Next]_(Store!vars)
<1>1. Existing.state # "gutted" /\ DurableContent = Disk
  BY NeverGutted
<1>2. (IInv => Existing.state # "gutted" /\ DurableContent = Disk)'
  BY NeverGutted, PTL
<1>3. Serving \in BOOLEAN
  BY DEF Serving
<1> QED BY <1>1, <1>2 DEF StoreStep, Stutters, Applies, Commits, Crashes,
    Recovers, GivesUp, Retries, View, Mode, Store!Next, Store!vars, Store!Apply,
    Store!Commit, Store!Crash, Store!Recover, Store!Refuse, Store!Retry,
    Store!IsPrefix, IsPrefix

-----------------------------------------------------------------------------
(* Where the checkpoint in force and the log's lines stay, so does the disk.*)
LEMMA Unseen ==
  ASSUME IInv, log'.lines = log.lines, Existing' = Existing, mem' = mem,
         promised' = promised, Serving, Serving'
  PROVE  Stutters
BY SameDisk DEF Stutters, View, Mode

LEMMA ExecuteMaps ==
  ASSUME IInv, Execute
  PROVE  Applies
<1>1. PICK ver \in {0, package} :
        mem' = Append(mem, [id |-> executed + 1, ver |-> ver])
  BY DEF Execute
<1>2. /\ pc = "idle" /\ ~broken /\ pc' = "append"
      /\ UNCHANGED << log, current, old, promised >>
  BY DEF Execute, disk
<1>3. Existing' = Existing /\ Disk' = Disk
  BY <1>2, SameDisk DEF Existing
<1>4. View = Disk /\ View = mem /\ Mode = "serving" /\ View' = mem' /\ Mode' = "serving"
  BY <1>2 DEF IInv, MemoryShape, View, Mode, Serving
<1>5. /\ mem \in Seq(Change) /\ [id |-> executed + 1, ver |-> ver] \in Change
  BY CleanState DEF IInv, TypeOK, Change, Versions
<1>6. /\ mem' \in Seq(Change) /\ Len(mem') = Len(mem) + 1
      /\ \A i \in 1 .. Len(mem) : mem'[i] = mem[i]
  BY <1>1, <1>5, AppendProperties
<1>7. IsPrefix(mem, mem')
  BY <1>5, <1>6, PrefixByIndex, LenProperties
<1> QED BY <1>2, <1>3, <1>4, <1>6, <1>7 DEF Applies

LEMMA AppendMaps ==
  ASSUME IInv, Sane, AppendRecord \/ AppendFails
  PROVE  Stutters \/ Commits
<1>1. /\ pc = "append" /\ Existing' = Existing /\ mem' = mem /\ Serving
      /\ pc' \in {"clear", "idle"}
  BY DEF AppendRecord, AppendFails, Existing, Serving
<1>2. Serving' /\ Mode = "serving" /\ Mode' = "serving" /\ View = mem /\ View' = mem
  BY <1>1 DEF Serving, View, Mode
<1>3. CASE AppendRecord
  <2>1. log' = LogAfter("whole") /\ promised' \in {promised, mem}
    BY <1>3 DEF AppendRecord
  <2>2. Disk' = mem
    BY <1>1, <2>1, PendingWrites DEF Disk
  <2> QED BY <1>2, <2>1, <2>2 DEF Commits
<1>4. CASE AppendFails
  <2>1. log' \in {LogAfter("nothing"), LogAfter("torn")} /\ promised' = promised
    BY <1>4 DEF AppendFails, Sane
  <2>2. log'.lines = log.lines
    BY <1>1, <2>1, PendingWrites
  <2> QED BY <1>1, <1>2, <2>1, <2>2, Unseen
<1> QED BY <1>3, <1>4

LEMMA PrepareMaps ==
  ASSUME IInv,
         CheckpointCommand \/ Save \/ ClearTmp \/ WriteBuffers \/ WriteManifest
  PROVE  Stutters
<1>1. /\ pc \in {"idle"} \cup CheckpointSteps /\ pc' \in {"idle"} \cup CheckpointSteps
      /\ UNCHANGED << log, current, old, mem, promised >>
  BY DEF CheckpointCommand, Save, StartCheckpoint, ClearTmp, WriteBuffers,
     WriteManifest, disk, CheckpointSteps
<1>2. Existing' = Existing /\ Serving /\ Serving'
  BY <1>1 DEF Existing, Serving, CheckpointSteps
<1> QED BY <1>1, <1>2, Unseen

LEMMA SwapMaps ==
  ASSUME IInv, Sane, RemoveOld \/ Rotate \/ DropOld
  PROVE  Stutters
<1>1. /\ pc \in {"removeOld", "rotate", "dropOld"}
      /\ pc' \in {"rotate", "install", "truncate"}
      /\ UNCHANGED << log, mem, promised >>
  BY DEF RemoveOld, Rotate, DropOld
<1>2. Existing' = Existing
  <2>1. CASE RemoveOld
    <3>1. pc = "removeOld" /\ old' = Absent /\ current' = current /\ ~OnlyOld
      BY <2>1 DEF RemoveOld, Sane
    <3>2. old' \in Remains(old)
      BY <3>1 DEF Remains, Exists
    <3> QED BY <3>1, <3>2, RemoveKeepsExisting
  <2>2. CASE Rotate
    <3>1. old = Absent /\ current.state \in {"absent", "full"}
      BY <2>2 DEF Rotate, IInv, DirShape
    <3> QED BY <2>2, <3>1 DEF Rotate, Existing, HasManifest, Exists, Absent
  <2>3. CASE DropOld
    BY <2>3, RemoveKeepsExisting DEF DropOld
  <2> QED BY <2>1, <2>2, <2>3
<1> QED BY <1>1, <1>2, Unseen DEF Serving

LEMMA InstallMaps ==
  ASSUME IInv, ReplaceOnlyCheckpoint \/ Install
  PROVE  Commits
<1>1. /\ pc \in {"removeOld", "install"} /\ pc' = "dropOld" /\ current' = tmp
      /\ UNCHANGED << log, mem, promised >>
  BY DEF ReplaceOnlyCheckpoint, Install
<1>2. tmp.state = "full" /\ Rebuilt(tmp, log.lines) = mem
  BY <1>1, Supersedes
<1>3. Existing' = tmp
  BY <1>1, <1>2 DEF Existing, HasManifest
<1>4. Disk' = mem
  BY <1>1, <1>2, <1>3 DEF Disk
<1> QED BY <1>1, <1>4 DEF Commits, View, Mode, Serving

LEMMA InstalledDisk ==
  IInv /\ pc \in {"dropOld", "truncate", "reopen"} => Disk = mem
BY Installed

LEMMA TruncateMaps ==
  ASSUME IInv, IInv', TruncateLog
  PROVE  Stutters
<1>1. /\ pc = "truncate" /\ pc' = "reopen" /\ UNCHANGED << mem, promised >>
  BY DEF TruncateLog
<1>2. (IInv /\ pc \in {"dropOld", "truncate", "reopen"} => Disk = mem)'
  BY InstalledDisk, PTL
<1>3. Disk = mem /\ Disk' = mem'
  BY <1>1, <1>2, InstalledDisk
<1> QED BY <1>1, <1>3 DEF Stutters, View, Mode, Serving

LEMMA ReopenMaps ==
  ASSUME IInv, ReopenLog
  PROVE  Commits
<1>1. /\ pc = "reopen" /\ pc' = "idle" /\ promised' = mem /\ mem' = mem
      /\ log' = log /\ Existing' = Existing
  BY DEF ReopenLog, disk, Existing
<1>2. Disk = mem /\ Disk' = Disk
  BY <1>1, Installed, SameDisk
<1> QED BY <1>1, <1>2 DEF Commits, View, Mode, Serving

LEMMA CheckpointFailsMaps ==
  ASSUME IInv, AutoInv, Sane, CheckpointFails
  PROVE  Stutters \/ Commits
<1>1. /\ pc \in CheckpointSteps /\ pc' = "idle"
      /\ promised' = IF reason = "auto" THEN mem ELSE promised
      /\ UNCHANGED << log, current, mem >>
  BY DEF CheckpointFails
<1>2. Existing' = Existing
  <2>1. old' = old \/ (pc = "removeOld" /\ ~OnlyOld /\ old' \in Remains(old))
    BY DEF CheckpointFails, Sane
  <2> QED BY <1>1, <2>1, RemoveKeepsExisting
<1>3. Disk' = Disk
  BY <1>1, <1>2, SameDisk
<1>4. /\ Mode = "serving" /\ Mode' = "serving" /\ View = mem /\ View' = mem
      /\ Serving /\ Serving'
  BY <1>1 DEF View, Mode, Serving, CheckpointSteps
<1>5. CASE reason = "auto"
  <2>1. Disk = mem
    BY <1>1, <1>5 DEF AutoInv, IInv, MemoryShape
  <2> QED BY <1>1, <1>3, <1>4, <1>5, <2>1 DEF Commits
<1>6. CASE reason # "auto"
  BY <1>1, <1>2, <1>4, <1>6, Unseen
<1> QED BY <1>5, <1>6

LEMMA CrashMaps ==
  ASSUME IInv, Sane, Crash
  PROVE  Stutters \/ Crashes
<1>1. PICK what \in {"nothing", "torn", "whole"} :
        /\ log' = LogAfter(what)
        /\ pc # "append" => what = "nothing"
  BY DEF Crash, Sane
<1>2. /\ pc' = "down" /\ mem' = << >> /\ promised' = promised
      /\ current' = current /\ pc \notin {"down", "refused"}
  BY DEF Crash, LosesMemory, Survives, Sane
<1>3. Existing' = Existing
  <2>1. \/ old' = old
        \/ /\ pc \in {"removeOld", "dropOld"}
           /\ pc = "removeOld" => ~OnlyOld
           /\ old' \in Remains(old)
    BY DEF Crash, Survives, Sane
  <2> QED BY <1>2, <2>1, RemoveKeepsExisting
<1>4. Disk' \in {Disk, mem} /\ (~Serving => Disk' = Disk)
  <2>1. CASE pc = "append"
    <3>1. Serving
      BY <2>1 DEF Serving
    <3>2. CASE what = "whole"
      BY <1>1, <1>3, <2>1, <3>1, <3>2, PendingWrites DEF Disk
    <3>3. CASE what # "whole"
      <4>1. log'.lines = log.lines
        BY <1>1, <2>1, <3>3, PendingWrites
      <4> QED BY <1>3, <4>1, SameDisk
    <3> QED BY <3>1, <3>2, <3>3
  <2>2. CASE pc # "append"
    <3>1. log' = log
      <4>1. linked \/ ~linked => LogAfter("nothing") = log
        BY DEF LogAfter
      <4> QED BY <1>1, <2>2, <4>1
    <3> QED BY <1>3, <3>1, SameDisk
  <2> QED BY <2>1, <2>2
<1>5. Mode' = "recovering" /\ View' = << >>
  BY <1>2 DEF Mode, View, Serving
<1>6. CASE Serving
  BY <1>2, <1>4, <1>5, <1>6 DEF Crashes, Mode, View
<1>7. CASE ~Serving
  BY <1>2, <1>4, <1>5, <1>7 DEF Stutters, Mode, View
<1> QED BY <1>6, <1>7

-----------------------------------------------------------------------------
LEMMA GivingUpMaps ==
  ASSUME IInv, Refuse, UNCHANGED disk, pc \in {"down", "read", "replay"}
  PROVE  GivesUp
<1>1. Existing' = Existing /\ log' = log /\ pc' = "refused" /\ promised' = promised
  BY DEF Refuse, disk, Existing
<1>2. Disk' = Disk
  BY <1>1, SameDisk
<1> QED BY <1>1, <1>2 DEF GivesUp, Mode, View, Serving

LEMMA RecoveryMaps ==
  ASSUME IInv, Restore \/ ReadLog \/ ReplayRecord \/ RecoveryFails
  PROVE  Stutters \/ GivesUp
<1>1. CASE Refuse
  <2>1. pc \in {"down", "read", "replay"} /\ UNCHANGED disk
    BY <1>1 DEF Restore, ReadLog, ReplayRecord, RecoveryFails, Refuse, disk
  <2> QED BY <1>1, <2>1, GivingUpMaps
<1>2. CASE ~Refuse
  <2>1. /\ pc \in {"down", "read", "replay"} /\ pc' \in {"read", "replay"}
        /\ UNCHANGED << current, old, promised >>
    BY <1>2 DEF Restore, ReadLog, ReplayRecord, RecoveryFails, disk
  <2>2. log'.lines = log.lines
    <3>1. CASE ReadLog
      BY <1>2, <3>1, CleanState DEF ReadLog, Rewritten
    <3>2. CASE ~ReadLog
      BY <1>2, <3>2 DEF Restore, ReplayRecord, RecoveryFails, disk
    <3> QED BY <3>1, <3>2
  <2>3. Disk' = Disk
    BY <2>1, <2>2, SameDisk DEF Existing
  <2> QED BY <2>1, <2>3 DEF Stutters, View, Mode, Serving
<1> QED BY <1>1, <1>2

LEMMA FinishMaps ==
  ASSUME IInv, IInv', FinishRecovery
  PROVE  Recovers
<1>1. /\ pc = "replay" /\ pc' = "idle" /\ log' = log /\ Existing' = Existing
      /\ promised' = promised /\ mem' = mem /\ broken' = broken
  BY DEF FinishRecovery, disk, Existing
<1>2. Disk' = Disk
  BY <1>1, SameDisk
<1>3. ~broken
  BY <1>1 DEF IInv, HandleShape, CheckpointSteps
<1>4. Disk' = mem'
  BY <1>1, <1>3 DEF IInv, MemoryShape
<1> QED BY <1>1, <1>2, <1>4 DEF Recovers, View, Mode, Serving

LEMMA RestartMaps ==
  ASSUME IInv, Restart
  PROVE  Retries
<1>1. Existing' = Existing /\ log' = log /\ promised' = promised
      /\ pc = "refused" /\ pc' = "down"
  BY DEF Restart, disk, Existing
<1>2. Disk' = Disk
  BY <1>1, SameDisk
<1> QED BY <1>1, <1>2 DEF Retries, Mode, View, Serving

LEMMA OutsideMaps ==
  ASSUME IInv, ExternalEdit \/ UNCHANGED vars
  PROVE  Stutters
<1>1. UNCHANGED << log, current, old, mem, pc, promised >>
  BY DEF ExternalEdit, disk, vars
<1>2. Disk' = Disk
  BY <1>1, SameDisk DEF Existing
<1> QED BY <1>1, <1>2 DEF Stutters, View, Mode, Serving

LEMMA EveryStepMaps ==
  ASSUME Sane, IInv, AutoInv, IInv', [Next]_vars
  PROVE  StoreStep
<1> USE DEF StoreStep
<1>1. CASE Execute
  BY <1>1, ExecuteMaps
<1>2. CASE AppendRecord \/ AppendFails
  BY <1>2, AppendMaps
<1>3. CASE CheckpointCommand \/ Save \/ ClearTmp \/ WriteBuffers \/ WriteManifest
  BY <1>3, PrepareMaps
<1>4. CASE RemoveOld \/ Rotate \/ DropOld
  BY <1>4, SwapMaps
<1>5. CASE ReplaceOnlyCheckpoint \/ Install
  BY <1>5, InstallMaps
<1>6. CASE TruncateLog
  BY <1>6, TruncateMaps
<1>7. CASE ReopenLog
  BY <1>7, ReopenMaps
<1>8. CASE CheckpointFails
  BY <1>8, CheckpointFailsMaps
<1>9. CASE Crash
  BY <1>9, CrashMaps
<1>11. CASE Restore \/ ReadLog \/ ReplayRecord \/ RecoveryFails
  BY <1>11, RecoveryMaps
<1>12. CASE FinishRecovery
  BY <1>12, FinishMaps
<1>13. CASE Restart
  BY <1>13, RestartMaps
<1>14. CASE ExternalEdit \/ UNCHANGED vars
  BY <1>14, OutsideMaps
<1> QED BY <1>1, <1>2, <1>3, <1>4, <1>5, <1>6, <1>7, <1>8, <1>9, <1>11,
           <1>12, <1>13, <1>14 DEF Next, EngineStep

LEMMA StoreInit ==
  ASSUME Init
  PROVE  Store!Init
<1>1. IInv
  BY InvInit
<1>2. Existing = Absent /\ log.lines = << >> /\ mem = << >> /\ promised = << >> /\ pc = "idle"
  BY DEF Init, Existing, HasManifest, Absent, EmptyFile
<1>3. Disk = << >>
  BY <1>1, <1>2 DEF IInv, MemoryShape, OneAhead, Init
<1>4. Existing.state # "gutted" /\ DurableContent = Disk
  BY <1>1, NeverGutted
<1> QED BY <1>2, <1>3, <1>4 DEF Store!Init, Serving

(* The files and their recovery implement DurableStore, for every number of  *)
(* statements, crashes of the process and failing file operations, and      *)
(* whoever edits the files that were loaded. Nothing is claimed of a power  *)
(* loss, under which the files do not implement it, of a failed append      *)
(* that leaves its record, or of an interrupted swap over checkpoint.old.   *)
THEOREM LogImplementsStore == ASSUME Sane PROVE Spec => ImplementsStore
<1>1. Init => Store!Init
  BY StoreInit
<1>2. IInv /\ AutoInv /\ IInv' /\ [Next]_vars => [Store!Next]_(Store!vars)
  BY EveryStepMaps, StoreMaps
<1>3. Spec => [](IInv /\ AutoInv)
  BY Inductive
<1> QED BY <1>1, <1>2, <1>3, PTL DEF Spec, ImplementsStore, Store!Spec

-----------------------------------------------------------------------------
(***************************************************************************)
(* Recovery gives up only when a file operation fails, or at a record that *)
(* is not in the checkpoint and whose file was rewritten by somebody else, *)
(* or by a SAVE cut before its checkpoint was installed.                   *)
(***************************************************************************)

(* Up to the installation of a SAVE's checkpoint.                           *)
Uninstalled == {"clear", "buffers", "manifest", "removeOld", "rotate", "install"}

(* What the change, and the logged record, read is what the file still is.  *)
Current(change) == change.ver \in {0, package}

(* While nobody has rewritten the file since a checkpoint was installed, no *)
(* record behind the checkpoint read another version of it, and the change  *)
(* that is being logged has not either.                                     *)
Unrewritten ==
  rewritten = "nobody" =>
    /\ \A i \in 1 .. Len(log.lines) :
         log.lines[i].seq > Existing.seq => Current(log.lines[i])
    /\ pc = "append" => Current(Last(mem))

RewriteInv ==
  /\ Unrewritten
  /\ rewritten = "save" => reason = "save" /\ pc \in Uninstalled

(* What a step does to the lines recovery reads: nothing, the line of the   *)
(* pending change, or, at the installation of a checkpoint and the          *)
(* truncation that follows it, away with all that recovery would replay.    *)
Reads == log'.lines = log.lines /\ Existing' = Existing

Logs ==
  /\ pc = "append" /\ pc' # "append" /\ Existing' = Existing
  /\ log'.lines = Append(log.lines, PendingRecord)

Covers ==
  /\ pc' # "append"
  /\ \A i \in 1 .. Len(log'.lines) : ~(log'.lines[i].seq > Existing'.seq)

LEMMA CrashReads ==
  ASSUME IInv, Sane, Crash
  PROVE  Reads \/ Logs
<1>1. PICK what \in {"nothing", "torn", "whole"} :
        /\ log' = LogAfter(what)
        /\ pc # "append" => what = "nothing"
  BY DEF Crash, Sane
<1>2. pc' = "down" /\ current' = current
  BY DEF Crash, LosesMemory, Survives, Sane
<1>3. \/ old' = old
      \/ /\ pc \in {"removeOld", "dropOld"}
         /\ pc = "removeOld" => ~OnlyOld
         /\ old' \in Remains(old)
  BY DEF Crash, Survives, Sane
<1>4. Existing' = Existing
  BY <1>2, <1>3, RemoveKeepsExisting
<1>5. CASE what = "nothing"
  BY <1>1, <1>4, <1>5 DEF LogAfter, Reads
<1>6. CASE what = "torn"
  BY <1>1, <1>4, <1>6, PendingWrites DEF Reads
<1>7. CASE what = "whole"
  BY <1>1, <1>2, <1>4, <1>7, PendingWrites DEF Logs
<1> QED BY <1>1, <1>5, <1>6, <1>7

LEMMA InstallCovers ==
  ASSUME IInv, Install \/ ReplaceOnlyCheckpoint
  PROVE  Covers
<1>1. /\ pc \in {"removeOld", "install"} /\ pc' = "dropOld" /\ current' = tmp
      /\ log' = log
  BY DEF Install, ReplaceOnlyCheckpoint
<1>2. tmp \in Dir /\ tmp.state = "full" /\ tmp.seq = TopSeq(Existing, log.lines)
  BY <1>1, Supersedes
<1>3. Existing' = tmp
  BY <1>1, <1>2 DEF Existing, HasManifest
<1>4. /\ log.lines \in Seq(Line) /\ Len(log.lines) \in Nat
      /\ Consecutive(log.lines) /\ Existing.seq \in Nat
      /\ LineSeq(log.lines) \in Nat
  BY CleanState, LenProperties, LineSeqType DEF IInv, LogShape
<1>5. ASSUME NEW i \in 1 .. Len(log.lines)
      PROVE  ~(log.lines[i].seq > tmp.seq)
  <2>1. 1 \in 1 .. Len(log.lines) /\ Len(log.lines) \in 1 .. Len(log.lines)
    BY <1>4
  <2>2. log.lines[1] \in Line /\ log.lines # << >>
    BY <1>4, <2>1, ElementOfSeq
  <2>3. log.lines[1].seq \in Nat
    BY <2>2 DEF Line
  <2>4. /\ log.lines[i].seq = log.lines[1].seq + i - 1
        /\ LineSeq(log.lines) = log.lines[1].seq + Len(log.lines) - 1
    BY <1>4, <2>1, <2>2 DEF Consecutive, LineSeq
  <2>5. log.lines[i].seq <= LineSeq(log.lines)
    BY <1>4, <2>3, <2>4
  <2>6. LineSeq(log.lines) <= TopSeq(Existing, log.lines)
    BY <1>4 DEF TopSeq
  <2>7. log.lines[i].seq \in Int
    BY <1>4, <2>3, <2>4
  <2>8. tmp.seq \in Nat
    BY <1>2 DEF Dir
  <2> QED BY <1>2, <1>4, <2>5, <2>6, <2>7, <2>8
<1> QED BY <1>1, <1>3, <1>5 DEF Covers

LEMMA StepReads ==
  ASSUME IInv, Sane, [Next]_vars
  PROVE  Reads \/ Logs \/ Covers
<1>1. CASE AppendRecord
  BY <1>1, PendingWrites DEF AppendRecord, Logs, Existing
<1>2. CASE AppendFails
  <2>1. log' \in {LogAfter("nothing"), LogAfter("torn")} /\ pc = "append"
    BY <1>2 DEF AppendFails, Sane
  <2>2. log'.lines = log.lines
    BY <2>1, PendingWrites
  <2> QED BY <1>2, <2>2 DEF AppendFails, Reads, Existing
<1>3. CASE \/ Execute \/ CheckpointCommand \/ Save \/ ClearTmp \/ WriteBuffers
           \/ WriteManifest \/ ReopenLog
  BY <1>3 DEF Execute, CheckpointCommand, Save, StartCheckpoint, ClearTmp,
     WriteBuffers, WriteManifest, ReopenLog, disk, Reads, Existing
<1>4. CASE RemoveOld
  <2>1. pc = "removeOld" /\ old' = Absent /\ UNCHANGED << current, log >> /\ ~OnlyOld
    BY <1>4 DEF RemoveOld, Sane
  <2>2. old' \in Remains(old)
    BY <2>1 DEF Remains, Exists
  <2> QED BY <2>1, <2>2, RemoveKeepsExisting DEF Reads
<1>5. CASE Rotate
  <2>1. old = Absent /\ current.state \in {"absent", "full"} /\ log' = log
    BY <1>5 DEF Rotate, IInv, DirShape
  <2> QED BY <1>5, <2>1 DEF Rotate, Existing, HasManifest, Exists, Absent, Reads
<1>6. CASE DropOld
  BY <1>6, RemoveKeepsExisting DEF DropOld, Reads
<1>7. CASE Install \/ ReplaceOnlyCheckpoint
  BY <1>7, InstallCovers
<1>8. CASE TruncateLog
  BY <1>8, EmptySeq DEF TruncateLog, EmptyFile, Covers
<1>9. CASE CheckpointFails
  <2>1. old' = old \/ (pc = "removeOld" /\ ~OnlyOld /\ old' \in Remains(old))
    BY <1>9 DEF CheckpointFails, Sane
  <2> QED BY <1>9, <2>1, RemoveKeepsExisting DEF CheckpointFails, Reads
<1>10. CASE Crash
  BY <1>10, CrashReads
<1>11. CASE ReadLog
  BY <1>11, CleanState DEF ReadLog, Rewritten, Reads, Existing
<1>12. CASE \/ Restore \/ ReplayRecord \/ FinishRecovery \/ RecoveryFails
            \/ Restart \/ ExternalEdit \/ UNCHANGED vars
  BY <1>12 DEF Restore, ReplayRecord, FinishRecovery, RecoveryFails, Restart,
     ExternalEdit, disk, vars, Reads, Existing
<1> QED BY <1>1, <1>2, <1>3, <1>4, <1>5, <1>6, <1>7, <1>8, <1>9, <1>10, <1>11,
           <1>12 DEF Next, EngineStep

(* The file stays what it is, or the history tells who rewrote it.          *)
LEMMA StepTells ==
  ASSUME RewriteInv, [Next]_vars, rewritten' = "nobody"
  PROVE  \/ package' = package /\ rewritten = "nobody"
         \/ Install \/ ReplaceOnlyCheckpoint
<1> USE DEF external
<1>1. CASE Save
  BY <1>1 DEF Save
<1>2. CASE Crash \/ CheckpointFails
  BY <1>2 DEF Crash, LosesMemory, CheckpointFails, CutSave
<1>3. CASE \/ Execute \/ AppendRecord \/ AppendFails \/ CheckpointCommand
           \/ ClearTmp \/ WriteBuffers \/ WriteManifest \/ RemoveOld \/ Rotate
           \/ DropOld \/ TruncateLog \/ ReopenLog
  BY <1>3 DEF Execute, AppendRecord, AppendFails, CheckpointCommand, ClearTmp,
     WriteBuffers, WriteManifest, RemoveOld, Rotate, DropOld, TruncateLog,
     ReopenLog
<1>4. CASE \/ Restore \/ ReadLog \/ ReplayRecord \/ FinishRecovery
           \/ RecoveryFails \/ Restart
  BY <1>4 DEF Restore, ReadLog, ReplayRecord, FinishRecovery, RecoveryFails,
     Restart, Refuse
<1>5. CASE ExternalEdit
  BY <1>5 DEF ExternalEdit
<1>6. CASE UNCHANGED vars
  BY <1>6 DEF vars
<1> QED BY <1>1, <1>2, <1>3, <1>4, <1>5, <1>6 DEF Next, EngineStep

LEMMA SaveStep ==
  ASSUME RewriteInv, [Next]_vars, rewritten' = "save"
  PROVE  reason' = "save" /\ pc' \in Uninstalled
<1> USE DEF external, Uninstalled
<1>1. CASE Save
  BY <1>1 DEF Save, StartCheckpoint
<1>2. CASE Crash \/ CheckpointFails
  BY <1>2 DEF Crash, LosesMemory, CheckpointFails, CutSave, RewriteInv
<1>3. CASE \/ ClearTmp \/ WriteBuffers \/ WriteManifest \/ RemoveOld \/ Rotate
  BY <1>3 DEF ClearTmp, WriteBuffers, WriteManifest, RemoveOld, Rotate,
     RewriteInv
<1>4. CASE \/ Execute \/ AppendRecord \/ AppendFails \/ CheckpointCommand
           \/ DropOld \/ TruncateLog \/ ReopenLog
  BY <1>4 DEF Execute, AppendRecord, AppendFails, CheckpointCommand,
     StartCheckpoint, DropOld, TruncateLog, ReopenLog, RewriteInv
<1>5. CASE \/ Restore \/ ReadLog \/ ReplayRecord \/ FinishRecovery
           \/ RecoveryFails \/ Restart
  BY <1>5 DEF Restore, ReadLog, ReplayRecord, FinishRecovery, RecoveryFails,
     Restart, Refuse, RewriteInv
<1>6. CASE ExternalEdit \/ Install \/ ReplaceOnlyCheckpoint
  BY <1>6 DEF ExternalEdit, Install, ReplaceOnlyCheckpoint
<1>7. CASE UNCHANGED vars
  BY <1>7 DEF vars, RewriteInv
<1> QED BY <1>1, <1>2, <1>3, <1>4, <1>5, <1>6, <1>7 DEF Next, EngineStep

LEMMA RewriteStep ==
  ASSUME RewriteInv, IInv, Sane, [Next]_vars
  PROVE  RewriteInv'
<1>1. rewritten' = "save" => reason' = "save" /\ pc' \in Uninstalled
  BY SaveStep
<1>2. ASSUME rewritten' = "nobody"
      PROVE  /\ \A i \in 1 .. Len(log'.lines) :
                  log'.lines[i].seq > Existing'.seq => log'.lines[i].ver \in {0, package'}
             /\ pc' = "append" => Last(mem').ver \in {0, package'}
  <2>1. CASE Install \/ ReplaceOnlyCheckpoint
    BY <2>1, InstallCovers DEF Covers
  <2>2. CASE ~(Install \/ ReplaceOnlyCheckpoint)
    <3>1. package' = package /\ rewritten = "nobody"
      BY <1>2, <2>2, StepTells
    <3>2. /\ \A i \in 1 .. Len(log.lines) :
               log.lines[i].seq > Existing.seq => Current(log.lines[i])
          /\ pc = "append" => Current(Last(mem))
      BY <3>1 DEF RewriteInv, Unrewritten
    <3>3. \A i \in 1 .. Len(log'.lines) :
            log'.lines[i].seq > Existing'.seq => log'.lines[i].ver \in {0, package'}
      <4>1. CASE Reads
        BY <3>1, <3>2, <4>1 DEF Reads, Current
      <4>2. CASE Logs
        <5>1. /\ log.lines \in Seq(Line) /\ Len(log.lines) \in Nat
              /\ PendingRecord \in Line
          BY <4>2, CleanState, PendingWrites, LenProperties DEF Logs
        <5>2. /\ Len(log'.lines) = Len(log.lines) + 1
              /\ \A i \in 1 .. Len(log.lines) : log'.lines[i] = log.lines[i]
              /\ log'.lines[Len(log.lines) + 1] = PendingRecord
          BY <4>2, <5>1, AppendProperties DEF Logs
        <5>3. Current(PendingRecord)
          BY <3>2, <4>2 DEF Logs, Current, PendingRecord
        <5> TAKE i \in 1 .. Len(log'.lines)
        <5>4. CASE i = Len(log.lines) + 1
          BY <3>1, <5>2, <5>3, <5>4 DEF Current
        <5>5. CASE i # Len(log.lines) + 1
          <6>1. i \in 1 .. Len(log.lines)
            BY <5>1, <5>2, <5>5
          <6>2. log'.lines[i] = log.lines[i] /\ Existing' = Existing
            BY <4>2, <5>2, <6>1 DEF Logs
          <6> QED BY <3>1, <3>2, <6>1, <6>2 DEF Current
        <5> QED BY <5>4, <5>5
      <4>3. CASE Covers
        BY <4>3 DEF Covers
      <4> QED BY <4>1, <4>2, <4>3, StepReads
    <3>4. ASSUME pc' = "append"
          PROVE  Last(mem').ver \in {0, package'}
      <4>1. CASE Execute
        <5>1. PICK ver \in {0, package} :
                mem' = Append(mem, [id |-> executed + 1, ver |-> ver])
          BY <4>1 DEF Execute
        <5>2. /\ mem \in Seq(Change)
              /\ [id |-> executed + 1, ver |-> ver] \in Change
          BY CleanState DEF IInv, TypeOK, Change, Versions
        <5>3. Last(mem') = [id |-> executed + 1, ver |-> ver]
          BY <5>1, <5>2, FrontLast
        <5> QED BY <3>1, <5>3 DEF Current
      <4>2. CASE ~Execute
        <5>1. pc = "append" /\ mem' = mem
          BY <3>4, <4>2 DEF Next, EngineStep, vars, AppendRecord, AppendFails,
             CheckpointCommand, Save, StartCheckpoint, ClearTmp, WriteBuffers,
             WriteManifest, RemoveOld, ReplaceOnlyCheckpoint, Rotate, Install,
             DropOld, TruncateLog, ReopenLog, CheckpointFails, Crash,
             LosesMemory, ExternalEdit, Restore, ReadLog, ReplayRecord,
             FinishRecovery, RecoveryFails, Refuse, Restart
        <5> QED BY <3>1, <3>2, <5>1 DEF Current
      <4> QED BY <4>1, <4>2
    <3> QED BY <3>3, <3>4
  <2> QED BY <2>1, <2>2
<1> QED BY <1>1, <1>2 DEF RewriteInv, Unrewritten, Current

LEMMA RefusalStep ==
  ASSUME Sane, IInv, RewriteInv, [Next]_vars, pc # "refused", pc' = "refused"
  PROVE  \/ errors' > errors
         \/ /\ rewritten \in {"outside", "cutSave"}
            /\ \E i \in DOMAIN Records(log) :
                 ~InCheckpoint(Records(log)[i]) /\ FileChanged(Records(log)[i])
<1>1. Restore \/ ReadLog \/ ReplayRecord \/ RecoveryFails
  BY DEF Next, EngineStep, vars, Execute, AppendRecord, AppendFails,
     CheckpointCommand, Save, StartCheckpoint, ClearTmp, WriteBuffers,
     WriteManifest, RemoveOld, ReplaceOnlyCheckpoint, Rotate, Install, DropOld,
     TruncateLog, ReopenLog, CheckpointFails, Crash, LosesMemory,
     ExternalEdit, FinishRecovery, Restart
<1>2. ~Restore
  BY NeverGutted DEF Restore
<1>3. ~ReadLog
  <2>1. log.lines \in Seq(Line) /\ Records(log) = log.lines /\ Consecutive(log.lines)
    BY CleanState DEF IInv, LogShape
  <2>2. Len(log.lines) \in Nat /\ \A i \in 1 .. Len(log.lines) : log.lines[i].seq \in Nat
    <3>1. Len(log.lines) \in Nat /\ \A i \in 1 .. Len(log.lines) : log.lines[i] \in Line
      BY <2>1, LenProperties, ElementOfSeq
    <3> QED BY <3>1 DEF Line
  <2>3. ASSUME NEW i \in 1 .. Len(log.lines), i > 1
        PROVE  log.lines[i].seq = log.lines[i - 1].seq + 1
    <3>1. 1 \in 1 .. Len(log.lines) /\ i - 1 \in 1 .. Len(log.lines) /\ i \in Nat
      BY <2>2, <2>3
    <3>2. /\ log.lines[i].seq = log.lines[1].seq + i - 1
          /\ log.lines[i - 1].seq = log.lines[1].seq + (i - 1) - 1
      BY <2>1, <3>1 DEF Consecutive
    <3> QED BY <2>2, <3>1, <3>2
  <2>4. Readable(log)
    BY <2>1, <2>3 DEF Readable, Consecutive
  <2> QED BY <2>4 DEF ReadLog
<1>4. CASE ReplayRecord
  <2>1. /\ pc = "replay" /\ pos < Len(Records(log))
        /\ ~InCheckpoint(Records(log)[pos + 1])
        /\ FileChanged(Records(log)[pos + 1])
    BY <1>4 DEF ReplayRecord
  <2>2. Records(log) \in Seq(Line) /\ Records(log) = log.lines /\ pos \in Nat
    BY CleanState DEF IInv, TypeOK
  <2>3. pos + 1 \in DOMAIN Records(log) /\ pos + 1 \in 1 .. Len(log.lines)
    BY <2>1, <2>2, LenProperties
  <2>4. rewritten # "nobody"
    <3>1. log.lines[pos + 1] \in Line /\ Existing.seq \in Nat
      BY <2>2, <2>3, ElementOfSeq, CleanState
    <3>2. log.lines[pos + 1].seq > Existing.seq
      BY <2>1, <2>2, <3>1 DEF InCheckpoint, Line
    <3>3. ~Current(log.lines[pos + 1])
      BY <2>1, <2>2 DEF FileChanged, Reexecuted, ChangeOf, Current
    <3> QED BY <2>3, <3>2, <3>3 DEF RewriteInv, Unrewritten
  <2>5. rewritten # "save"
    BY <2>1 DEF RewriteInv, Uninstalled
  <2>6. rewritten \in {"outside", "cutSave"}
    BY <2>4, <2>5 DEF IInv, TypeOK, Rewriters
  <2> QED BY <2>1, <2>3, <2>6
<1>5. CASE RecoveryFails
  BY <1>5 DEF RecoveryFails, IInv, TypeOK
<1> QED BY <1>1, <1>2, <1>3, <1>4, <1>5

(* Startup refuses a database only when reading it fails, or at a statement *)
(* behind the checkpoint whose file was rewritten by somebody else, or by a *)
(* SAVE that failed or died before its checkpoint was installed.            *)
(* Whatever else the engine did, and however often it died while doing it,  *)
(* read_records and replay_active bring the database back.                  *)
THEOREM RefusalIsJustified == ASSUME Sane PROVE Spec => RefusalJustified
<1>1. Init => RewriteInv
  BY EmptySeq DEF Init, RewriteInv, Unrewritten, EmptyFile
<1>2. IInv /\ AutoInv /\ RewriteInv /\ [Next]_vars => RewriteInv'
  BY RewriteStep
<1>3. IInv /\ RewriteInv /\ [Next]_vars =>
        (pc # "refused" /\ pc' = "refused" =>
           \/ errors' > errors
           \/ /\ rewritten \in {"outside", "cutSave"}
              /\ \E i \in DOMAIN Records(log) :
                   ~InCheckpoint(Records(log)[i]) /\ FileChanged(Records(log)[i]))
  BY RefusalStep
<1>4. Spec => [](IInv /\ AutoInv)
  BY Inductive
<1>5. Spec => []RewriteInv
  BY <1>1, <1>2, <1>4, PTL DEF Spec
<1> QED BY <1>3, <1>4, <1>5, PTL DEF Spec, RefusalJustified
=============================================================================
