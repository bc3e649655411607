------------------------------ MODULE WalFile ------------------------------
(***************************************************************************)
(* The file wal.log of one database (src/engine/wal.rs), as what a reader  *)
(* of it can tell apart: the lines that end in a newline, and the          *)
(* unterminated rest, if a write was cut short.  A line is a record or it  *)
(* does not parse.  Only operators on a file are defined here; the machine *)
(* that writes and reads it is module Durability.                          *)
(***************************************************************************)
EXTENDS Naturals, Sequences

(* A record: its sequence number, the statement it logs and, for a          *)
(* statement that read an external file, the version it read (0: none).     *)
Line == [seq : Nat, id : Nat, ver : Nat]

(* Any line that serde_json rejects.  Real records start at seq 1.          *)
Junk == [seq |-> 0, id |-> 0, ver |-> 0]

EmptyFile == [lines |-> << >>, tail |-> << >>]

AllLines(f) == f.lines \o f.tail

(* A write of a whole line.  Behind an unterminated rest it is glued to it, *)
(* and the line they form together does not parse, whatever each was.       *)
Terminated(f, line) ==
  [lines |-> Append(f.lines, IF f.tail = << >> THEN line ELSE Junk),
   tail  |-> << >>]

(* A write that stopped short of its newline, having left `line` (a whole   *)
(* record, or a piece of one, which is Junk).                               *)
Unterminated(f, line) ==
  [f EXCEPT !.tail = IF f.tail = << >> THEN << line >> ELSE << Junk >>]

(* Mutant of EndsInJunk: a torn last line is an error like any other.       *)
EndsInJunkNever(f) == FALSE

(* read_records drops a last line that does not parse, and warns.           *)
EndsInJunk(f) ==
  LET all == AllLines(f) IN all # << >> /\ all[Len(all)].seq = 0

Records(f) ==
  LET all == AllLines(f)
  IN  IF EndsInJunk(f) THEN SubSeq(all, 1, Len(all) - 1) ELSE all

(* read_records succeeds: no other line fails to parse, and the sequence    *)
(* numbers have neither a gap nor a repeat.                                 *)
Readable(f) ==
  \A i \in 1 .. Len(Records(f)) :
    /\ Records(f)[i].seq > 0
    /\ i > 1 => Records(f)[i].seq = Records(f)[i - 1].seq + 1

(* rewrite: the file holds exactly the records that were read.              *)
Rewritten(f) == [lines |-> Records(f), tail |-> << >>]

LastSeq(f) ==
  IF Records(f) = << >> THEN 0 ELSE Records(f)[Len(Records(f))].seq

(* The record with a given sequence number, in a readable file that holds   *)
(* it.                                                                      *)
RecordAt(f, seq) == Records(f)[seq + 1 - Records(f)[1].seq]
=============================================================================
