-------------------------------- MODULE Lut --------------------------------
(***************************************************************************)
(* The lookup tables of src/fs/disk.c.  A table keeps its entries in the   *)
(* order of their keys.  lut_insert halves the range in which a new entry  *)
(* belongs, and lookups go through the table from its front.  (realloc     *)
(* without memory is left out.)                                            *)
(***************************************************************************)
EXTENDS Integers, Sequences

CONSTANTS
  Keys,       \* IDs or SIDs, compared as numbers
  Vals,       \* where the files are
  NoVal,      \* no file was found
  LutStart,   \* LUT_COUNT_START
  LutResize   \* LUT_COUNT_RESIZE

ASSUME LutAssumption ==
  /\ Keys \subseteq Nat /\ NoVal \notin Vals
  /\ LutStart \in Nat /\ LutResize \in Nat \ {0}

VARIABLES
  lut,  \* count_max, and the entries of buf1 and buf2
  ins   \* the lut_insert under way

lutVars == <<lut, ins>>

Entry == [key : Keys, val : Vals]
Idle  == [busy |-> FALSE]

EmptyLut == [max |-> LutStart, ents |-> << >>]
Count(l) == Len(l.ents)

-----------------------------------------------------------------------------
(* The parts of lut_insert.                                                *)

GrownNot(l) == l
Grown(l) == IF Count(l) >= l.max THEN [l EXCEPT !.max = @ + LutResize] ELSE l

\* The entries from position at on (counted from 0) move up by one.
Placed(ents, at, e) ==
  [i \in 1..(Len(ents) + 1) |-> IF i <= at THEN ents[i]
                               ELSE IF i = at + 1 THEN e ELSE ents[i - 1]]

\* memcmp of the middle entry and the new one; keys are kept big-endian.
GoesBehindEqual(e, key) == e.key <= key
GoesBehind(e, key) == e.key < key

Mid == (ins.start + ins.end) \div 2

\* The lookups take the first entry of the key.
FirstWith(ents, key) ==
  CHOOSE i \in 1..Len(ents) :
    ents[i].key = key /\ \A j \in 1..(i - 1) : ents[j].key # key

LutLookup(l, key) ==
  IF \E i \in 1..Count(l) : l.ents[i].key = key
  THEN l.ents[FirstWith(l.ents, key)].val ELSE NoVal

-----------------------------------------------------------------------------
LutInit == lut = EmptyLut /\ ins = Idle

\* A rebuild starts from an empty table.
LutClear == ~ins.busy /\ lut' = EmptyLut /\ UNCHANGED ins

LutInsert(key, val) ==
  /\ ~ins.busy
  /\ lut' = Grown(lut)
  /\ ins' = [busy |-> TRUE, e |-> [key |-> key, val |-> val],
             start |-> 0, end |-> Count(lut)]

LutProbe ==
  /\ ins.busy /\ ins.start < ins.end
  /\ ins' = IF GoesBehind(lut.ents[Mid + 1], ins.e.key)
            THEN [ins EXCEPT !.start = Mid + 1] ELSE [ins EXCEPT !.end = Mid]
  /\ UNCHANGED lut

LutPlace ==
  /\ ins.busy /\ ins.start >= ins.end
  /\ lut' = [lut EXCEPT !.ents = Placed(@, ins.start, ins.e)]
  /\ ins' = Idle

LutNext ==
  \/ LutClear \/ LutProbe \/ LutPlace
  \/ \E k \in Keys, v \in Vals : LutInsert(k, v)

LutSpec == LutInit /\ [][LutNext]_lutVars

-----------------------------------------------------------------------------
(***************************************************************************)
(* A table is sorted and has room for what it holds; while an entry is     *)
(* being inserted there is room for one more, the entries the search has   *)
(* passed are before the new one and those from its end on are not.        *)
(***************************************************************************)
LutSorted ==
  /\ \A i, j \in 1..Count(lut) : i < j => lut.ents[i].key <= lut.ents[j].key
  /\ Count(lut) <= lut.max
  /\ ins.busy =>
       /\ Count(lut) < lut.max
       /\ 0 <= ins.start /\ ins.start <= ins.end /\ ins.end <= Count(lut)
       /\ \A i \in 1..Count(lut) :
            /\ i <= ins.start => lut.ents[i].key < ins.e.key
            /\ i > ins.end => lut.ents[i].key >= ins.e.key

(***************************************************************************)
(* Looking a key up finds the value that was inserted for it last: an      *)
(* entry goes in front of those of the same key.                           *)
(***************************************************************************)
Dict == INSTANCE LatestByKey
          WITH dict    <- [k \in Keys |-> LutLookup(lut, k)],
               putting <- IF ins.busy THEN {ins.e} ELSE {}
IsDict == Dict!DictSpec
=============================================================================
