------------------------------- MODULE MCDisk -------------------------------
(***************************************************************************)
(* Descriptions of up to four trees with up to six files: folders in       *)
(* folders, every type of EF, data that is and is not in its place, names  *)
(* and values that cannot be read, record EFs without a size (alone, with  *)
(* others, in a folder, in an EF, as a tree), and IDs and SIDs that are    *)
(* missing, distinct, or shared by files in one tree or in several.        *)
(***************************************************************************)
EXTENDS Disk

\* The IDs and SIDs of the files 1, 2, ... of a disk.
Labels == {
  [id |-> <<1, 2, 3, 4, 5, 6, 1, 2>>, sid |-> <<0, 1, 2, 3, 4, 5, 6, 1>>],
  [id |-> <<2, 1, 2, 1, 2, 0, 3, 2>>, sid |-> <<1, 1, 1, 1, 1, 1, 1, 1>>],
  [id |-> <<3, 3, 3, 3, 3, 3, 3, 3>>, sid |-> <<6, 5, 4, 3, 2, 1, 0, 1>>],
  [id |-> <<0, 0, 6, 5, 0, 4, 0, 6>>, sid |-> <<2, 0, 1, 2, 0, 1, 2, 1>>]}

Described1(l, mark, type, name, rcrd_size, items) ==
  [type |-> type, mark |-> mark, id |-> l.id[mark], sid |-> l.sid[mark],
   name |-> name, rcrd_size |-> rcrd_size, size |-> 0, items |-> items]

Data(n) == [type |-> "DATA", mark |-> 0, id |-> 0, sid |-> 0, name |-> 0,
            rcrd_size |-> 0, size |-> n, items |-> << >>]

Dir(l, mark, type, items) == Described1(l, mark, type, 7, 0, items)
Tr(l, mark, items)        == Described1(l, mark, "TRANSPARENT", 0, 0, items)
Lf(l, mark, n, items)     == Described1(l, mark, "LINEARFIXED", 0, n, items)
Cy(l, mark, n, items)     == Described1(l, mark, "CYCLIC", 0, n, items)

\* The contents of a folder, with the files from mark m on.
Contents(l, m) == {
  << >>,
  <<Tr(l, m, <<Data(9)>>), Tr(l, m + 1, << >>)>>,
  <<Lf(l, m, 5, <<Data(5), Data(2), Data(0)>>), Cy(l, m + 1, 4, <<Data(4)>>)>>,
  <<Dir(l, m, "DF", <<Tr(l, m + 1, <<Data(3)>>)>>), Tr(l, m + 2, << >>)>>,
  <<Dir(l, m, "DF", <<Dir(l, m + 1, "DF", << >>)>>), Cy(l, m + 2, 3, << >>)>>,
  <<Data(0), Tr(l, m, <<Tr(l, m + 1, <<Data(70)>>)>>)>>,
  <<Tr(l, m, << >>), Data(4)>>,
  <<Lf(l, m, 2, <<Data(1), Data(3)>>)>>,
  <<Lf(l, m, 256, << >>)>>,
  <<Tr(l, m, <<Data(Bad)>>)>>,
  <<Lf(l, m, Bad, <<Data(5)>>)>>,
  <<Cy(l, m, Bad, << >>)>>,
  <<Cy(l, m, Bad, << >>), Tr(l, m + 1, << >>)>>,
  <<Dir(l, m, "DF", <<Cy(l, m + 1, Bad, << >>), Data(0)>>)>>,
  <<Tr(l, m, <<Lf(l, m + 1, Bad, << >>)>>)>>}

\* A tree as it should be, and others: too few bytes in an AID, no name, one
\* longer than its field, an SID that cannot be read, no folder, records that
\* are cyclic EFs without a size, an MF behind an ADF, a tree larger than any
\* buffer, and more trees than there are numbers for.
Mf(l, items) == Dir(l, 1, "MF", items)
Adf(l, m)    == Dir(l, m, "ADF", << >>)

Odd(l) == {
  <<[Adf(l, 2) EXCEPT !.name = 4]>>,
  <<[Adf(l, 2) EXCEPT !.name = Bad]>>,
  <<[Adf(l, 2) EXCEPT !.name = 17]>>,
  <<[Adf(l, 2) EXCEPT !.sid = Bad]>>,
  <<Tr(l, 2, << >>)>>,
  <<Cy(l, 2, Bad, << >>)>>,
  <<Adf(l, 2), Dir(l, 5, "ADF", <<Lf(l, 6, 37, <<Cy(l, 7, Bad, << >>)>>)>>)>>,
  <<Adf(l, 2), Mf(l, << >>)>>,
  <<Dir(l, 2, "ADF", <<Tr(l, 3, <<Data(300)>>)>>)>>,
  <<Adf(l, 5), Adf(l, 6), Adf(l, 7)>>}

MCVals == [tree : 0..2, offset : Nat]

MCDescriptions ==
  {<< >>}
  \cup UNION {{<<Mf(l, c)>> : c \in Contents(l, 2)} : l \in Labels}
  \cup UNION {{<<Mf(l, c), Dir(l, 5, "ADF", d)>> :
                c \in Contents(l, 2), d \in Contents(l, 6)} : l \in Labels}
  \cup UNION {{<<Mf(l, << >>)>> \o o : o \in Odd(l)} : l \in Labels}
=============================================================================
