--------------------------- MODULE MCFileCommands ---------------------------
(* A disk with an MF and two applications.  File IDs, short IDs and the    *)
(* beginnings of names occur more than once (also the ID of the first      *)
(* application), EFs of every type are in reach, one is empty, and one has *)
(* more records than a file descriptor can tell.                           *)
EXTENDS FileCommands, TLC

File(type, id, sid, up, name, size, rcrd_size) ==
  [type |-> type, id |-> id, sid |-> sid, up |-> up, name |-> name,
   size |-> size, rcrd_size |-> rcrd_size]

NoName == <<0, 0, 0>>

MCForest ==
  << << File("MF",          1,  0, 1, <<1, 2, 0>>, 0, 0),
        File("DF",          2,  0, 1, <<5, 6, 0>>, 0, 0),
        File("TRANSPARENT", 3,  1, 2, NoName,      3, 0),
        File("LINEARFIXED", 4,  2, 1, NoName,      5, 2) >>,
     << File("ADF",         11, 0, 1, <<7, 8, 1>>, 0, 0),
        File("LINEARFIXED", 6,  3, 1, NoName,    300, 1),
        File("DF",          7,  0, 1, <<5, 0, 0>>, 0, 0) >>,
     << File("ADF",         10, 0, 1, <<7, 8, 9>>, 0, 0),
        File("CYCLIC",      4,  1, 1, NoName,      3, 1),
        File("DF",          2,  0, 1, <<7, 7, 0>>, 0, 0),
        File("TRANSPARENT", 5,  2, 3, NoName,      2, 0),
        File("TRANSPARENT", 11, 0, 1, NoName,      0, 0) >> >>

MCFields ==
  { << >>, <<1>>, <<2>>, <<3>>, <<4>>, <<6>>, <<99, 6>>, <<99, 2, 5>>, <<2, 3>>,
    <<3, 5>>, <<4, 4>>, <<5, 6>>, <<7, 7>>, <<7, 8>>, <<7, 8, 1>>,
    <<7, 8, 1, 1>> }
=============================================================================
