------------------------------- MODULE Forest -------------------------------
(***************************************************************************)
(* The files of a mounted disk (src/fs/disk.c): a forest whose first tree  *)
(* is the MF and whose other trees are ADFs.  A tree is kept in one buffer *)
(* in which every folder is followed by its contents, so a file is known   *)
(* by its tree and its position in it.                                     *)
(*                                                                         *)
(* Only commands that write records change a disk once it is mounted, and  *)
(* those leave every header alone: the forest is a constant here.  File    *)
(* headers hold what the lookups compare; data is known by its size.       *)
(***************************************************************************)
EXTENDS Naturals, Sequences

CONSTANTS
  Forest,    \* the trees, each the sequence of its files
  MfId,      \* 0x3F00, the file ID of the MF
  CurAppId,  \* 0x7FFF, which stands for the current application in a path
  NameLen,   \* SWICC_FS_NAME_LEN = SWICC_FS_ADF_AID_LEN
  RidLen     \* SWICC_FS_ADF_AID_RID_LEN

FolderTypes == {"MF", "ADF", "DF"}
RecordTypes == {"LINEARFIXED", "CYCLIC"}
ItemTypes   == FolderTypes \cup RecordTypes \cup {"TRANSPARENT"}

\* An ID or SID of 0 is a missing one; the parent of a root is itself, for
\* its parent-relative offset is 0; a name is padded with zeros.
Item ==
  [type : ItemTypes, id : Nat, sid : Nat, up : Nat \ {0},
   name : [1..NameLen -> Nat], size : Nat, rcrd_size : Nat]

\* What swicc_disk_load accepts, of headers that fit their tree.  A record
\* size of 0 (which a JSON disk may have, and which swicc_disk_file_rcrd_cnt
\* divides by) is left out.
ASSUME ForestAssumption ==
  /\ NameLen \in Nat /\ RidLen \in 1..NameLen
  /\ MfId \in Nat \ {0} /\ CurAppId \in Nat \ {0, MfId}
  /\ Forest \in Seq(Seq(Item)) /\ Len(Forest) >= 1
  /\ \A t \in 1..Len(Forest) :
       /\ Len(Forest[t]) >= 1
       /\ Forest[t][1].type = (IF t = 1 THEN "MF" ELSE "ADF")
       /\ Forest[t][1].up = 1
       /\ \A i \in 2..Len(Forest[t]) :
            /\ Forest[t][i].up \in 1..(i - 1)
            /\ Forest[t][Forest[t][i].up].type \in FolderTypes
            /\ Forest[t][i].type \in {"DF", "TRANSPARENT"} \cup RecordTypes
       /\ \A i \in 1..Len(Forest[t]) :
            Forest[t][i].type \in RecordTypes => Forest[t][i].rcrd_size >= 1

Trees  == 1..Len(Forest)
Files  == UNION {{<<t, i>> : i \in 1..Len(Forest[t])} : t \in Trees}
NoFile == <<0, 0>>

Hdr(f)    == Forest[f[1]][f[2]]
Root(t)   == <<t, 1>>
Parent(f) == <<f[1], Hdr(f).up>>
Folder(f) == Hdr(f).type \in FolderTypes

RcrdCnt(f) == Hdr(f).size \div Hdr(f).rcrd_size

-----------------------------------------------------------------------------
(* Lookups.                                                                *)

\* f is visited before g when the trees are walked in order.
Before(f, g) == f[1] < g[1] \/ (f[1] = g[1] /\ f[2] < g[2])

FirstOf(S) == CHOOSE f \in S : \A g \in S : g = f \/ Before(f, g)
LastOf(S)  == CHOOSE f \in S : \A g \in S : g = f \/ Before(g, f)

\* The tables are filled in the order of the walk.  lut_insert puts an entry
\* in front of those with the same key, and lookups take the first: of
\* several files with one ID, the last that was visited.
LookupId(id) ==
  LET S == {f \in Files : Hdr(f).id = id}
  IN IF id = 0 \/ S = {} THEN NoFile ELSE LastOf(S)

LookupSid(t, sid) ==
  LET S == {f \in Files : f[1] = t /\ Hdr(f).sid = sid}
  IN IF sid = 0 \/ S = {} THEN NoFile ELSE LastOf(S)

\* One step of a path: swicc_disk_file_foreach, not recursing, visits the
\* folder itself before its contents.
StepById(f, id) == LookupId(id)

Step(f, id) ==
  LET S == {g \in Files : (g = f \/ Parent(g) = f) /\ Hdr(g).id = id}
  IN IF S = {} THEN NoFile ELSE FirstOf(S)

\* The files a path leads to from start, step by step.
Walk(start, path) ==
  LET at[n \in 0..Len(path)] ==
        IF n = 0 THEN start ELSE Step(at[n - 1], path[n])
  IN at

\* A path that leads on from an EF makes swicc_disk_file_foreach read the
\* data of the EF as files, which fails (unless the data is made up like one).
LeadsIntoData(start, path) ==
  \E n \in 1..(Len(path) - 1) :
    LET f == Walk(start, path)[n]
    IN /\ f # NoFile /\ ~Folder(f)
       /\ Hdr(f).size > 0 /\ Hdr(f).id # path[n + 1]

Prefix(name, n) == SubSeq(name, 1, n)

\* swicc_va_select_adf: tree iteration starts behind the first tree.
AdfByAid(aid) ==
  LET S == {f \in Files : f[1] >= 2 /\ f[2] = 1
                          /\ Prefix(Hdr(f).name, Len(aid)) = aid}
  IN IF S = {} THEN NoFile ELSE FirstOf(S)

\* swicc_va_select_file_dfname: the name searched for is initialised with
\* {*df_name}, its first byte followed by zeros, and the search ends with
\* the first tree that has no match.
Searched(name) == [i \in 1..Len(name) |-> IF i = 1 THEN name[1] ELSE 0]

DfByName(name) ==
  LET S == {f \in Files : f[1] = 2 /\ Hdr(f).type \in {"MF", "DF"}
                          /\ Prefix(Hdr(f).name, Len(name)) = Searched(name)}
  IN IF S = {} THEN NoFile ELSE FirstOf(S)
=============================================================================
