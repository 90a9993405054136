--------------------------------- MODULE Va ---------------------------------
(***************************************************************************)
(* The validity area (src/fs/va.c): what is selected.  It caches parsed    *)
(* copies of files next to the tree they are in; here a file stands for    *)
(* its copy.                                                               *)
(***************************************************************************)
EXTENDS Forest

VARIABLE va

\* All bytes zero.
VaZero ==
  [tree |-> 0, tree_adf |-> 0, adf |-> NoFile, df |-> NoFile, ef |-> NoFile,
   file |-> NoFile, rcrd |-> 0]

-----------------------------------------------------------------------------
(* va_select_file, on a file f of the forest: the area v is cleared and    *)
(* filled in again.  The current application survives, unless f is an ADF  *)
(* or is in the tree of one.  A definition may follow a mistaken form.    *)

InApp(f) == Hdr(Root(f[1])).type = "ADF"

\* A folder becomes the current DF and file.
FolderSelected(v, f) ==
  [VaZero EXCEPT !.tree = f[1], !.df = f, !.file = f,
                 !.adf      = IF InApp(f) THEN Root(f[1]) ELSE v.adf,
                 !.tree_adf = IF InApp(f) THEN f[1] ELSE v.tree_adf]

\* An EF does, with the folder it is in; also when it was named by its SID.
EfSelected(v, f) ==
  [FolderSelected(v, f) EXCEPT !.df = Parent(f), !.ef = f]

AppForgotten(v, f) ==
  IF Folder(f) THEN FolderSelected(v, f)
               ELSE [EfSelected(v, f) EXCEPT !.adf = v.adf,
                                             !.tree_adf = v.tree_adf]

Selected(v, f) ==
  IF Folder(f) THEN FolderSelected(v, f) ELSE EfSelected(v, f)

\* swicc_va_select_record_idx, on an EF with records.
RcrdUnreduced(v, idx) ==
  [v EXCEPT !.rcrd = IF Hdr(v.ef).type = "CYCLIC" THEN v.rcrd + idx ELSE idx]

RcrdSelected(v, idx) ==
  [v EXCEPT !.rcrd = IF Hdr(v.ef).type = "CYCLIC"
                     THEN (v.rcrd + idx) % RcrdCnt(v.ef) ELSE idx]

\* swicc_va_reset selects the MF.  (Without one swicc_reset fails, and with
\* nothing selected every command on files is refused.)
VaAfterReset ==
  LET mf == LookupId(MfId)
  IN IF mf \in Files THEN Selected(VaZero, mf) ELSE VaZero

-----------------------------------------------------------------------------
(* Where a path given in a SELECT leads: its start, its IDs, the file.     *)

PathIds(meth, ids) ==
  IF meth = "mf_path" /\ ids[1] = CurAppId /\ va.adf # NoFile
  THEN [ids EXCEPT ![1] = Hdr(va.adf).id] ELSE ids

\* The folder is looked up by its ID also for the current application.
PathStart(meth, ids) ==
  CASE meth = "df_path"                          -> va.df
    [] meth = "mf_path" /\ ids[1] # CurAppId     -> LookupId(MfId)
    [] meth = "mf_path" /\ ids[1] = CurAppId     ->
         IF va.adf = NoFile THEN NoFile ELSE LookupId(Hdr(va.adf).id)

PathFile(meth, ids) ==
  Walk(PathStart(meth, ids), PathIds(meth, ids))[Len(ids)]

-----------------------------------------------------------------------------
VaArea ==
  [tree : {0} \cup Trees, tree_adf : {0} \cup Trees,
   adf : {NoFile} \cup Files, df : {NoFile} \cup Files,
   ef : {NoFile} \cup Files, file : {NoFile} \cup Files, rcrd : Nat]

\* The parts of the area belong to one selection: nothing of an earlier one
\* is left over.
OneFile(v)  == v.file = IF v.ef # NoFile THEN v.ef ELSE v.df
OneTree(v)  == v.file # NoFile => v.file[1] = v.tree /\ v.df[1] = v.tree
EfInDf(v)   == v.ef # NoFile => ~Folder(v.ef) /\ Parent(v.ef) = v.df
DfFolder(v) == v.df # NoFile => Folder(v.df)

\* The current application is the one the current file is in, and its root.
OneApp(v) ==
  /\ v.file # NoFile /\ InApp(v.file) => v.adf = Root(v.tree)
  /\ v.adf # NoFile => v.adf = Root(v.tree_adf) /\ InApp(v.adf)

OneSelection(v) ==
  OneFile(v) /\ OneTree(v) /\ EfInDf(v) /\ DfFolder(v) /\ OneApp(v)

(***************************************************************************)
(* The validity area "summarizes the result of all successful file         *)
(* selections" (include/swicc/fs/va.h): whatever va_select_file carries    *)
(* over from the previous selection belongs to the new one, too.           *)
(***************************************************************************)
VaConsistent == OneSelection(va)

\* The current record is one of the current EF, and only EFs with records
\* have one.
RecordOfEf(v) ==
  v.rcrd # 0 =>
    /\ v.ef \in Files /\ Hdr(v.ef).type \in RecordTypes
    /\ v.rcrd < RcrdCnt(v.ef)

(***************************************************************************)
(* swicc_va_select_record_idx adds indices of cyclic EFs up, and every     *)
(* selection of a file has to forget them: the current record exists.      *)
(***************************************************************************)
RecordExists == RecordOfEf(va)
=============================================================================
