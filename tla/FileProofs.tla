----------------------------- MODULE FileProofs -----------------------------
(***************************************************************************)
(* What is selected, and what the commands on files read and write, for    *)
(* every forest that swicc_disk_load accepts and every sequence of         *)
(* commands.                                                               *)
(*                                                                         *)
(* The proofs go by what a lookup returns being a file, not by which file  *)
(* it is: they hold for any order of the lookup tables.  Paths are walked  *)
(* by a recursive function, about which there is induction at the end.     *)
(***************************************************************************)
EXTENDS FileCommands, WellFoundedInduction, TLAPS

-----------------------------------------------------------------------------
(* The forest.                                                             *)

\* A file is a position in a tree, and none is the missing file.
LEMMA FileIsPosition ==
  ASSUME NEW f \in Files
  PROVE  /\ f[1] \in Trees /\ f[2] \in 1..Len(Forest[f[1]])
         /\ f = <<f[1], f[2]>>
         /\ f # NoFile
  BY ForestAssumption DEF Files, Trees, NoFile

LEMMA PositionIsFile ==
  ASSUME NEW t \in Trees, NEW i \in 1..Len(Forest[t])
  PROVE  <<t, i>> \in Files
  BY DEF Files

\* What a header holds.
LEMMA HeaderType ==
  ASSUME NEW f \in Files
  PROVE  /\ Hdr(f) \in Item
         /\ Hdr(f).type \in ItemTypes
         /\ Hdr(f).size \in Nat
         /\ Hdr(f).type \in RecordTypes =>
              Hdr(f).rcrd_size \in Nat /\ Hdr(f).rcrd_size >= 1
<1>1. f[1] \in 1..Len(Forest) /\ f[2] \in 1..Len(Forest[f[1]])
  BY FileIsPosition DEF Trees
<1>2. Forest[f[1]] \in Seq(Item)
  BY <1>1, ForestAssumption
<1>3. Hdr(f) \in Item
  BY <1>1, <1>2 DEF Hdr
<1>4. Hdr(f).type \in RecordTypes => Hdr(f).rcrd_size >= 1
  BY <1>1, ForestAssumption DEF Hdr
<1> QED BY <1>3, <1>4 DEF Item

\* swicc_disk_tree_file_root: the root of the tree of a file.
LEMMA RootIsFolder ==
  ASSUME NEW t \in Trees
  PROVE  Root(t) \in Files /\ Root(t)[1] = t /\ Folder(Root(t))
<1>1. 1 \in 1..Len(Forest[t])
  BY ForestAssumption DEF Trees
<1>2. Forest[t][1].type \in {"MF", "ADF"}
  BY ForestAssumption DEF Trees
<1> QED BY <1>1, <1>2, PositionIsFile DEF Root, Folder, Hdr, FolderTypes

\* swicc_disk_tree_file_parent: an EF is in a folder of its tree.
LEMMA ParentIsFolder ==
  ASSUME NEW f \in Files, ~Folder(f)
  PROVE  Parent(f) \in Files /\ Parent(f)[1] = f[1] /\ Folder(Parent(f))
<1>1. f[1] \in Trees /\ f[2] \in 1..Len(Forest[f[1]]) /\ f = <<f[1], f[2]>>
  BY FileIsPosition
<1>2. f[2] # 1
  <2>1. Folder(Root(f[1]))
    BY <1>1, RootIsFolder
  <2> QED BY <1>1, <2>1 DEF Root
<1>3. f[2] \in 2..Len(Forest[f[1]])
  BY <1>1, <1>2, ForestAssumption DEF Trees
<1>4. /\ Hdr(f).up \in 1..(f[2] - 1)
      /\ Forest[f[1]][Hdr(f).up].type \in FolderTypes
  BY <1>1, <1>3, ForestAssumption DEF Trees, Hdr
<1>5. Hdr(f).up \in 1..Len(Forest[f[1]])
  BY <1>1, <1>4, ForestAssumption DEF Trees
<1> QED BY <1>1, <1>4, <1>5, PositionIsFile DEF Parent, Folder, Hdr

\* swicc_disk_file_rcrd_cnt: the records counted are within the data.
LEMMA RecordInData ==
  ASSUME NEW s \in Nat, NEW r \in Nat, r >= 1, NEW i \in Nat, i < s \div r
  PROVE  i * r + r <= s
<1>1. (s \div r) * r <= s /\ s \div r \in Nat
  BY SMT
<1>2. (i + 1) * r <= (s \div r) * r
  BY <1>1, SMT
<1>3. (i + 1) * r = i * r + r
  BY SMT
<1>4. i * r \in Nat /\ (s \div r) * r \in Nat
  BY <1>1, SMT
<1> QED BY <1>1, <1>2, <1>3, <1>4, SMT

LEMMA RcrdCntIsNat ==
  ASSUME NEW f \in Files, Hdr(f).type \in RecordTypes
  PROVE  RcrdCnt(f) \in Nat
<1>1. Hdr(f).size \in Nat /\ Hdr(f).rcrd_size \in Nat /\ Hdr(f).rcrd_size >= 1
  BY HeaderType
<1> QED BY <1>1, SMT DEF RcrdCnt

-----------------------------------------------------------------------------
(* The validity area.                                                      *)

Good(v) == v \in VaArea /\ OneSelection(v) /\ RecordOfEf(v)

LEMMA VaZeroGood == Good(VaZero)
  BY DEF Good, VaZero, VaArea, OneSelection, OneFile, OneTree, EfInDf,
         DfFolder, OneApp, RecordOfEf

\* An application is the root of its tree.
LEMMA RootInApp ==
  ASSUME NEW f \in Files
  PROVE  InApp(Root(f[1])) <=> InApp(f)
  BY DEF InApp, Root

\* va_select_file on a folder.
LEMMA FolderSelectedGood ==
  ASSUME NEW v, Good(v), NEW f \in Files, Folder(f)
  PROVE  Good(FolderSelected(v, f))
<1> DEFINE w == FolderSelected(v, f)
<1>1. f[1] \in Trees /\ f # NoFile
  BY FileIsPosition
<1>2. Root(f[1]) \in Files
  BY <1>1, RootIsFolder
<1>3. /\ w.tree = f[1] /\ w.df = f /\ w.file = f /\ w.ef = NoFile /\ w.rcrd = 0
      /\ w.adf = IF InApp(f) THEN Root(f[1]) ELSE v.adf
      /\ w.tree_adf = IF InApp(f) THEN f[1] ELSE v.tree_adf
  BY DEF FolderSelected, VaZero
<1>4. w \in VaArea
  BY <1>1, <1>2 DEF Good, VaArea, FolderSelected, VaZero
<1>5. OneApp(w)
  BY <1>3, RootInApp DEF Good, OneSelection, OneApp
<1>6. OneFile(w) /\ OneTree(w) /\ EfInDf(w) /\ DfFolder(w)
  BY <1>1, <1>3 DEF OneFile, OneTree, EfInDf, DfFolder
<1>7. RecordOfEf(w)
  BY <1>3 DEF RecordOfEf
<1> QED BY <1>4, <1>5, <1>6, <1>7 DEF Good, OneSelection

\* va_select_file on an EF.
LEMMA EfSelectedGood ==
  ASSUME NEW v, Good(v), NEW f \in Files, ~Folder(f)
  PROVE  Good(EfSelected(v, f))
<1> DEFINE w == EfSelected(v, f)
<1>1. f[1] \in Trees /\ f # NoFile
  BY FileIsPosition
<1>2. Root(f[1]) \in Files
  BY <1>1, RootIsFolder
<1>3. /\ Parent(f) \in Files /\ Parent(f)[1] = f[1] /\ Folder(Parent(f))
      /\ Parent(f) # NoFile
  BY ParentIsFolder, FileIsPosition
<1>4. /\ w.tree = f[1] /\ w.df = Parent(f) /\ w.file = f /\ w.ef = f
      /\ w.rcrd = 0
      /\ w.adf = IF InApp(f) THEN Root(f[1]) ELSE v.adf
      /\ w.tree_adf = IF InApp(f) THEN f[1] ELSE v.tree_adf
  BY DEF EfSelected, FolderSelected, VaZero
<1>5. w \in VaArea
  BY <1>1, <1>2, <1>3 DEF Good, VaArea, EfSelected, FolderSelected, VaZero
<1>6. OneApp(w)
  BY <1>4, RootInApp DEF Good, OneSelection, OneApp
<1>7. OneFile(w) /\ OneTree(w) /\ EfInDf(w) /\ DfFolder(w)
  BY <1>1, <1>3, <1>4 DEF OneFile, OneTree, EfInDf, DfFolder
<1>8. RecordOfEf(w)
  BY <1>4 DEF RecordOfEf
<1> QED BY <1>5, <1>6, <1>7, <1>8 DEF Good, OneSelection

\* Every selection leaves a validity area of one piece.
LEMMA SelectedGood ==
  ASSUME NEW v, Good(v), NEW f \in Files
  PROVE  /\ Good(Selected(v, f))
         /\ Selected(v, f).rcrd = 0
         /\ ~Folder(f) => Selected(v, f).ef = f
<1>1. CASE Folder(f)
  BY <1>1, FolderSelectedGood DEF Selected, FolderSelected, VaZero
<1>2. CASE ~Folder(f)
  BY <1>2, EfSelectedGood DEF Selected, EfSelected, FolderSelected, VaZero
<1> QED BY <1>1, <1>2

\* swicc_va_select_record_idx on a record that exists.
LEMMA RcrdSelectedGood ==
  ASSUME NEW v, Good(v), NEW idx \in Nat, v.ef \in Files,
         Hdr(v.ef).type \in RecordTypes, idx < RcrdCnt(v.ef)
  PROVE  Good(RcrdSelected(v, idx)) /\ RcrdSelected(v, idx).ef = v.ef
<1> DEFINE w == RcrdSelected(v, idx)
           n == IF Hdr(v.ef).type = "CYCLIC"
                THEN (v.rcrd + idx) % RcrdCnt(v.ef) ELSE idx
<1>1. RcrdCnt(v.ef) \in Nat
  BY RcrdCntIsNat
<1>2. v.rcrd \in Nat
  BY DEF Good, VaArea
<1>3. n \in Nat /\ n < RcrdCnt(v.ef)
  <2>1. (v.rcrd + idx) % RcrdCnt(v.ef) \in 0..(RcrdCnt(v.ef) - 1)
    BY <1>1, <1>2, SMT
  <2> QED BY <1>1, <2>1
<1>4. w = [v EXCEPT !.rcrd = n]
  BY DEF RcrdSelected
<1> HIDE DEF n, w
<1>5. /\ w \in VaArea /\ w.rcrd = n /\ w.ef = v.ef /\ w.df = v.df
      /\ w.file = v.file /\ w.tree = v.tree /\ w.adf = v.adf
      /\ w.tree_adf = v.tree_adf
  BY <1>3, <1>4 DEF Good, VaArea
<1>6. OneSelection(w)
  BY <1>5 DEF Good, OneSelection, OneFile, OneTree, EfInDf, DfFolder, OneApp
<1>7. RecordOfEf(w)
  BY <1>3, <1>5 DEF RecordOfEf
<1> QED BY <1>5, <1>6, <1>7 DEF Good, w

-----------------------------------------------------------------------------
(* The answers.                                                            *)

IInv == FilesTypeOK /\ VaConsistent /\ RecordExists /\ InCurrentEf

LEMMA IInvGood == IInv <=> FilesTypeOK /\ Good(va) /\ InCurrentEf
  BY DEF IInv, FilesTypeOK, Good, VaConsistent, RecordExists

LEMMA NoBytesType ==
  NoBytes \in [op : Ops, file : {NoFile} \cup Files, from : Nat, num : Nat]
  BY DEF NoBytes, Ops

LEMMA StatusKeeps ==
  ASSUME IInv, NEW s \in Statuses, Status(s), Good(va')
  PROVE  IInv'
<1>1. FilesTypeOK'
  BY NoBytesType DEF IInv, FilesTypeOK, Status, Done, Good
<1>2. InCurrentEf'
  BY DEF Status, NoBytes, InCurrentEf
<1> QED BY <1>1, <1>2 DEF IInv, Good, VaConsistent, RecordExists

LEMMA RefuseKeeps ==
  ASSUME IInv, NEW s \in Statuses, Refuse(s)
  PROVE  IInv'
  BY IInvGood, StatusKeeps DEF Refuse

LEMMA AckKeeps ==
  ASSUME IInv, NEW n \in Nat, count = 0, Ack(n)
  PROVE  IInv'
<1>1. FilesTypeOK'
  BY NoBytesType DEF IInv, FilesTypeOK, Ack, Statuses
<1>2. InCurrentEf'
  BY DEF Ack, NoBytes, InCurrentEf
<1>3. VaConsistent' /\ RecordExists'
  BY DEF IInv, Ack, VaConsistent, RecordExists
<1> QED BY <1>1, <1>2, <1>3 DEF IInv

LEMMA WrongLeKeeps ==
  ASSUME IInv, NEW n \in Nat, WrongLe(n)
  PROVE  IInv'
<1>1. FilesTypeOK'
  BY NoBytesType DEF IInv, FilesTypeOK, WrongLe, Done, Statuses
<1>2. InCurrentEf'
  BY DEF WrongLe, NoBytes, InCurrentEf
<1>3. VaConsistent' /\ RecordExists'
  BY DEF IInv, WrongLe, VaConsistent, RecordExists
<1> QED BY <1>1, <1>2, <1>3 DEF IInv

LEMMA WrongDataKeeps ==
  ASSUME IInv, NEW n \in Nat, WrongData(n)
  PROVE  IInv'
<1>1. out' = [op |-> "stack", file |-> NoFile, from |-> 0, num |-> n]
  BY DEF WrongData, NoBytes
<1>2. FilesTypeOK'
  BY <1>1 DEF IInv, FilesTypeOK, WrongData, Done, Statuses, Ops
<1>3. InCurrentEf'
  BY <1>1 DEF InCurrentEf
<1>4. VaConsistent' /\ RecordExists'
  BY DEF IInv, WrongData, VaConsistent, RecordExists
<1> QED BY <1>2, <1>3, <1>4 DEF IInv

LEMMA MovedKeeps ==
  ASSUME IInv, NEW op \in {"read", "write"}, NEW f \in Files, NEW from \in Nat,
         NEW num \in Nat, Moved(op, f, from, num), from + num <= Hdr(f).size,
         Good(va'), va'.ef = f
  PROVE  IInv'
<1>1. FilesTypeOK'
  BY DEF IInv, FilesTypeOK, Moved, Done, Statuses, Ops, Good
<1>2. InCurrentEf'
  BY DEF Moved, InCurrentEf
<1> QED BY <1>1, <1>2 DEF IInv, Good, VaConsistent, RecordExists

-----------------------------------------------------------------------------
(* The commands.                                                           *)

\* The instruction tells what a command holds.
LEMMA CommandByIns ==
  ASSUME cmd \in Command \cup {NoCommand}
  PROVE  /\ cmd.ins = "SELECT" => cmd \in SelectCmd
         /\ cmd.ins = "READ_BINARY" => cmd \in BinaryCmd
         /\ cmd.ins \in {"READ_RECORD", "UPDATE_RECORD"} => cmd \in RecordCmd
<1>1. CASE cmd \in SelectCmd
  BY <1>1 DEF SelectCmd
<1>2. CASE cmd \in BinaryCmd
  BY <1>2 DEF BinaryCmd
<1>3. CASE cmd \in RecordCmd
  BY <1>3 DEF RecordCmd
<1>4. CASE cmd \in OddCmd
  BY <1>4 DEF OddCmd
<1>5. CASE cmd = NoCommand
  BY <1>5 DEF NoCommand
<1> QED BY <1>1, <1>2, <1>3, <1>4, <1>5 DEF Command

\* The EF a command names is the current one once it is selected.
LEMMA SelectBySidGood ==
  ASSUME IInv, EfTarget \in Files, ~Folder(EfTarget)
  PROVE  Good(SelectBySid(va, EfTarget)) /\ SelectBySid(va, EfTarget).ef = EfTarget
<1>1. Good(va)
  BY IInvGood
<1>2. CASE BySid
  BY <1>1, <1>2, SelectedGood DEF SelectBySid
<1>3. CASE ~BySid
  BY <1>1, <1>3 DEF SelectBySid, EfTarget
<1> QED BY <1>2, <1>3

LEMMA SelectKeeps ==
  ASSUME IInv, Select
  PROVE  IInv'
<1> USE DEF Statuses
<1>1. Good(va)
  BY IInvGood
<1>2. CASE count = 0 /\ Ack(SelectP3)
  <2>1. SelectP3 \in Nat
    <3>1. cmd \in SelectCmd
      BY CommandByIns DEF IInv, FilesTypeOK, Select
    <3>2. Len(cmd.data) \in Nat
      BY <3>1, CommandAssumption DEF SelectCmd
    <3>3. 2 * Len(cmd.data) + 0 \in Nat /\ 2 * Len(cmd.data) + 1 \in Nat
      BY <3>2
    <3> QED BY <3>3, Zenon DEF SelectP3
  <2> QED BY <1>2, <2>1, AckKeeps
<1>3. CASE \E s \in {"6A86", "6702", "6B00", "6F00", "6A82"} : Refuse(s)
  BY <1>3, RefuseKeeps
<1>4. CASE SelectTarget \in Files /\ SelectFile(SelectTarget)
  BY <1>1, <1>4, SelectedGood, StatusKeeps DEF SelectFile
<1> QED BY <1>2, <1>3, <1>4 DEF Select

LEMMA ReadBinaryKeeps ==
  ASSUME IInv, ReadBinary
  PROVE  IInv'
<1> USE DEF Statuses
<1>1. cmd.offset \in Nat /\ cmd.p3 \in Nat
  <2>1. cmd \in BinaryCmd
    BY CommandByIns DEF IInv, FilesTypeOK, ReadBinary
  <2>2. cmd.offset \in Offsets /\ cmd.p3 \in P3s
    BY <2>1 DEF BinaryCmd
  <2>3. Offsets \subseteq Nat /\ P3s \subseteq 0..255
    BY CommandAssumption
  <2>4. cmd.offset \in Nat
    BY <2>2, <2>3
  <2>5. cmd.p3 \in 0..255
    BY <2>2, <2>3
  <2> QED BY <2>4, <2>5
<1> DEFINE f == EfTarget
<1>2. CASE count = 0 /\ Ack(0)
  BY <1>2, AckKeeps
<1>3. CASE \E s \in {"6702", "6A86", "6986", "6F00", "6A82", "6981", "6B00"} : Refuse(s)
  BY <1>3, RefuseKeeps
<1>4. CASE /\ f \in Files /\ InFile(f)
           /\ WrongLe(Hdr(f).size - cmd.offset)
  <2>1. Hdr(f).size - cmd.offset \in Nat
    BY <1>1, <1>4, HeaderType DEF InFile
  <2> QED BY <1>4, <2>1, WrongLeKeeps
<1>5. CASE /\ f \in Files /\ Hdr(f).type = "TRANSPARENT" /\ LeFits(f)
           /\ Moved("read", f, cmd.offset, cmd.p3)
           /\ va' = SelectBySid(va, f)
  <2>1. ~Folder(f)
    BY <1>5 DEF Folder, FolderTypes
  <2>2. Good(va') /\ va'.ef = f
    BY <1>5, <2>1, SelectBySidGood
  <2> QED BY <1>1, <1>5, <2>2, MovedKeeps DEF LeFits
<1> QED BY <1>2, <1>3, <1>4, <1>5 DEF ReadBinary

\* What READ RECORD and UPDATE RECORD find of the record they name.
LEMMA RecordFacts ==
  ASSUME IInv, cmd.ins \in {"READ_RECORD", "UPDATE_RECORD"}, RecordParamsOk,
         EfTarget \in Files, Hdr(EfTarget).type \in RecordTypes,
         HasRecord(EfTarget)
  PROVE  /\ Size(EfTarget) \in Nat /\ Idx * Size(EfTarget) \in Nat
         /\ Idx * Size(EfTarget) + Size(EfTarget) <= Hdr(EfTarget).size
         /\ Good(RecordSelected(va, EfTarget))
         /\ RecordSelected(va, EfTarget).ef = EfTarget
<1> DEFINE f == EfTarget
<1>1. cmd.p1 \in 0..255 /\ cmd.p1 # 0
  BY CommandByIns, CommandAssumption
     DEF IInv, FilesTypeOK, RecordCmd, RecordParamsOk
<1>2. Idx \in Nat
  BY <1>1 DEF Idx
<1>3. /\ Hdr(f).size \in Nat /\ Hdr(f).rcrd_size \in Nat
      /\ Hdr(f).rcrd_size >= 1
  BY HeaderType
<1>4. Idx < Hdr(f).size \div Hdr(f).rcrd_size
  BY DEF HasRecord, RcrdCnt
<1>5. Idx * Size(f) + Size(f) <= Hdr(f).size
  BY <1>2, <1>3, <1>4, RecordInData DEF Size
<1>6. Idx * Size(f) \in Nat
  BY <1>2, <1>3, SMT DEF Size
<1>7. ~Folder(f)
  BY DEF Folder, FolderTypes, RecordTypes
<1>8. Good(SelectBySid(va, f)) /\ SelectBySid(va, f).ef = f
  BY <1>7, SelectBySidGood
<1>9. /\ Good(RcrdSelected(SelectBySid(va, f), Idx))
      /\ RcrdSelected(SelectBySid(va, f), Idx).ef = f
  BY <1>2, <1>8, RcrdSelectedGood DEF HasRecord
<1> QED BY <1>3, <1>5, <1>6, <1>9 DEF Size, RecordSelected

LEMMA ReadRecordKeeps ==
  ASSUME IInv, ReadRecord
  PROVE  IInv'
<1> USE DEF Statuses
<1> DEFINE f == EfTarget
<1>1. CASE count = 0 /\ Ack(0)
  BY <1>1, AckKeeps
<1>2. CASE \E s \in {"6702", "6A81", "6A86", "6A82", "6F00", "6A83"} : Refuse(s)
  BY <1>2, RefuseKeeps
<1>3. CASE /\ RecordParamsOk
           /\ f \in Files /\ Hdr(f).type \in RecordTypes /\ HasRecord(f)
           /\ IF cmd.p3 # Size(f) THEN WrongLe(Size(f))
              ELSE /\ Moved("read", f, Idx * Size(f), Size(f))
                   /\ va' = RecordSelected(va, f)
  <2>1. cmd.ins \in {"READ_RECORD", "UPDATE_RECORD"}
    BY DEF ReadRecord
  <2>2. /\ Size(f) \in Nat /\ Idx * Size(f) \in Nat
        /\ Idx * Size(f) + Size(f) <= Hdr(f).size
        /\ Good(RecordSelected(va, f)) /\ RecordSelected(va, f).ef = f
    BY <1>3, <2>1, RecordFacts
  <2>3. CASE WrongLe(Size(f))
    BY <2>2, <2>3, WrongLeKeeps
  <2>4. CASE /\ Moved("read", f, Idx * Size(f), Size(f))
             /\ va' = RecordSelected(va, f)
    BY <1>3, <2>2, <2>4, MovedKeeps
  <2> QED BY <1>3, <2>3, <2>4
<1> QED BY <1>1, <1>2, <1>3 DEF ReadRecord, NoRecord

LEMMA UpdateRecordKeeps ==
  ASSUME IInv, UpdateRecord
  PROVE  IInv'
<1> USE DEF Statuses
<1> DEFINE f == EfTarget
<1>1. CASE \E s \in {"6A81", "6A86", "6A82", "6F00", "6A83"} : Refuse(s)
  BY <1>1, RefuseKeeps
<1>2. CASE /\ RecordParamsOk
           /\ f \in Files /\ Hdr(f).type \in RecordTypes /\ HasRecord(f)
           /\ \/ count = 0 /\ Ack(Size(f))
              \/ WrongData(Size(f))
              \/ WrongLe(Size(f))
              \/ /\ Moved("write", f, Idx * Size(f), Size(f))
                 /\ va' = RecordSelected(va, f)
  <2>1. cmd.ins \in {"READ_RECORD", "UPDATE_RECORD"}
    BY DEF UpdateRecord
  <2>2. /\ Size(f) \in Nat /\ Idx * Size(f) \in Nat
        /\ Idx * Size(f) + Size(f) <= Hdr(f).size
        /\ Good(RecordSelected(va, f)) /\ RecordSelected(va, f).ef = f
    BY <1>2, <2>1, RecordFacts
  <2>3. CASE count = 0 /\ Ack(Size(f))
    BY <2>2, <2>3, AckKeeps
  <2>4. CASE WrongData(Size(f))
    BY <2>2, <2>4, WrongDataKeeps
  <2>5. CASE WrongLe(Size(f))
    BY <2>2, <2>5, WrongLeKeeps
  <2>6. CASE /\ Moved("write", f, Idx * Size(f), Size(f))
             /\ va' = RecordSelected(va, f)
    BY <1>2, <2>2, <2>6, MovedKeeps
  <2> QED BY <1>2, <2>3, <2>4, <2>5, <2>6
<1> QED BY <1>1, <1>2 DEF UpdateRecord, NoRecord

-----------------------------------------------------------------------------
(* The theorems.                                                           *)

LEMMA InitKeeps == Init => IInv
<1> SUFFICES ASSUME Init PROVE IInv
  OBVIOUS
<1>1. Good(va)
  BY VaZeroGood DEF Init
<1>2. FilesTypeOK
  BY <1>1, NoBytesType DEF Init, FilesTypeOK, Good, Statuses
<1>3. InCurrentEf
  BY DEF Init, InCurrentEf, NoBytes
<1> QED BY <1>1, <1>2, <1>3, IInvGood

LEMMA StartCommandKeeps ==
  ASSUME IInv, NEW c \in Command, StartCommand(c)
  PROVE  IInv'
<1>1. FilesTypeOK'
  BY NoBytesType DEF IInv, FilesTypeOK, StartCommand, Statuses
<1>2. InCurrentEf'
  BY DEF StartCommand, NoBytes, InCurrentEf
<1>3. VaConsistent' /\ RecordExists'
  BY DEF IInv, StartCommand, VaConsistent, RecordExists
<1> QED BY <1>1, <1>2, <1>3 DEF IInv

LEMMA ReceiveDataKeeps ==
  ASSUME IInv, NEW g \in {"asked", "others"}, ReceiveData(g)
  PROVE  IInv'
  BY DEF IInv, FilesTypeOK, ReceiveData, resVars, VaConsistent, RecordExists,
         InCurrentEf

LEMMA CardResetKeeps ==
  ASSUME IInv, CardReset
  PROVE  IInv'
<1>1. Good(va')
  <2>1. CASE LookupId(MfId) \in Files
    BY <2>1, VaZeroGood, SelectedGood DEF CardReset, VaAfterReset
  <2>2. CASE LookupId(MfId) \notin Files
    BY <2>2, VaZeroGood DEF CardReset, VaAfterReset
  <2> QED BY <2>1, <2>2
<1>2. FilesTypeOK'
  BY <1>1, NoBytesType DEF IInv, FilesTypeOK, CardReset, Statuses, Good
<1>3. InCurrentEf'
  BY DEF CardReset, NoBytes, InCurrentEf
<1> QED BY <1>1, <1>2, <1>3 DEF IInv, Good, VaConsistent, RecordExists

LEMMA NextKeeps == IInv /\ [Next]_vars => IInv'
<1> SUFFICES ASSUME IInv, [Next]_vars PROVE IInv'
  OBVIOUS
<1>1. CASE \E c \in Command : StartCommand(c)
  BY <1>1, StartCommandKeeps
<1>2. CASE \E g \in {"asked", "others"} : ReceiveData(g)
  BY <1>2, ReceiveDataKeeps
<1>3. CASE Select
  BY <1>3, SelectKeeps
<1>4. CASE ReadBinary
  BY <1>4, ReadBinaryKeeps
<1>5. CASE ReadRecord
  BY <1>5, ReadRecordKeeps
<1>6. CASE UpdateRecord
  BY <1>6, UpdateRecordKeeps
<1>7. CASE Odd
  BY <1>7, RefuseKeeps DEF Odd, Statuses
<1>8. CASE CardReset
  BY <1>8, CardResetKeeps
<1>9. CASE UNCHANGED vars
  BY <1>9 DEF vars, cmdVars, resVars, IInv, FilesTypeOK, VaConsistent,
              RecordExists, InCurrentEf
<1> QED BY <1>1, <1>2, <1>3, <1>4, <1>5, <1>6, <1>7, <1>8, <1>9
        DEF Next, RunHandler

LEMMA Inductive == Spec => []IInv
  BY InitKeeps, NextKeeps, PTL DEF Spec

\* Types, and that the length announced in 6Cxx (size - offset, unsigned)
\* does not wrap.
THEOREM FilesTypeCorrect == Spec => []FilesTypeOK
<1>1. IInv => FilesTypeOK
  BY DEF IInv
<1> QED BY <1>1, Inductive, PTL

\* The parts of the validity area belong to one selection, whatever
\* va_select_file carried over.
THEOREM SelectionOfOnePiece == Spec => []VaConsistent
<1>1. IInv => VaConsistent
  BY DEF IInv
<1> QED BY <1>1, Inductive, PTL

\* The current record exists in the current EF.
THEOREM CurrentRecordExists == Spec => []RecordExists
<1>1. IInv => RecordExists
  BY DEF IInv
<1> QED BY <1>1, Inductive, PTL

\* READ BINARY, READ RECORD and UPDATE RECORD move only bytes of the data of
\* the file that is the current EF afterwards.
THEOREM BytesOfCurrentEf == Spec => []InCurrentEf
<1>1. IInv => InCurrentEf
  BY DEF IInv
<1> QED BY <1>1, Inductive, PTL

-----------------------------------------------------------------------------
(* Selection and success.                                                  *)

LEMMA NextSelects == [Next]_vars => (va' # va =>
       \/ sw' \in {"9000", "61"}
       \/ sw' = "6F00" /\ ~Describable(va'.file)
       \/ sw' = "none")
<1> SUFFICES ASSUME [Next]_vars, va' # va
             PROVE  \/ sw' \in {"9000", "61"}
                    \/ sw' = "6F00" /\ ~Describable(va'.file)
                    \/ sw' = "none"
  OBVIOUS
<1>1. CASE \E f \in Files : SelectFile(f)
  <2>1. PICK f \in Files : SelectFile(f)
    BY <1>1
  <2>2. va'.file = f
    BY <2>1 DEF SelectFile, Selected, FolderSelected, EfSelected, VaZero
  <2> QED BY <2>1, <2>2 DEF SelectFile, Status
<1>2. CASE sw' = "9000"
  BY <1>2
<1>3. CASE CardReset
  BY <1>3 DEF CardReset
<1>4. CASE UNCHANGED va
  BY <1>4
<1>5. Select => UNCHANGED va \/ \E f \in Files : SelectFile(f)
  BY DEF Select, Ack, Refuse
<1>6. ReadBinary => UNCHANGED va \/ sw' = "9000"
  BY DEF ReadBinary, Ack, Refuse, WrongLe, Moved
<1>7. ReadRecord => UNCHANGED va \/ sw' = "9000"
  BY DEF ReadRecord, NoRecord, Ack, Refuse, WrongLe, Moved
<1>8. UpdateRecord => UNCHANGED va \/ sw' = "9000"
  BY DEF UpdateRecord, NoRecord, Ack, Refuse, WrongLe, WrongData, Moved
<1>9. \/ \E c \in Command : StartCommand(c)
      \/ \E g \in {"asked", "others"} : ReceiveData(g)
      \/ Odd \/ UNCHANGED vars
      => UNCHANGED va
  BY DEF StartCommand, ReceiveData, Odd, Refuse, vars
<1> QED BY <1>1, <1>2, <1>3, <1>4, <1>5, <1>6, <1>7, <1>8, <1>9
        DEF Next, RunHandler

\* A command that is refused, or told to come again with another length,
\* leaves the selection alone.
THEOREM SelectionWithSuccess == Spec => SelectionNeedsSuccess
  BY NextSelects, PTL DEF Spec, SelectionNeedsSuccess

-----------------------------------------------------------------------------
(* Retries.  A command sent again as 6Cxx told is run on the selection the *)
(* first one was run on, and passes the same checks.                       *)

NamedBySid(c) == IF c.ins = "READ_BINARY" THEN c.by_sid ELSE c.sid # 0
Named(c) == IF NamedBySid(c) THEN LookupSid(va.tree, c.sid) ELSE va.ef

\* READ BINARY finds what c asks for.
BinaryAnswerable(c) ==
  /\ c.ins = "READ_BINARY" /\ ~(c.by_sid /\ c.bad)
  /\ Named(c) \in Files /\ Hdr(Named(c)).type = "TRANSPARENT"
  /\ c.offset < Hdr(Named(c)).size /\ c.offset + c.p3 <= Hdr(Named(c)).size

\* READ RECORD and UPDATE RECORD do.
RecordAnswerable(c) ==
  /\ c.ins \in {"READ_RECORD", "UPDATE_RECORD"}
  /\ c.by = "num" /\ c.sid # 31 /\ c.p1 \notin {0, RcrdNumRfu}
  /\ Named(c) \in Files /\ Hdr(Named(c)).type \in RecordTypes
  /\ c.p1 - 1 < RcrdCnt(Named(c)) /\ c.p3 = Hdr(Named(c)).rcrd_size

\* What the interface was told to send can be answered as things are.
HintFits == hint # NoCommand => BinaryAnswerable(hint) \/ RecordAnswerable(hint)

\* Replacing P3 leaves the rest of a command alone.
LEMMA BinaryWithP3 ==
  ASSUME NEW c \in BinaryCmd, NEW n
  PROVE  /\ [c EXCEPT !.p3 = n].ins = c.ins
         /\ [c EXCEPT !.p3 = n].by_sid = c.by_sid
         /\ [c EXCEPT !.p3 = n].sid = c.sid
         /\ [c EXCEPT !.p3 = n].bad = c.bad
         /\ [c EXCEPT !.p3 = n].offset = c.offset
         /\ [c EXCEPT !.p3 = n].p3 = n
  BY Zenon DEF BinaryCmd

LEMMA RecordWithP3 ==
  ASSUME NEW c \in RecordCmd, NEW n
  PROVE  /\ [c EXCEPT !.p3 = n].ins = c.ins
         /\ [c EXCEPT !.p3 = n].sid = c.sid
         /\ [c EXCEPT !.p3 = n].by = c.by
         /\ [c EXCEPT !.p3 = n].p1 = c.p1
         /\ [c EXCEPT !.p3 = n].p3 = n
  BY DEF RecordCmd

\* The answers other than 6Cxx.
HintGone ==  hint' = NoCommand \/ (hint' = hint /\ va' = va)

LEMMA HintKept ==
  ASSUME HintFits, HintGone
  PROVE  HintFits'
<1>1. CASE hint' = NoCommand
  BY <1>1 DEF HintFits
<1>2. CASE hint' = hint /\ va' = va
  BY <1>2 DEF HintFits, HintGone, BinaryAnswerable, RecordAnswerable, Named,
              NamedBySid
<1> QED BY <1>1, <1>2 DEF HintGone

LEMMA BinaryHint ==
  ASSUME IInv, ReadBinary, EfTarget \in Files,
         Hdr(EfTarget).type = "TRANSPARENT", ~(cmd.by_sid /\ cmd.bad),
         InFile(EfTarget), WrongLe(Hdr(EfTarget).size - cmd.offset)
  PROVE  HintFits'
<1> DEFINE n == Hdr(EfTarget).size - cmd.offset
<1>1. cmd.ins = "READ_BINARY" /\ cmd \in BinaryCmd
  BY CommandByIns DEF IInv, FilesTypeOK, ReadBinary
<1>2. hint' = [cmd EXCEPT !.p3 = n] /\ va' = va
  BY DEF WrongLe
<1>3. /\ hint'.ins = cmd.ins /\ hint'.by_sid = cmd.by_sid
      /\ hint'.sid = cmd.sid /\ hint'.bad = cmd.bad
      /\ hint'.offset = cmd.offset /\ hint'.p3 = n
  BY <1>1, <1>2, BinaryWithP3
<1>4. Named(hint)' = EfTarget
  BY <1>1, <1>2, <1>3 DEF Named, NamedBySid, EfTarget, BySid
<1>5. cmd.offset \in Nat /\ Hdr(EfTarget).size \in Nat
  <2>1. cmd.offset \in Offsets
    BY <1>1 DEF BinaryCmd
  <2> QED BY <2>1, CommandAssumption, HeaderType
<1>6. cmd.offset < Hdr(EfTarget).size /\ cmd.offset + n <= Hdr(EfTarget).size
  BY <1>5 DEF InFile
<1>7. BinaryAnswerable(hint)'
  BY <1>1, <1>3, <1>4, <1>6 DEF BinaryAnswerable
<1> QED BY <1>7 DEF HintFits

LEMMA RecordHint ==
  ASSUME IInv, cmd.ins \in {"READ_RECORD", "UPDATE_RECORD"}, RecordParamsOk,
         EfTarget \in Files, Hdr(EfTarget).type \in RecordTypes,
         HasRecord(EfTarget), WrongLe(Size(EfTarget))
  PROVE  HintFits'
<1>1. cmd \in RecordCmd
  BY CommandByIns DEF IInv, FilesTypeOK
<1>2. hint' = [cmd EXCEPT !.p3 = Size(EfTarget)] /\ va' = va
  BY DEF WrongLe
<1>3. /\ hint'.ins = cmd.ins /\ hint'.sid = cmd.sid /\ hint'.by = cmd.by
      /\ hint'.p1 = cmd.p1 /\ hint'.p3 = Size(EfTarget)
  BY <1>1, <1>2, RecordWithP3
<1>4. Named(hint)' = EfTarget
  BY <1>2, <1>3 DEF Named, NamedBySid, EfTarget, BySid
<1>5. RecordAnswerable(hint)'
  BY <1>3, <1>4 DEF RecordAnswerable, RecordParamsOk, HasRecord, Idx, Size
<1> QED BY <1>5 DEF HintFits

LEMMA HintFitsKept == IInv /\ HintFits /\ [Next]_vars => HintFits'
<1> SUFFICES ASSUME IInv, HintFits, [Next]_vars PROVE HintFits'
  OBVIOUS
<1>1. CASE HintGone
  BY <1>1, HintKept
<1>2. (\E c \in Command : StartCommand(c)) => HintGone
  BY DEF StartCommand, HintGone
<1>3. (\E g \in {"asked", "others"} : ReceiveData(g)) => HintGone
  BY DEF ReceiveData, HintGone
<1>4. Select => HintGone
  BY DEF Select, SelectFile, Refuse, Status, Ack, HintGone
<1>5. CASE ReadBinary
  <2>1. \/ HintGone
        \/ /\ EfTarget \in Files /\ Hdr(EfTarget).type = "TRANSPARENT"
           /\ ~(cmd.by_sid /\ cmd.bad) /\ InFile(EfTarget)
           /\ WrongLe(Hdr(EfTarget).size - cmd.offset)
    BY <1>5 DEF ReadBinary, Refuse, Status, Ack, Moved, HintGone
  <2> QED BY <1>1, <1>5, <2>1, BinaryHint
<1>6. CASE ReadRecord \/ UpdateRecord
  <2>1. \/ HintGone
        \/ /\ cmd.ins \in {"READ_RECORD", "UPDATE_RECORD"} /\ RecordParamsOk
           /\ EfTarget \in Files /\ Hdr(EfTarget).type \in RecordTypes
           /\ HasRecord(EfTarget) /\ WrongLe(Size(EfTarget))
    <3>1. CASE ReadRecord
      BY <3>1 DEF ReadRecord, NoRecord, Refuse, Status, Ack, Moved, HintGone
    <3>2. CASE UpdateRecord
      BY <3>2 DEF UpdateRecord, NoRecord, Refuse, Status, Ack, Moved, WrongData,
                  HintGone
    <3> QED BY <1>6, <3>1, <3>2
  <2> QED BY <1>1, <2>1, RecordHint
<1>7. Odd \/ CardReset \/ UNCHANGED vars => HintGone
  BY DEF Odd, Refuse, Status, CardReset, vars, HintGone
<1> QED BY <1>1, <1>2, <1>3, <1>4, <1>5, <1>6, <1>7 DEF Next, RunHandler

LEMMA HintInductive == Spec => []HintFits
<1>1. Init => HintFits
  BY DEF Init, HintFits
<1> QED BY <1>1, HintFitsKept, Inductive, PTL DEF Spec

LEMMA NextRetries ==
  IInv /\ HintFits /\ [Next]_vars =>
    (cmd # NoCommand /\ cmd = hint /\ cmd' = NoCommand =>
       sw' \in {"9000", "none"} \/ got = "others")
<1> SUFFICES ASSUME IInv, HintFits, [Next]_vars, cmd # NoCommand, cmd = hint,
                    cmd' = NoCommand, got # "others"
             PROVE  sw' \in {"9000", "none"}
  OBVIOUS
<1>1. Named(cmd) = EfTarget
  BY DEF Named, NamedBySid, EfTarget, BySid
<1>2. BinaryAnswerable(cmd) \/ RecordAnswerable(cmd)
  BY DEF HintFits
<1>3. CASE ReadBinary
  <2>1. BinaryAnswerable(cmd)
    BY <1>2, <1>3 DEF ReadBinary, RecordAnswerable
  <2>2. /\ EfTarget \in Files /\ Hdr(EfTarget).type = "TRANSPARENT"
        /\ ~(cmd.by_sid /\ cmd.bad) /\ InFile(EfTarget) /\ LeFits(EfTarget)
    BY <1>1, <2>1 DEF BinaryAnswerable, InFile, LeFits
  <2>3. ~Ack(0)
    BY DEF Ack
  <2> QED BY <1>3, <2>2, <2>3 DEF ReadBinary, Moved
<1>4. CASE ReadRecord \/ UpdateRecord
  <2>1. RecordAnswerable(cmd)
    BY <1>2, <1>4 DEF ReadRecord, UpdateRecord, BinaryAnswerable
  <2>2. /\ RecordParamsOk /\ EfTarget \in Files
        /\ Hdr(EfTarget).type \in RecordTypes /\ HasRecord(EfTarget)
        /\ cmd.p3 = Size(EfTarget)
    BY <1>1, <2>1 DEF RecordAnswerable, RecordParamsOk, HasRecord, Idx, Size
  <2>3. \A s \in {"6A81", "6A86"} : ~RecordParams(s)
    BY <2>2 DEF RecordParams, RecordParamsOk
  <2>4. ~NoRecord(EfTarget)
    BY <2>2 DEF NoRecord
  <2>5. ~Ack(0) /\ ~Ack(Size(EfTarget))
    BY DEF Ack
  <2> QED BY <1>4, <2>2, <2>3, <2>4, <2>5 DEF ReadRecord, UpdateRecord, Moved
<1>5. ~Select /\ ~Odd
  BY <1>2 DEF BinaryAnswerable, RecordAnswerable, Select, Odd
<1>6. ~(\E c \in Command : StartCommand(c))
  BY DEF StartCommand
<1>7. ~(\E g \in {"asked", "others"} : ReceiveData(g)) /\ ~UNCHANGED vars
  BY DEF ReceiveData, vars, cmdVars
<1>8. CASE CardReset
  BY <1>8 DEF CardReset
<1> QED BY <1>3, <1>4, <1>5, <1>6, <1>7, <1>8 DEF Next, RunHandler

\* A command sent again with the length of the answer 6Cxx succeeds.
THEOREM RetryWithLength == Spec => RetrySucceeds
  BY NextRetries, HintInductive, Inductive, PTL DEF Spec, RetrySucceeds

-----------------------------------------------------------------------------
(* Paths.  A walk is a function defined by recursion over the path; that   *)
(* it exists, and what it never leaves, is shown by induction over the     *)
(* numbers of a set.                                                       *)

LEMMA LeastOf ==
  ASSUME NEW T \in SUBSET Nat, T # {}
  PROVE  \E x \in T : \A y \in T : x <= y
<1>1. \E x \in T : \A y \in T : ~ (<<y, x>> \in OpToRel(<, Nat))
  BY NatLessThanWellFounded, WFMin, Zenon
<1>2. \A x, y \in Nat : y < x => <<y, x>> \in OpToRel(<, Nat)
  BY DEF OpToRel
<1>3. \A x, y \in Nat : x <= y \/ y < x
  OBVIOUS
<1> QED BY <1>1, <1>2, <1>3

LEMMA InductionOver ==
  ASSUME NEW S, 0 \in S, \A n \in Nat : n \in S => n + 1 \in S
  PROVE  \A n \in Nat : n \in S
<1> SUFFICES ASSUME {n \in Nat : n \notin S} # {} PROVE FALSE
  OBVIOUS
<1>1. PICK x \in {n \in Nat : n \notin S} :
        \A y \in {n \in Nat : n \notin S} : x <= y
  BY LeastOf
<1>2. x - 1 \in Nat /\ x - 1 \in S /\ x = (x - 1) + 1
  BY <1>1
<1> QED BY <1>1, <1>2

\* The first of several files of one tree.
LEMMA FirstInTree ==
  ASSUME NEW t, NEW S \in SUBSET {f \in Files : f[1] = t}, S # {}
  PROVE  FirstOf(S) \in S
<1> DEFINE T == {f[2] : f \in S}
<1>1. \A f \in S : f[1] = t /\ f[2] \in Nat /\ f = <<f[1], f[2]>>
  BY FileIsPosition
<1>2. T \in SUBSET Nat /\ T # {}
  BY <1>1
<1>3. PICK x \in T : \A y \in T : x <= y
  BY <1>2, LeastOf
<1>4. PICK f \in S : x = f[2]
  BY <1>3
<1>5. \A g \in S : g = f \/ Before(f, g)
  <2> TAKE g \in S
  <2>1. f[2] <= g[2] /\ f[1] = g[1] /\ f[2] \in Nat /\ g[2] \in Nat
    BY <1>1, <1>3, <1>4
  <2>2. CASE f[2] = g[2]
    BY <1>1, <2>1, <2>2
  <2>3. CASE f[2] < g[2]
    BY <2>1, <2>3 DEF Before
  <2> QED BY <2>1, <2>2, <2>3
<1> QED BY <1>5 DEF FirstOf

\* swicc_disk_file_foreach, not recursing, visits a folder and its contents.
LEMMA StepInTree ==
  ASSUME NEW f \in {NoFile} \cup Files, NEW id
  PROVE  Step(f, id) \in {NoFile} \cup {g \in Files : g[1] = f[1]}
<1> DEFINE S == {g \in Files : (g = f \/ Parent(g) = f) /\ Hdr(g).id = id}
<1>1. S \in SUBSET {g \in Files : g[1] = f[1]}
  BY DEF Parent
<1>2. CASE S = {}
  BY <1>2 DEF Step
<1>3. CASE S # {}
  <2>1. FirstOf(S) \in S
    BY <1>1, <1>3, FirstInTree
  <2> QED BY <1>1, <1>3, <2>1 DEF Step
<1> QED BY <1>2, <1>3

WalkStep(g, start, path, n) == IF n = 0 THEN start ELSE Step(g[n - 1], path[n])

\* g is the walk, as far as the first m steps.
Walks(g, start, path, m) == g = [n \in 0..m |-> WalkStep(g, start, path, n)]

\* The recursion of a walk has a solution.
LEMMA WalkExists ==
  ASSUME NEW start, NEW path
  PROVE  \A m \in Nat : \E g : Walks(g, start, path, m)
<1> DEFINE S == {m \in Nat : \E g : Walks(g, start, path, m)}
<1>1. 0 \in S
  <2> DEFINE g == [n \in 0..0 |-> start]
  <2>1. Walks(g, start, path, 0)
    BY DEF Walks, WalkStep
  <2> QED BY <2>1
<1>2. ASSUME NEW m \in Nat, m \in S PROVE m + 1 \in S
  <2>1. PICK g : Walks(g, start, path, m)
    BY <1>2
  <2> DEFINE h == [n \in 0..(m + 1) |-> WalkStep(g, start, path, n)]
  <2>2. \A n \in 0..m : h[n] = g[n]
    <3>1. \A n \in 0..m : g[n] = WalkStep(g, start, path, n)
      BY <2>1 DEF Walks
    <3> QED BY <3>1
  <2>3. \A n \in 0..(m + 1) : WalkStep(g, start, path, n) = WalkStep(h, start, path, n)
    <3> HIDE DEF h
    <3> TAKE n \in 0..(m + 1)
    <3>1. n # 0 => n - 1 \in 0..m
      OBVIOUS
    <3>2. n # 0 => h[n - 1] = g[n - 1]
      BY <2>2, <3>1
    <3> QED BY <3>2 DEF WalkStep
  <2> HIDE DEF h
  <2>4. Walks(h, start, path, m + 1)
    BY <2>3 DEF h, Walks
  <2> QED BY <2>4
<1> HIDE DEF S
<1>3. \A m \in Nat : m \in S
  BY <1>1, <1>2, InductionOver
<1> QED BY <1>3 DEF S

LEMMA WalkIs ==
  ASSUME NEW start, NEW path \in Seq(Nat), NEW n \in 0..Len(path)
  PROVE  Walk(start, path)[n] =
           IF n = 0 THEN start ELSE Step(Walk(start, path)[n - 1], path[n])
<1> DEFINE W == Walk(start, path)
<1>1. Len(path) \in Nat
  OBVIOUS
<1>2. PICK g : Walks(g, start, path, Len(path))
  BY <1>1, WalkExists
<1>3. W = CHOOSE at : at = [m \in 0..Len(path) |-> IF m = 0 THEN start ELSE Step(at[m - 1], path[m])]
  BY DEF Walk
<1>4. W = [m \in 0..Len(path) |-> IF m = 0 THEN start ELSE Step(W[m - 1], path[m])]
  BY <1>2, <1>3 DEF Walks, WalkStep
<1> QED BY <1>4

\* A path never leaves the tree it starts in.
LEMMA WalkInTree ==
  ASSUME NEW start \in {NoFile} \cup Files, NEW path \in Seq(Nat),
         NEW n \in 0..Len(path)
  PROVE  Walk(start, path)[n] \in {NoFile} \cup {g \in Files : g[1] = start[1]}
<1> DEFINE R == {NoFile} \cup {g \in Files : g[1] = start[1]}
           S == {k \in Nat : k <= Len(path) => Walk(start, path)[k] \in R}
<1>1. 0 \in S
  <2>1. 0 \in 0..Len(path)
    OBVIOUS
  <2> QED BY <2>1, WalkIs
<1>2. ASSUME NEW k \in Nat, k \in S PROVE k + 1 \in S
  <2> SUFFICES ASSUME k + 1 <= Len(path) PROVE Walk(start, path)[k + 1] \in R
    OBVIOUS
  <2> DEFINE f == Walk(start, path)[k]
  <2>1. Len(path) \in Nat
    OBVIOUS
  <2>2. f \in R
    BY <1>2, <2>1
  <2>3. k + 1 \in 0..Len(path) /\ k + 1 # 0 /\ (k + 1) - 1 = k
    BY <2>1
  <2>4. Walk(start, path)[k + 1] = Step(f, path[k + 1])
    BY <2>3, WalkIs
  <2> HIDE DEF f
  <2>5. Step(f, path[k + 1]) \in {NoFile} \cup {g \in Files : g[1] = f[1]}
    BY <2>2, StepInTree
  <2>6. f = NoFile => Step(f, path[k + 1]) = NoFile
    <3>1. \A g \in Files : g[1] # NoFile[1]
      BY FileIsPosition DEF NoFile, Trees
    <3> QED BY <2>5, <3>1
  <2> QED BY <2>2, <2>4, <2>5, <2>6
<1>3. \A k \in Nat : k \in S
  BY <1>1, <1>2, InductionOver
<1> QED BY <1>3

\* The current application, looked up by its ID, if the ID is its own.
LEMMA OwnIdFound ==
  ASSUME NEW f \in Files, OwnId(f)
  PROVE  LookupId(Hdr(f).id) \in {NoFile, f}
<1> DEFINE S == {g \in Files : Hdr(g).id = Hdr(f).id}
<1>1. S = {f}
  BY DEF OwnId
<1>2. LastOf({f}) = f
  BY DEF LastOf
<1> QED BY <1>1, <1>2 DEF LookupId

\* Where a path leads that starts with the current application.
LEMMA PathInApp ==
  ASSUME IInv, NEW ids \in Seq(Nat), Len(ids) >= 1, ids[1] = CurAppId,
         PathFile("mf_path", ids) \in Files
  PROVE  /\ va.adf # NoFile
         /\ OwnId(va.adf) => PathFile("mf_path", ids)[1] = va.tree_adf
<1> DEFINE start == PathStart("mf_path", ids)
           path  == PathIds("mf_path", ids)
<1>1. start = IF va.adf = NoFile THEN NoFile ELSE LookupId(Hdr(va.adf).id)
  BY DEF PathStart
<1>2. va.adf \in {NoFile} \cup Files
  BY DEF IInv, FilesTypeOK, VaArea
<1>3. path \in Seq(Nat) /\ Len(path) = Len(ids)
  <2>1. CASE va.adf = NoFile
    BY <2>1 DEF PathIds
  <2>2. CASE va.adf # NoFile
    <3>1. Hdr(va.adf).id \in Nat
      BY <1>2, <2>2, HeaderType DEF Item
    <3>2. path = [ids EXCEPT ![1] = Hdr(va.adf).id]
      BY <2>2 DEF PathIds
    <3> QED BY <3>1, <3>2
  <2> QED BY <2>1, <2>2
<1>4. PathFile("mf_path", ids) = Walk(start, path)[Len(ids)]
  BY DEF PathFile
<1>5. Len(ids) \in 0..Len(path)
  BY <1>3
<1> HIDE DEF start, path
<1>6. ASSUME start \in {NoFile} \cup Files
      PROVE  start # NoFile /\ PathFile("mf_path", ids)[1] = start[1]
  <2>1. Walk(start, path)[Len(ids)] \in
          {NoFile} \cup {g \in Files : g[1] = start[1]}
    BY <1>3, <1>5, <1>6, WalkInTree
  <2>2. NoFile \notin Files /\ \A g \in Files : g[1] # NoFile[1]
    BY FileIsPosition DEF NoFile, Trees
  <2> QED BY <1>4, <2>1, <2>2
<1>7. va.adf # NoFile
  BY <1>1, <1>6
<1>8. ASSUME OwnId(va.adf)
      PROVE  PathFile("mf_path", ids)[1] = va.tree_adf
  <2>1. start \in {NoFile, va.adf}
    BY <1>1, <1>2, <1>7, <1>8, OwnIdFound
  <2>2. PathFile("mf_path", ids)[1] = va.adf[1]
    BY <1>2, <1>6, <1>7, <2>1
  <2>3. va.adf = Root(va.tree_adf)
    BY <1>7 DEF IInv, VaConsistent, OneSelection, OneApp
  <2> QED BY <2>2, <2>3 DEF Root
<1> QED BY <1>7, <1>8

\* A command under execution has not been answered but by an ACK.
Unanswered == cmd # NoCommand => sw \in {"none", "ACK"}

LEMMA UnansweredKept == Unanswered /\ [Next]_vars => Unanswered'
<1> SUFFICES ASSUME Unanswered, [Next]_vars PROVE Unanswered'
  OBVIOUS
<1> USE DEF Unanswered
<1>1. (\E c \in Command : StartCommand(c)) => Unanswered'
  BY DEF StartCommand
<1>2. (\E g \in {"asked", "others"} : ReceiveData(g)) => Unanswered'
  BY DEF ReceiveData, resVars
<1>3. Select => Unanswered'
  BY DEF Select, SelectFile, Refuse, Status, Done, Ack
<1>4. ReadBinary => Unanswered'
  BY DEF ReadBinary, Refuse, Status, Done, Ack, Moved, WrongLe
<1>5. ReadRecord => Unanswered'
  BY DEF ReadRecord, NoRecord, Refuse, Status, Done, Ack, Moved, WrongLe
<1>6. UpdateRecord => Unanswered'
  BY DEF UpdateRecord, NoRecord, Refuse, Status, Done, Ack, Moved, WrongLe,
         WrongData
<1>7. Odd \/ CardReset \/ UNCHANGED vars => Unanswered'
  BY DEF Odd, Refuse, Status, Done, CardReset, vars, cmdVars, resVars
<1> QED BY <1>1, <1>2, <1>3, <1>4, <1>5, <1>6, <1>7 DEF Next, RunHandler

LEMMA UnansweredInductive == Spec => []Unanswered
<1>1. Init => Unanswered
  BY DEF Init, Unanswered
<1> QED BY <1>1, UnansweredKept, PTL DEF Spec

LEMMA NextInApp ==
  IInv /\ Unanswered /\ [Next]_vars =>
    \/ UNCHANGED vars
    \/ cmd.ins = "SELECT" /\ sw' \in {"9000", "61"} =>
         (cmd.meth = "mf_path" /\ cmd.data[1] = CurAppId =>
            va.adf # NoFile /\ (OwnId(va.adf) => va'.tree = va.tree_adf))
<1> SUFFICES ASSUME IInv, Unanswered, Next, cmd.ins = "SELECT",
                    sw' \in {"9000", "61"}, cmd.meth = "mf_path",
                    cmd.data[1] = CurAppId
             PROVE  va.adf # NoFile /\ (OwnId(va.adf) => va'.tree = va.tree_adf)
  OBVIOUS
<1>1. cmd # NoCommand
  BY DEF NoCommand
<1>2. Select
  <2>1. ~(\E c \in Command : StartCommand(c))
    BY <1>1 DEF StartCommand
  <2>2. ~(\E g \in {"asked", "others"} : ReceiveData(g))
    BY <1>1 DEF ReceiveData, resVars, Unanswered
  <2>3. ~CardReset
    BY DEF CardReset
  <2>4. ~ReadBinary /\ ~ReadRecord /\ ~UpdateRecord /\ ~Odd
    BY DEF ReadBinary, ReadRecord, UpdateRecord, Odd
  <2> QED BY <2>1, <2>2, <2>3, <2>4 DEF Next, RunHandler
<1>3. cmd \in SelectCmd
  BY CommandByIns DEF IInv, FilesTypeOK, Select
<1>4. cmd.data \in Seq(Nat)
  BY <1>3, CommandAssumption DEF SelectCmd
<1>5. SelectDataOk /\ SelectTarget \in Files /\ SelectFile(SelectTarget)
  BY <1>2 DEF Select, Refuse, Status, Ack
<1>6. Len(cmd.data) >= 1
  BY <1>5 DEF SelectDataOk
<1>7. SelectTarget = PathFile("mf_path", cmd.data)
  BY DEF SelectTarget
<1>8. va'.tree = SelectTarget[1]
  BY <1>5 DEF SelectFile, Selected, EfSelected, FolderSelected, VaZero
<1> QED BY <1>4, <1>5, <1>6, <1>7, <1>8, PathInApp

\* A path that starts with the current application needs one, in every forest,
\* and it ends in the tree of that application if the application has an ID of
\* its own.  (The code goes by that ID: where another file has it too, the path
\* may start from there.)
THEOREM PathInCurrentApp == Spec => PathStaysInApp
  BY NextInApp, UnansweredInductive, Inductive, PTL DEF Spec, PathStaysInApp
=============================================================================
