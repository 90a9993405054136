------------------------------- MODULE DiskJs -------------------------------
(***************************************************************************)
(* The JSON description of a disk and the parsers of src/fs/diskjs.c, one  *)
(* for each type of item, which write an item into the room they are given *)
(* or find it too short.  Of what they write the file headers are kept, by *)
(* their offset; data is known by its length.                              *)
(*                                                                         *)
(* Items contain items; functions on them are defined by how deep they are *)
(* nested.                                                                 *)
(***************************************************************************)
EXTENDS Integers, Sequences, SequencesExt

CONSTANTS
  Ids,   \* the IDs and SIDs a description may give a file
  Depth  \* how deep items are nested (CJSON_NESTING_LIMIT)

ASSUME DiskJsAssumption == Ids \subseteq Nat \ {0} /\ Depth \in Nat

\* A description of an item.  mark tells it from others; contents that are
\* null, and those of a record file that are an empty list, are << >>.
\* (An empty list as the contents of a folder leaves the result of the
\* parser undefined, and so does a type that is misspelt: both left out.)
FolderTypes == {"MF", "ADF", "DF"}
RecordTypes == {"LINEARFIXED", "CYCLIC"}
FileTypes   == FolderTypes \cup RecordTypes \cup {"TRANSPARENT"}

Bad == -1  \* an ID, name or value that cannot be read

\* The items with others nested in them at most n deep.
ItemsOver(sub, n) ==
  [type : FileTypes \cup {"DATA"}, mark : Nat,
   id : Ids \cup {0, Bad}, sid : Ids \cup {0, Bad},
   name : Nat \cup {Bad}, rcrd_size : Nat \cup {Bad}, size : Nat \cup {Bad},
   items : IF n = 0 THEN {<< >>} ELSE Seq(sub)]

Items[n \in 0..Depth] == ItemsOver(IF n = 0 THEN {} ELSE Items[n - 1], n)

\* A record EF whose rcrd_size is missing or is not a number.
Unsized(item) == item.type \in RecordTypes /\ item.rcrd_size = Bad

\* How many items are looked at; the contents of a transparent EF are one.
Parts(item) ==
  IF item.type = "TRANSPARENT" /\ item.items # << >> THEN 1
  ELSE Len(item.items)

\* swicc_fs_item_hdr_raw_size: 10 bytes of an item, 3 of a file, and 16 for
\* a name or one for the size of records.
HdrSize(type) ==
  CASE type \in FolderTypes -> 29
    [] type \in RecordTypes -> 14
    [] type = "TRANSPARENT" -> 13

NameLen   == 16   \* SWICC_FS_NAME_LEN, SWICC_FS_ADF_AID_LEN
RidLen    == 5    \* SWICC_FS_ADF_AID_RID_LEN
RcrdMax   == 255  \* UINT8_MAX

NoHeaders == [o \in {} |-> 0]
Parsed(len, at) == [ret |-> "SUCCESS", len |-> len, at |-> at]
Fails(ret)      == [ret |-> ret, len |-> 0, at |-> NoHeaders]
TooShort        == Fails("BUFFER_TOO_SHORT")

\* Headers of an item that begins d bytes further on.
Moved(at, d) == [o \in {x + d : x \in DOMAIN at} |-> at[o - d]]

\* Headers of two parts of a buffer.
Joined(at, more) ==
  [o \in DOMAIN at \cup DOMAIN more |->
     IF o \in DOMAIN at THEN at[o] ELSE more[o]]

Header(item, prel, size) ==
  [mark |-> item.mark, type |-> item.type, id |-> item.id, sid |-> item.sid,
   rcrd_size |-> item.rcrd_size, size |-> size, prel |-> prel]

\* A file of size len bytes of contents, whose headers are at.
File(item, prel, len, at) ==
  LET size == HdrSize(item.type) + len
  IN Parsed(size, Joined([o \in {0} |-> Header(item, prel, size)],
                         Moved(at, HdrSize(item.type))))

\* jsitem_prs_item_hex, _ascii and _dato_bertlv
PrsData(n, room) ==
  IF n = Bad THEN Fails("ERROR")
  ELSE IF n > room THEN TooShort ELSE Parsed(n, NoHeaders)

\* One item behind those of done, taking len bytes.
Behind(done, len, r) ==
  Parsed(done.len + len, Joined(done.at, Moved(r.at, done.len)))

\* jsitem_prs_file_folder and _ef_transparent: items of their own length.
AddItem(done, r) ==
  IF r.ret # "SUCCESS" THEN Fails(r.ret) ELSE Behind(done, r.len, r)

\* jsitem_prs_file_ef_linearfixed and _cyclic: each record takes the same
\* length.
RcrdFitsUnder(item, left) == HdrSize(item.type) + item.rcrd_size <= left
RcrdFits(item, left)      == item.rcrd_size <= left

AddRcrd(item, done, left, r) ==
  IF ~RcrdFits(item, left) THEN TooShort
  ELSE IF r.ret # "SUCCESS" \/ r.len > item.rcrd_size THEN Fails("ERROR")
  ELSE Behind(done, item.rcrd_size, r)

PartsOffsetNot(item) == 0
PartsOffset(item)    == HdrSize(item.type)

\* The contents of a file, part by part; sub parses items that are nested
\* less deep.
NextPart(sub, item, room, done, k) ==
  LET left == room - done.len
      r    == sub[<<item.items[k], PartsOffset(item) + done.len, left>>]
  IN IF done.ret # "SUCCESS" THEN done
     ELSE IF item.type \in RecordTypes THEN AddRcrd(item, done, left, r)
     ELSE AddItem(done, r)

PrsParts(sub, item, room) ==
  LET upto[k \in 0..Parts(item)] ==
        IF k = 0 THEN Parsed(0, NoHeaders)
        ELSE NextPart(sub, item, room, upto[k - 1], k)
  IN upto[Parts(item)]

\* jsitem_prs_file_mf, _adf and _df
PrsFolder(sub, item, prel, room) ==
  LET name  == PrsData(item.name, NameLen)
      items == PrsParts(sub, item, room - HdrSize(item.type))
  IN IF room < HdrSize(item.type) THEN TooShort
     ELSE IF name.ret # "SUCCESS" THEN Fails(name.ret)
     ELSE IF item.type = "ADF" /\ name.len < RidLen THEN Fails("ERROR")
     ELSE IF Bad \in {item.id, item.sid} THEN Fails("ERROR")
     ELSE IF items.ret # "SUCCESS" THEN items
     ELSE File(item, prel, items.len, items.at)

\* Without an rcrd_size nothing but ID, SID and prel is written, in a header
\* of zeros, yet it counts as a success that took all the room.  That is no
\* file; of a cyclic EF the type is written nevertheless.
PrsUnsized(item, prel, room) ==
  Parsed(room, IF item.type = "CYCLIC"
               THEN [o \in {0} |-> Header(item, prel, 0)] ELSE NoHeaders)

\* jsitem_prs_file_ef_transparent, _linearfixed and _cyclic
PrsEf(sub, item, prel, room) ==
  LET left  == room - HdrSize(item.type)
      items == PrsParts(sub, item, left)
  IN IF left < 0 THEN TooShort
     ELSE IF Bad \in {item.id, item.sid} THEN Fails("ERROR")
     ELSE IF Unsized(item) THEN PrsUnsized(item, prel, room)
     ELSE IF item.type \in RecordTypes /\ item.rcrd_size > RcrdMax
          THEN Fails("ERROR")
     ELSE IF items.ret # "SUCCESS" THEN items
     ELSE File(item, prel, items.len, items.at)

\* jsitem_prs_demux
PrsDemux(sub, item, prel, room) ==
  CASE item.type \in FolderTypes -> PrsFolder(sub, item, prel, room)
    [] item.type = "DATA"        -> PrsData(item.size, room)
    [] OTHER                     -> PrsEf(sub, item, prel, room)

PrsLevel(sub, n) ==
  [c \in Items[n] \X Nat \X Int |-> PrsDemux(sub, c[1], c[2], c[3])]

Prs[n \in 0..Depth] == PrsLevel(IF n = 0 THEN << >> ELSE Prs[n - 1], n)

-----------------------------------------------------------------------------
(* What a description says, without regard to buffers.                     *)

\* The files of an item, each with its folder (a root with itself).  What
\* an EF contains is data to the file system.
PreorderOf(sub, item, up) ==
  IF item.type = "DATA" THEN << >>
  ELSE <<[mark |-> item.mark, up |-> up, id |-> item.id, sid |-> item.sid]>>
       \o IF item.type \in FolderTypes
          THEN FlattenSeq([i \in 1..Len(item.items) |->
                             sub[<<item.items[i], item.mark>>]])
          ELSE << >>

PreorderLevel(sub, n) ==
  [c \in Items[n] \X Nat |-> PreorderOf(sub, c[1], c[2])]

Preorder[n \in 0..Depth] ==
  PreorderLevel(IF n = 0 THEN << >> ELSE Preorder[n - 1], n)

Total(s) ==
  LET upto[k \in 0..Len(s)] == IF k = 0 THEN 0 ELSE upto[k - 1] + s[k]
  IN upto[Len(s)]

\* The length of an item.  (What cannot be read has none.)
Length(sub, item) ==
  IF item.type = "DATA" THEN IF item.size = Bad THEN 0 ELSE item.size
  ELSE IF Unsized(item) THEN HdrSize(item.type)
  ELSE HdrSize(item.type)
       + Total([i \in 1..Parts(item) |->
                  IF item.type \in RecordTypes THEN item.rcrd_size
                  ELSE sub[item.items[i]]])

LengthLevel(sub, n) == [item \in Items[n] |-> Length(sub, item)]
Needed[n \in 0..Depth] ==
  LengthLevel(IF n = 0 THEN << >> ELSE Needed[n - 1], n)

\* No name in it is longer than its field, and no record EF is unsized.
MeasuredLevel(sub, n) ==
  [item \in Items[n] |->
     item.type = "DATA"
     \/ (/\ item.name <= NameLen /\ ~Unsized(item)
         /\ \A i \in 1..Parts(item) : sub[item.items[i]])]

Measured[n \in 0..Depth] ==
  MeasuredLevel(IF n = 0 THEN << >> ELSE Measured[n - 1], n)
=============================================================================
