-------------------------------- MODULE Disk --------------------------------
(***************************************************************************)
(* A disk (swicc_disk_st, src/fs/disk.c): created from a JSON description, *)
(* saved to a file, loaded from it and unloaded.  Each tree of its forest  *)
(* has a lookup table of the SIDs in it, the disk has one of all IDs; they *)
(* are built one lut_insert after the other, by the steps of Lut.          *)
(*                                                                         *)
(* The process may end at any time, then memory is lost and the file is    *)
(* what has been written of it.  malloc does not fail.                     *)
(***************************************************************************)
EXTENDS Lut, DiskJs

CONSTANTS
  Descriptions,  \* the descriptions, each the sequence of its trees
  SizeStart,     \* DISK_SIZE_START
  SizeResize,    \* DISK_SIZE_RESIZE
  SizeMax,       \* the largest buffer (UINT32_MAX)
  TreeIdxMod     \* values of a tree index (256)

ASSUME DiskAssumption ==
  /\ Descriptions \subseteq Seq(Items[Depth])
  /\ LutStart > 0
  /\ SizeStart \in Nat /\ SizeResize \in Nat /\ SizeMax \in Nat
  /\ SizeStart <= SizeMax
  /\ TreeIdxMod \in Nat \ {0}
  /\ Ids \subseteq Keys
  /\ NoVal \notin Nat \X Nat
  /\ \A t \in 0..(TreeIdxMod - 1), o \in 0..SizeMax :
       [tree |-> t, offset |-> o] \in Vals

VARIABLES
  js,     \* the description at hand
  file,   \* the file of a saved disk
  root,   \* the forest: buffers with the headers in them, and SID tables
  lutid,  \* the table of IDs
  pc,     \* "idle", "parse" a tree, "sid" and "sid_fill" for the table of
          \* its SIDs, "id" and "id_fill" for the table of IDs
  call,   \* the last call, or the one that is under way
  ret,    \* what the last call returned
  size,   \* the size of the buffer of the tree that is parsed
  tree,   \* the number of the tree whose table is built
  todo    \* the files of it that have no entry yet

memVars  == <<root, lutid, pc, call, ret, size, tree, todo>>
diskVars == <<js, file, memVars, lutVars>>

NoLut   == [max |-> 0, ents |-> << >>]  \* buf1 and buf2 are NULL
NoFile  == [exists |-> FALSE]

\* A file with these trees and, perhaps, a part of one more.  (whole is for
\* the properties: whether all trees that are described have been saved.)
Saved(trees, rest, whole) ==
  [exists |-> TRUE, trees |-> trees, rest |-> rest, whole |-> whole]

Tree(at, len, room) ==
  [at |-> at, len |-> len, size |-> room, lutsid |-> NoLut]

-----------------------------------------------------------------------------
(* Going through a tree.                                                   *)

\* Where the contents of a file begin and end.
Inside(at, o) == <<o + HdrSize(at[o].type), o + at[o].size>>

\* swicc_disk_file_foreach, recursing: the files from r[1] to r[2] that the
\* callback is given.  A folder is given to it twice, by the loop and by the
\* call for what is in it.  At a file of size 0 it goes on for ever.
Walked(end, files) == [end |-> end, files |-> files]

FilesWithin(at, within, r) ==
  LET o    == r[1]
      rest == within[<<o + at[o].size, r[2]>>]
      sub  == within[Inside(at, o)]
  IN IF o >= r[2] THEN Walked("ok", << >>)
     ELSE IF o \notin DOMAIN at THEN Walked("error", << >>)
     ELSE IF at[o].size = 0 THEN Walked("never", << >>)
     ELSE IF at[o].type \notin FolderTypes
     THEN Walked(rest.end, <<o>> \o rest.files)
     ELSE Walked(IF sub.end = "ok" THEN rest.end ELSE sub.end,
                 <<o>> \o <<o>> \o sub.files \o rest.files)

Foreach(at) ==
  LET within[r \in Nat \X Nat] == FilesWithin(at, within, r)
      in == within[Inside(at, 0)]
  IN Walked(in.end, <<0>> \o in.files)

\* swicc_disk_tree_file_root, with what follows from it.
Walk(t) ==
  IF 0 \in DOMAIN t.at /\ t.at[0].type \in {"MF", "ADF"} THEN Foreach(t.at)
  ELSE Walked("error", << >>)

\* Trees are numbered from 0, in one byte.
TreeIdxNever(t) == 0
TreeIdx(t) == (t - 1) % TreeIdxMod

\* What is kept of a file.  (A table of SIDs keeps the offset alone.)
Where(t, o) == [tree |-> TreeIdx(t), offset |-> o]

\* The key of the next file, if it has any: otherwise it has no entry.
NextKey ==
  LET hdr == root[tree].at[todo[1]]
  IN IF pc = "sid_fill" THEN hdr.sid ELSE hdr.id

-----------------------------------------------------------------------------
(* Lookups.                                                                *)

\* swicc_disk_lutsid_lookup: the offset of a file in the tree, or NoVal.
LookupSid(t, sid) ==
  LET v == LutLookup(root[t].lutsid, sid)
  IN IF v = NoVal \/ v.offset >= root[t].len THEN NoVal ELSE <<t, v.offset>>

\* swicc_disk_tree_iter_idx: the first tree of that number.
TreeOf(idx) ==
  LET S == {t \in 1..Len(root) : TreeIdx(t) = idx}
  IN IF S = {} THEN 0 ELSE CHOOSE t \in S : \A u \in S : t <= u

\* swicc_disk_lutid_lookup
LookupId(id) ==
  LET v == LutLookup(lutid, id)
      t == TreeOf(v.tree)
  IN IF v = NoVal \/ t = 0 \/ v.offset >= root[t].len THEN NoVal
     ELSE <<t, v.offset>>

\* swicc_disk_tree_file_parent
ParentOffset(t, o) == o - root[t].at[o].prel

-----------------------------------------------------------------------------
(* The end of a call, and what memory is left as.                          *)

Return(r)       == ret' = r /\ pc' = "idle" /\ todo' = << >>
LutsUnmoved     == UNCHANGED lutVars
RootEmptiedOnly == root' = << >> /\ UNCHANGED lutid
RootEmptied     == root' = << >> /\ lutid' = NoLut

\* A call that fails gives the disk up (swicc_disk_root_empty), but for one
\* that is not allowed.
FailKeepingRoot ==
  Return("ERROR") /\ UNCHANGED <<root, lutid>>
Fail ==
  Return("ERROR") /\ RootEmptied

\* All a process that ends leaves.
MemoryLost ==
  /\ root' = << >> /\ lutid' = NoLut /\ pc' = "idle" /\ call' = "none"
  /\ ret' = "none" /\ size' = SizeStart /\ tree' = 1 /\ todo' = << >>
  /\ lut' = EmptyLut /\ ins' = Idle

-----------------------------------------------------------------------------
(* Building tables.                                                        *)

\* swicc_disk_lutsid_rebuild of tree t of the forest.  When the walk fails
\* the table is given up, so that what was in it until then does not matter.
\* From a walk that never ends the call does not return.
StartSidTable ==
  /\ pc = "sid" /\ Walk(root[tree]).end # "never"
  /\ IF Walk(root[tree]).end = "ok"
     THEN /\ LutClear /\ pc' = "sid_fill" /\ todo' = Walk(root[tree]).files
          /\ UNCHANGED <<root, lutid, ret>>
     ELSE Fail /\ LutsUnmoved
  /\ UNCHANGED <<js, file, call, size, tree>>

\* swicc_disk_lutid_rebuild: there is nothing to index without a tree.  The
\* walks have all succeeded before.
StartIdTable ==
  /\ pc = "id"
  /\ IF root = << >> THEN Fail /\ LutsUnmoved /\ UNCHANGED tree
     ELSE /\ LutClear /\ pc' = "id_fill" /\ tree' = 1
          /\ todo' = Walk(root[1]).files
          /\ UNCHANGED <<root, lutid, ret>>
  /\ UNCHANGED <<js, file, call, size>>

\* The callbacks: lut_insert of the next file, or nothing.
Filling == pc \in {"sid_fill", "id_fill"} /\ todo # << >> /\ ~ins.busy

InsertNext ==
  /\ Filling /\ NextKey # 0
  /\ LutInsert(NextKey, Where(tree, todo[1])) /\ todo' = Tail(todo)
  /\ UNCHANGED <<js, file, root, lutid, pc, call, ret, size, tree>>

SkipNext ==
  /\ Filling /\ NextKey = 0 /\ todo' = Tail(todo)
  /\ UNCHANGED <<js, file, root, lutid, pc, call, ret, size, tree>>
  /\ LutsUnmoved

Inserting ==
  /\ LutProbe \/ LutPlace
  /\ UNCHANGED <<js, file, memVars>>

TreeComplete == todo = << >> /\ ~ins.busy

\* The next tree of a description is parsed, or the next one that was loaded
\* is indexed, before the IDs of all are.
SidTableDone ==
  /\ pc = "sid_fill" /\ TreeComplete
  /\ root' = [root EXCEPT ![tree].lutsid = lut]
  /\ pc' = CASE call = "create" /\ tree < Len(js) -> "parse"
             [] call = "load" /\ tree < Len(root) -> "sid"
             [] OTHER -> "id"
  /\ tree' = tree + 1 /\ size' = SizeStart
  /\ UNCHANGED <<js, file, lutid, call, ret, todo>> /\ LutsUnmoved

NextIdTree ==
  /\ pc = "id_fill" /\ TreeComplete /\ tree < Len(root)
  /\ tree' = tree + 1 /\ todo' = Walk(root[tree + 1]).files
  /\ UNCHANGED <<js, file, root, lutid, pc, call, ret, size>> /\ LutsUnmoved

IdTableDone ==
  /\ pc = "id_fill" /\ TreeComplete /\ tree = Len(root)
  /\ lutid' = lut /\ Return("SUCCESS")
  /\ UNCHANGED <<js, file, root, call, size, tree>> /\ LutsUnmoved

-----------------------------------------------------------------------------
(* swicc_diskjs_disk_create                                                *)

CreateStart ==
  /\ pc = "idle" /\ call' = "create"
  /\ IF root # << >> \/ lutid # NoLut
     THEN FailKeepingRoot /\ UNCHANGED <<size, tree>>
     ELSE /\ pc' = (IF js = << >> THEN "id" ELSE "parse")
          /\ size' = SizeStart /\ tree' = 1 /\ ret' = "none"
          /\ UNCHANGED <<root, lutid, todo>>
  /\ UNCHANGED <<js, file>> /\ LutsUnmoved

\* One attempt to parse a tree into its buffer.
Attempt == Prs[Depth][<<js[tree], 0, size>>]

ParseSuccess ==
  /\ pc = "parse" /\ Attempt.ret = "SUCCESS"
  /\ root' = Append(root, Tree(Attempt.at, Attempt.len, size))
  /\ pc' = "sid"
  /\ UNCHANGED <<js, file, lutid, call, ret, size, tree, todo>> /\ LutsUnmoved

\* The buffer is enlarged and the tree parsed again.
Grow ==
  /\ pc = "parse" /\ Attempt.ret = "BUFFER_TOO_SHORT"
  /\ size + SizeResize <= SizeMax
  /\ size' = size + SizeResize
  /\ UNCHANGED <<js, file, root, lutid, pc, call, ret, tree, todo>>
  /\ LutsUnmoved

\* The sum is one of 32 bits: at the limit it wraps to 0, before it is
\* compared.  realloc (of glibc) then frees the buffer, root_empty frees it
\* once more, and the process ends.
GrowWraps ==
  /\ pc = "parse" /\ Attempt.ret = "BUFFER_TOO_SHORT"
  /\ size + SizeResize > SizeMax
  /\ MemoryLost /\ UNCHANGED <<js, file>>

ParseError ==
  /\ pc = "parse" /\ Attempt.ret = "ERROR" /\ Fail
  /\ UNCHANGED <<js, file, call, size, tree>> /\ LutsUnmoved

-----------------------------------------------------------------------------
(* swicc_disk_load, _save and _unload                                      *)

\* The first tree is the MF, all others are ADFs, and the file ends with a
\* tree.  (The number of a tree has one byte here as well.)
Loadable(f) ==
  /\ f.exists /\ ~f.rest /\ f.trees # << >>
  /\ \A t \in 1..Len(f.trees) :
       f.trees[t].at[0].type = (IF TreeIdx(t) = 0 THEN "MF" ELSE "ADF")

LoadStart ==
  /\ pc = "idle" /\ call' = "load"
  /\ IF root # << >> THEN FailKeepingRoot /\ UNCHANGED tree
     ELSE IF Loadable(file)
     THEN /\ root' = [t \in 1..Len(file.trees) |->
                        Tree(file.trees[t].at, file.trees[t].len,
                             file.trees[t].len)]
          /\ lutid' = NoLut /\ pc' = "sid" /\ tree' = 1 /\ ret' = "none"
          /\ UNCHANGED todo
     ELSE Fail /\ UNCHANGED tree
  /\ UNCHANGED <<js, file, size>> /\ LutsUnmoved

Written(n) == [t \in 1..n |-> [at |-> root[t].at, len |-> root[t].len]]

Save ==
  /\ pc = "idle" /\ call' = "save"
  /\ file' = Saved(Written(Len(root)), FALSE, Len(root) = Len(js))
  /\ ret' = (IF root = << >> THEN "ERROR" ELSE "SUCCESS")
  /\ UNCHANGED <<js, root, lutid, pc, size, tree, todo>> /\ LutsUnmoved

Unload ==
  /\ pc = "idle" /\ call' = "unload" /\ Return("none") /\ RootEmptied
  /\ UNCHANGED <<js, file, size, tree>> /\ LutsUnmoved

\* The process ends.
Crash == MemoryLost /\ UNCHANGED <<js, file>>

\* The process ends when n trees have been saved and, perhaps, a part of
\* the next one.
SaveCut(n, rest) ==
  /\ pc = "idle" /\ n < Len(root)
  /\ file' = Saved(Written(n), rest, FALSE)
  /\ MemoryLost /\ UNCHANGED js

DiskInit ==
  /\ js \in Descriptions /\ file = NoFile
  /\ root = << >> /\ lutid = NoLut /\ pc = "idle" /\ call = "none"
  /\ ret = "none" /\ size = SizeStart /\ tree = 1 /\ todo = << >>
  /\ LutInit

DiskNext ==
  \/ CreateStart \/ ParseSuccess \/ Grow \/ GrowWraps \/ ParseError
  \/ StartSidTable \/ StartIdTable \/ InsertNext \/ SkipNext \/ Inserting
  \/ SidTableDone \/ NextIdTree \/ IdTableDone
  \/ LoadStart \/ Save \/ Unload \/ Crash
  \/ \E n \in 0..(Len(root) - 1), rest \in BOOLEAN : SaveCut(n, rest)

DiskSpec == DiskInit /\ [][DiskNext]_diskVars

-----------------------------------------------------------------------------
(* Properties.                                                             *)

Described(t) == Preorder[Depth][<<js[t], js[t].mark>>]

\* What the header of a file says, and that of the folder it points to.
Shown(t, o) ==
  LET hdr == root[t].at[o]
  IN [mark |-> hdr.mark, up |-> root[t].at[ParentOffset(t, o)].mark,
      id |-> hdr.id, sid |-> hdr.sid]

\* The files of a tree, in the order of their offsets.
Nth(S, i) == CHOOSE o \in S : Cardinality({p \in S : p <= o}) = i

FilesOf(t) ==
  LET S == ToSet(Walk(root[t]).files)
  IN [i \in 1..Cardinality(S) |-> Shown(t, Nth(S, i))]

(***************************************************************************)
(* The sizes and parent-relative offsets the parsers compute make up the   *)
(* tree that is described: going through a tree of a disk, created or      *)
(* saved and loaded, meets its files, each in its folder, and a disk that  *)
(* was created, or saved whole and loaded, has all trees.  The length of a *)
(* tree is that of its description, if the description gives one.          *)
(***************************************************************************)
TreesAreDescribed ==
  pc = "idle" =>
    /\ Len(root) <= Len(js)
    /\ ret = "SUCCESS" /\ (call = "create" \/ (call = "load" /\ file.whole))
         => Len(root) = Len(js)
    /\ \A t \in 1..Len(root) :
         /\ FilesOf(t) = Described(t)
         /\ Measured[Depth][js[t]] => root[t].len = Needed[Depth][js[t]]

\* The files with an ID or SID in a list, and the last of them.  0 is none.
WithId(files, id)   == {i \in DOMAIN files : id # 0 /\ files[i].id = id}
WithSid(files, sid) == {i \in DOMAIN files : sid # 0 /\ files[i].sid = sid}

LastMark(files, with) == IF with = {} THEN Bad ELSE files[Max(with)].mark

FoundMark(where) ==
  IF where = NoVal THEN Bad ELSE root[where[1]].at[where[2]].mark

(***************************************************************************)
(* Every file of a disk is found by its ID, and by its SID in its tree; of *)
(* several with the same, the last in the description.  (swicc_disk_load   *)
(* and others rely "on there being fewer than 256 trees".)                 *)
(***************************************************************************)
FilesAreFound ==
  pc = "idle" /\ Len(root) <= TreeIdxMod => \A key \in Keys :
    LET all == FlattenSeq([t \in 1..Len(root) |-> Described(t)])
    IN /\ FoundMark(LookupId(key)) = LastMark(all, WithId(all, key))
       /\ \A t \in 1..Len(root) :
            FoundMark(LookupSid(t, key))
              = LastMark(Described(t), WithSid(Described(t), key))

(***************************************************************************)
(* Between calls a disk is there with all of its tables or it is not there *)
(* at all, so that after a call that failed another one may be tried; and  *)
(* it is there after a create or a load that succeeded.                    *)
(***************************************************************************)
UsableOrAbsent ==
  pc = "idle" =>
    /\ root = << >> <=> lutid = NoLut
    /\ \A t \in 1..Len(root) : root[t].lutsid # NoLut
    /\ call \in {"create", "load"} /\ ret = "SUCCESS" => root # << >>

(***************************************************************************)
(* "The 'start' size is the initial buffer size, and if it's not large     *)
(* enough, it will grow by the 'resize' amount" (diskjs.c:41): a buffer    *)
(* grows only when the tree is larger.  It is not so of a description that *)
(* gives a name longer than its field, which counts as a buffer too short, *)
(* or a record EF without rcrd_size, which takes all the room there is.    *)
(***************************************************************************)
GrowthIsNeeded ==
  [][size' > size /\ Measured[Depth][js[tree]]
       => Needed[Depth][js[tree]] > size]_diskVars
=============================================================================
