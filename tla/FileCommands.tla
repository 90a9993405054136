---------------------------- MODULE FileCommands ----------------------------
(***************************************************************************)
(* The handlers of src/apduh.c that work on files: SELECT, READ BINARY,    *)
(* READ RECORD and UPDATE RECORD.                                          *)
(*                                                                         *)
(* The card runs a handler when the header of a command is complete.  If   *)
(* it answers with an ACK it is run again after the data arrived, with     *)
(* procedure_count one higher (CardFsm).  All checks are made anew in the  *)
(* second run.  A response template is announced here (61xx) and fetched   *)
(* in ResponseChain.                                                       *)
(***************************************************************************)
EXTENDS Va

CONSTANTS
  Fields,    \* data fields of SELECT: file IDs, or the bytes of a name
  Offsets,   \* offsets in an EF
  RcrdNums,  \* values of P1 as a record number
  P3s,       \* values of P3
  Sids       \* short IDs that P1 or P2 hold

\* The record count has one byte in the file descriptor; P1 of 0xFF is RFU.
DescrCntMax == 255
RcrdNumRfu  == 255

ASSUME CommandAssumption ==
  /\ Fields \subseteq Seq(Nat)
  /\ Offsets \subseteq Nat /\ RcrdNums \subseteq 0..255
  /\ P3s \subseteq 0..255 /\ Sids \subseteq 0..31

\* meth is what P1 decodes to.  P2 asks for a template or for none, with the
\* first occurrence or the next, or is reserved.  half tells that the data
\* field has an odd number of bytes.
SelectCmd ==
  [ins : {"SELECT"}, meth : {"id", "name", "mf_path", "df_path", "other"},
   p2 : {"template", "absent", "next", "rfu"}, data : Fields, half : BOOLEAN]

\* by_sid: P1 holds an SID, and bad are its bits that must be 0.
BinaryCmd ==
  [ins : {"READ_BINARY"}, by_sid : BOOLEAN, sid : Sids, bad : BOOLEAN,
   offset : Offsets, p3 : P3s]

\* sid 0 is the current EF, 31 several EFs; P1 is a record ID or a record
\* number.  Of "P1", "P1 to last" and "last to P1" the code makes no
\* difference, the fourth coding is reserved.
RecordCmd ==
  [ins : {"READ_RECORD", "UPDATE_RECORD"}, sid : Sids,
   by : {"id", "num", "num_rfu"}, p1 : RcrdNums, p3 : P3s]

\* Odd INS, which asks for data in BER-TLV.
OddCmd == [ins : {"ODD"}]

Command   == SelectCmd \cup BinaryCmd \cup RecordCmd \cup OddCmd
NoCommand == [ins |-> "none"]

VARIABLES
  cmd,    \* the command under execution
  count,  \* procedure_count
  got,    \* its data: none yet, as many bytes as asked for, or others
  sw,     \* the last answer
  len,    \* the length it carries: bytes asked for, or the right P3
  out,    \* bytes of a file it handed out or overwrote
  hint    \* history: what the interface was told to send instead, if it was

cmdVars == <<cmd, count, got>>
resVars == <<sw, len, out>>
vars    == <<va, cmdVars, resVars, hint>>

NoBytes == [op |-> "none", file |-> NoFile, from |-> 0, num |-> 0]

-----------------------------------------------------------------------------
(* Answers.                                                                *)

Ack(n) ==
  /\ sw' = "ACK" /\ len' = n /\ out' = NoBytes /\ count' = count + 1
  /\ UNCHANGED <<va, cmd, got, hint>>

\* A status word ends the command.
Done == cmd' = NoCommand /\ count' = 0 /\ got' = "none"

Status(s) ==
  /\ sw' = s /\ len' = 0 /\ out' = NoBytes /\ Done /\ hint' = NoCommand

Refuse(s) == Status(s) /\ UNCHANGED va

\* The EF that a command on data works on: the one with an SID in the current
\* tree, or the current one.
BySid    == IF cmd.ins = "READ_BINARY" THEN cmd.by_sid ELSE cmd.sid # 0
EfTarget == IF BySid THEN LookupSid(va.tree, cmd.sid) ELSE va.ef

\* An EF named by its SID is selected once the command is known to succeed.
SelectNothing(v, f) == v
SelectBySid(v, f)   == IF BySid THEN Selected(v, f) ELSE v

\* 6Cxx: "Asking the interface to retry the command but this time with
\* correct expected response length."
WrongLeSelects(n) ==
  /\ sw' = "6C" /\ len' = n /\ out' = NoBytes /\ Done
  /\ hint' = [cmd EXCEPT !.p3 = n]
  /\ va' = SelectBySid(va, EfTarget)

WrongLe(n) ==
  /\ sw' = "6C" /\ len' = n /\ out' = NoBytes /\ Done
  /\ hint' = [cmd EXCEPT !.p3 = n]
  /\ UNCHANGED va

\* The answer 9000, having moved n bytes of f.
Moved(op, f, from, n) ==
  /\ sw' = "9000" /\ len' = 0 /\ Done /\ hint' = NoCommand
  /\ out' = [op |-> op, file |-> f, from |-> from, num |-> n]

-----------------------------------------------------------------------------
(* SELECT.                                                                 *)

SelectP3 == 2 * Len(cmd.data) + (IF cmd.half THEN 1 ELSE 0)

\* The data field is one the method takes.
SelectDataOk ==
  CASE cmd.meth = "id"   -> Len(cmd.data) = 1 /\ ~cmd.half
    [] cmd.meth = "name" -> cmd.p2 # "next" /\ Len(cmd.data) \in RidLen..NameLen
    [] OTHER             -> cmd.p2 # "next" /\ Len(cmd.data) >= 1 /\ ~cmd.half

\* The file the command names, an ADF before a DF, or NoFile.
SelectTarget ==
  CASE cmd.meth = "id"   -> LookupId(cmd.data[1])
    [] cmd.meth = "name" -> IF AdfByAid(cmd.data) # NoFile
                            THEN AdfByAid(cmd.data) ELSE DfByName(cmd.data)
    [] OTHER             -> PathFile(cmd.meth, cmd.data)

IsPath == cmd.meth \in {"mf_path", "df_path"}

\* Neither without a current DF, nor through the data of an EF.
SelectBreaks ==
  /\ IsPath /\ SelectDataOk
  /\ \/ cmd.meth = "df_path" /\ va.df \notin Files
     \/ LeadsIntoData(PathStart(cmd.meth, cmd.data),
                      PathIds(cmd.meth, cmd.data))

\* swicc_fs_file_descr succeeds.
Describable(f) == Hdr(f).type \in RecordTypes => RcrdCnt(f) <= DescrCntMax

\* The template is built of the file that was just selected.
SelectFile(f) ==
  /\ va' = Selected(va, f)
  /\ Status(IF cmd.p2 = "absent" THEN "9000"
            ELSE IF Describable(f) THEN "61" ELSE "6F00")

Select ==
  /\ cmd.ins = "SELECT"
  /\ \/ cmd.p2 = "rfu" /\ Refuse("6A86")
     \/ cmd.p2 # "rfu" /\ count = 0 /\ SelectP3 > 0 /\ Ack(SelectP3)
     \/ cmd.p2 # "rfu" /\ count > 0 /\ got = "others" /\ Refuse("6702")
     \/ /\ cmd.p2 # "rfu" /\ (IF count = 0 THEN SelectP3 = 0 ELSE got = "asked")
        /\ \/ cmd.meth = "other" /\ Refuse("6B00")
           \/ /\ cmd.meth # "other"
              /\ ~SelectDataOk \/ SelectBreaks
              /\ Refuse("6F00")
           \/ /\ cmd.meth # "other" /\ SelectDataOk /\ ~SelectBreaks
              /\ IF SelectTarget \in Files THEN SelectFile(SelectTarget)
                                            ELSE Refuse("6A82")

-----------------------------------------------------------------------------
(* READ BINARY.                                                            *)

\* P2 alone is the offset when P1 holds an SID.
InFileAlways(f) == TRUE
InFile(f)       == cmd.offset < Hdr(f).size

LeFitsUnder(f) == cmd.offset + cmd.p3 < Hdr(f).size
LeFits(f)      == cmd.offset + cmd.p3 <= Hdr(f).size

ReadBinary ==
  /\ cmd.ins = "READ_BINARY"
  /\ \/ count = 0 /\ Ack(0)
     \/ count > 0 /\ got = "others" /\ Refuse("6702")
     \/ /\ count > 0 /\ got = "asked" /\ cmd.by_sid /\ cmd.bad
        /\ Refuse("6A86")
     \/ /\ count > 0 /\ got = "asked" /\ ~(cmd.by_sid /\ cmd.bad)
        /\ LET f == EfTarget
           IN \/ /\ f \notin Files
                 /\ Refuse(IF ~cmd.by_sid THEN "6986"
                           ELSE IF va.tree = 0 THEN "6F00" ELSE "6A82")
              \/ /\ f \in Files /\ Hdr(f).type # "TRANSPARENT"
                 /\ Refuse("6981")
              \/ /\ f \in Files /\ Hdr(f).type = "TRANSPARENT"
                 /\ ~InFile(f) /\ Refuse("6B00")
              \/ /\ f \in Files /\ Hdr(f).type = "TRANSPARENT"
                 /\ InFile(f) /\ ~LeFits(f)
                 /\ WrongLe(Hdr(f).size - cmd.offset)
              \/ /\ f \in Files /\ Hdr(f).type = "TRANSPARENT"
                 /\ InFile(f) /\ LeFits(f)
                 /\ Moved("read", f, cmd.offset, cmd.p3)
                 /\ va' = SelectBySid(va, f)

-----------------------------------------------------------------------------
(* READ RECORD and UPDATE RECORD.                                          *)

\* The status for parameters that are not supported.
RecordParams(s) ==
  \/ s = "6A81" /\ (cmd.by = "id" \/ cmd.sid = 31)
  \/ /\ s = "6A86" /\ cmd.by # "id" /\ cmd.sid # 31
     /\ cmd.by = "num_rfu" \/ cmd.p1 \in {0, RcrdNumRfu}
RecordParamsOk ==
  cmd.by = "num" /\ cmd.sid # 31 /\ cmd.p1 \notin {0, RcrdNumRfu}

Idx     == cmd.p1 - 1
Size(f) == Hdr(f).rcrd_size

\* swicc_disk_file_rcrd: the record is one of the EF.
HasRecord(f) == Idx < RcrdCnt(f)

\* The record is selected, and before it the EF if it was named by its SID.
RecordSelected(v, f) == RcrdSelected(SelectBySid(v, f), Idx)

\* The answer to a command that names no record.
NoRecord(f) ==
  \/ /\ f \notin Files
     /\ Refuse(IF BySid /\ va.tree # 0 THEN "6A82" ELSE "6F00")
  \/ f \in Files /\ Hdr(f).type \notin RecordTypes /\ Refuse("6F00")
  \/ /\ f \in Files /\ Hdr(f).type \in RecordTypes /\ ~HasRecord(f)
     /\ Refuse("6A83")

ReadRecord ==
  /\ cmd.ins = "READ_RECORD"
  /\ \/ count = 0 /\ Ack(0)
     \/ count > 0 /\ got = "others" /\ Refuse("6702")
     \/ /\ count > 0 /\ got = "asked"
        /\ \/ \E s \in {"6A81", "6A86"} : RecordParams(s) /\ Refuse(s)
           \/ /\ RecordParamsOk
              /\ LET f == EfTarget
                 IN \/ NoRecord(f)
                    \/ /\ f \in Files /\ Hdr(f).type \in RecordTypes
                       /\ HasRecord(f)
                       /\ IF cmd.p3 # Size(f) THEN WrongLe(Size(f))
                          ELSE /\ Moved("read", f, Idx * Size(f), Size(f))
                               /\ va' = RecordSelected(va, f)

\* Data of the wrong length is answered with 6702 next to as many bytes of
\* the response buffer, on the stack of the caller, as the record has.
WrongData(n) ==
  /\ sw' = "6702" /\ len' = 0 /\ Done /\ hint' = NoCommand
  /\ out' = [NoBytes EXCEPT !.op = "stack", !.num = n]
  /\ UNCHANGED va

UpdateRecord ==
  /\ cmd.ins = "UPDATE_RECORD"
  /\ \/ \E s \in {"6A81", "6A86"} : RecordParams(s) /\ Refuse(s)
     \/ /\ RecordParamsOk
        /\ LET f == EfTarget
           IN \/ NoRecord(f)
              \/ /\ f \in Files /\ Hdr(f).type \in RecordTypes
                 /\ HasRecord(f)
                 /\ \/ count = 0 /\ Ack(Size(f))
                    \/ count > 0 /\ got = "others" /\ WrongData(Size(f))
                    \/ /\ count > 0 /\ got = "asked"
                       /\ IF cmd.p3 # Size(f) THEN WrongLe(Size(f))
                          ELSE /\ Moved("write", f, Idx * Size(f), Size(f))
                               /\ va' = RecordSelected(va, f)

Odd == cmd.ins = "ODD" /\ Refuse("6D00")

RunHandler ==
  /\ cmd # NoCommand /\ (count = 0 \/ got # "none")
  /\ Select \/ ReadBinary \/ ReadRecord \/ UpdateRecord \/ Odd

-----------------------------------------------------------------------------
(* The interface.                                                          *)

StartCommand(c) ==
  /\ cmd = NoCommand
  /\ cmd' = c /\ count' = 0 /\ got' = "none"
  /\ sw' = "none" /\ len' = 0 /\ out' = NoBytes
  /\ hint' = IF c = hint THEN hint ELSE NoCommand
  /\ UNCHANGED va

\* An interface may send other than what was asked for.
ReceiveData(g) ==
  /\ cmd # NoCommand /\ count > 0 /\ got = "none"
  /\ got' = g
  /\ UNCHANGED <<va, cmd, count, resVars, hint>>

\* swicc_reset.
CardReset ==
  /\ va' = VaAfterReset
  /\ cmd' = NoCommand /\ count' = 0 /\ got' = "none"
  /\ sw' = "none" /\ len' = 0 /\ out' = NoBytes /\ hint' = NoCommand

\* A disk was mounted, and nothing selected: swicc_reset selects the MF.
Init ==
  /\ va = VaZero
  /\ cmd = NoCommand /\ count = 0 /\ got = "none"
  /\ sw = "none" /\ len = 0 /\ out = NoBytes /\ hint = NoCommand

Next ==
  \/ \E c \in Command : StartCommand(c)
  \/ \E g \in {"asked", "others"} : ReceiveData(g)
  \/ RunHandler
  \/ CardReset

Spec == Init /\ [][Next]_vars

-----------------------------------------------------------------------------
Ops      == {"none", "read", "write", "stack"}
Statuses == {"none", "ACK", "9000", "61", "6C", "6702", "6981", "6986",
             "6A81", "6A82", "6A83", "6A86", "6B00", "6D00", "6F00"}

\* Types; a length announced in 6Cxx, an unsigned difference, never wraps.
FilesTypeOK ==
  /\ va \in VaArea
  /\ cmd \in Command \cup {NoCommand}
  /\ count \in 0..1 /\ got \in {"none", "asked", "others"}
  /\ sw \in Statuses /\ len \in Nat
  /\ out \in [op : Ops, file : {NoFile} \cup Files, from : Nat, num : Nat]

(***************************************************************************)
(* The bytes a command hands out or overwrites are within the data of the  *)
(* file, and that file is the current EF afterwards, however the command   *)
(* named it.                                                               *)
(***************************************************************************)
InCurrentEf ==
  out.op \in {"read", "write"} =>
    out.file = va.ef /\ out.from + out.num <= Hdr(va.ef).size

(***************************************************************************)
(* What is selected changes only with a command that succeeds: a refused   *)
(* command can be corrected and sent again.  (The exception is a selection *)
(* whose template cannot be built: the file stays selected.)               *)
(***************************************************************************)
SelectionNeedsSuccess ==
  [][va' # va =>
       \/ sw' \in {"9000", "61"}
       \/ sw' = "6F00" /\ ~Describable(va'.file)
       \/ sw' = "none"]_vars

(***************************************************************************)
(* "Asking the interface to retry the command but this time with correct   *)
(* expected response length": a command sent again with the length of the  *)
(* answer 6Cxx succeeds.                                                   *)
(***************************************************************************)
RetrySucceeds ==
  [][cmd # NoCommand /\ cmd = hint /\ cmd' = NoCommand =>
       sw' \in {"9000", "none"} \/ got = "others"]_vars

(***************************************************************************)
(* "Reserved FID 0x7FFF refers to the current application": a path that    *)
(* starts with it needs one, and ends in its tree.  The code goes by the   *)
(* ID of the application, so that has to be its own; in another tree any   *)
(* file may have the IDs on the path.                                      *)
(***************************************************************************)
OwnId(f) == \A g \in Files : Hdr(g).id = Hdr(f).id => g = f

PathStaysInApp ==
  [][cmd.ins = "SELECT" /\ sw' \in {"9000", "61"} =>
       (cmd.meth = "mf_path" /\ cmd.data[1] = CurAppId =>
          va.adf # NoFile /\ (OwnId(va.adf) => va'.tree = va.tree_adf))]_vars

(***************************************************************************)
(* "Select a file by DF name.  The name to look for in all DFs."           *)
(***************************************************************************)
NamedDfFound ==
  [][cmd.ins = "SELECT" /\ sw' = "6A82" =>
       ~(/\ cmd.meth = "name"
         /\ \E f \in Files : /\ Hdr(f).type \in {"MF", "DF"}
                            /\ Prefix(Hdr(f).name, Len(cmd.data)) = cmd.data)]_vars
=============================================================================
