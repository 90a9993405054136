---------------------------- MODULE LatestByKey ----------------------------
(***************************************************************************)
(* What a lookup table (swicc_disk_lut_st) promises: what is put in for a  *)
(* key is from then on what is found for it, and nothing else changes.     *)
(***************************************************************************)
CONSTANTS Keys, Vals, NoVal

VARIABLES
  dict,    \* what is found for each key
  putting  \* the entry that is being put in, if any

dictVars == <<dict, putting>>

Empty == [k \in Keys |-> NoVal]

DictInit == dict = Empty /\ putting = {}

Put(e) ==
  /\ e.key \in Keys /\ e.val \in Vals
  /\ putting = {} /\ putting' = {e} /\ UNCHANGED dict

HasPut(e) ==
  e \in putting /\ putting' = {} /\ dict' = [dict EXCEPT ![e.key] = e.val]

\* A rebuild, or the end of the process that was putting something in.
Clear == dict' = Empty /\ putting' = {}

DictNext ==
  \/ Clear
  \/ \E e \in putting' : Put(e)
  \/ \E e \in putting : HasPut(e)

DictSpec == DictInit /\ [][DictNext]_dictVars
=============================================================================
