----------------------------- MODULE MCResume ------------------------------
(* Reporting with a record of what the client that holds the block last    *)
(* wrote to EntryID.                                                       *)
EXTENDS MCReporting

VARIABLE wrote  \* the EntryID the owner wrote, or None

InitResume == Init /\ wrote = None

WriteSeen(c) ==
    \E id \in 0 .. rcb.nextEntry - 1 :
        /\ WriteEntryID(c, id)
        /\ wrote' = IF owner = c THEN id ELSE None

NextResume ==
    \/ \E c \in Conns : WriteSeen(c)
    \/ Others /\ wrote' = IF owner' = owner THEN wrote ELSE None

SpecResume == InitResume /\ [][NextResume]_<<vars, wrote>>

(***************************************************************************)
(* reporting.py:19-20, "an enabling client receives [the buffer] from the  *)
(* entry after EntryID": a client that reserves the block, writes EntryID  *)
(* and enables gets every buffered entry after the one it wrote.           *)
(***************************************************************************)
ResumesAfterEntryID ==
    [][(~rcb.rptEna /\ rcb'.rptEna /\ owner' = owner /\ wrote # None) =>
         \A k \in DOMAIN rcb.buffer :
            rcb.buffer[k].id > wrote =>
                \E j \in DOMAIN rcb'.out : rcb'.out[j].id = rcb.buffer[k].id
      ]_<<vars, wrote>>

=============================================================================
