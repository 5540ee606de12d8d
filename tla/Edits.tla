------------------------------- MODULE Edits -------------------------------
(***************************************************************************)
(* An edit replaces one range of a text by another (preprocess/reuse.go,   *)
(* CompatibleEdit); offsets count from 0, a range excludes its end.        *)
(***************************************************************************)
EXTENDS Integers, Sequences

ByteRange(from, to) == [from |-> from, to |-> to]

Slice(s, r) == SubSeq(s, r.from + 1, r.to)

\* The texts agree before the edit, and behind it.
IsEdit(before, after, edit) ==
    /\ edit.before.from = edit.after.from
    /\ 0 <= edit.before.from
    /\ edit.before.from <= edit.before.to /\ edit.before.to <= Len(before)
    /\ edit.after.from <= edit.after.to /\ edit.after.to <= Len(after)
    /\ Len(before) - edit.before.to = Len(after) - edit.after.to
    /\ \A i \in 1 .. edit.before.from : before[i] = after[i]
    /\ \A i \in (edit.before.to + 1) .. Len(before) :
          before[i] = after[i + edit.after.to - edit.before.to]

\* compatibleEdit: what is left when the common prefix and then the common
\* suffix of the rest are dropped.
CompatibleEdit(before, after) ==
    LET shorter == IF Len(before) < Len(after) THEN Len(before) ELSE Len(after)
        start == CHOOSE n \in 0 .. shorter :
                    /\ \A i \in 1 .. n : before[i] = after[i]
                    /\ n < shorter => before[n + 1] # after[n + 1]
        suffix == CHOOSE n \in 0 .. (shorter - start) :
                    /\ \A i \in 0 .. (n - 1) :
                          before[Len(before) - i] = after[Len(after) - i]
                    /\ n < shorter - start =>
                          before[Len(before) - n] # after[Len(after) - n]
    IN  [before |-> ByteRange(start, Len(before) - suffix),
         after |-> ByteRange(start, Len(after) - suffix)]

ShiftOffset(offset, edit) ==
    IF offset <= edit.before.from THEN offset
    ELSE IF offset >= edit.before.to THEN offset + edit.after.to - edit.before.to
    ELSE IF offset - edit.before.from > edit.after.to - edit.after.from
    THEN edit.after.to
    ELSE edit.after.from + offset - edit.before.from

\* Mutant: the start is not shifted.
ShiftRangeEnd(r, edit) == ByteRange(r.from, ShiftOffset(r.to, edit))

ShiftRange(r, edit) ==
    ByteRange(ShiftOffset(r.from, edit), ShiftOffset(r.to, edit))

============================================================================
