------------------------------ MODULE Delivery ------------------------------
(***************************************************************************)
(* What reading frames from a stream promises its callers, whatever pieces *)
(* the bytes come in: every frame is read whole, once and in order, the end*)
(* of the stream is reported when every frame has been read, and a stream  *)
(* that broke off inside a frame is an error before it is an end.          *)
(***************************************************************************)
EXTENDS Naturals, Sequences

CONSTANTS
    Readers,
    Keepers,    \* readers that may take more frames than they return
    NoFrame

VARIABLES
    frames,     \* the frames written
    taken,      \* how many of them have been taken from the stream
    ending,     \* "open", "closed" between two frames, or "broken"
    got         \* the last result of each reader

vars == <<frames, taken, ending, got>>

Result(status, f) == [status |-> status, frame |-> f]

Init ==
    /\ frames = <<>> /\ taken = 0 /\ ending = "open"
    /\ got = [r \in Readers |-> Result("waiting", NoFrame)]

Write ==
    /\ ending = "open"
    /\ Len(frames') = Len(frames) + 1
    /\ SubSeq(frames', 1, Len(frames)) = frames
    /\ UNCHANGED <<taken, ending, got>>

Close ==
    /\ ending = "open"
    /\ ending' \in {"closed", "broken"}
    /\ UNCHANGED <<frames, taken, got>>

Deliver(r) ==
    /\ taken < Len(frames)
    /\ taken' \in taken + 1 .. (IF r \in Keepers THEN Len(frames) ELSE taken + 1)
    /\ got' = [got EXCEPT ![r] = Result("frame", frames[taken + 1])]
    /\ UNCHANGED <<frames, ending>>

End(r) ==
    /\ taken = Len(frames)
    /\ ending = "closed" \/ (ending = "broken" /\ \E q \in Readers : got[q].status = "error")
    /\ got' = [got EXCEPT ![r] = Result("none", NoFrame)]
    /\ UNCHANGED <<frames, taken, ending>>

Break(r) ==
    /\ taken = Len(frames)
    /\ ending = "broken"
    /\ got' = [got EXCEPT ![r] = Result("error", NoFrame)]
    /\ ending' \in {"closed", "broken"}
    /\ UNCHANGED <<frames, taken>>

Next == Write \/ Close \/ \E r \in Readers : Deliver(r) \/ End(r) \/ Break(r)

Spec == Init /\ [][Next]_vars
=============================================================================
