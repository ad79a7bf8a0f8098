---------------------------- MODULE MessageStream ----------------------------
(***************************************************************************)
(* What the `claude` CLI accepts as a streamed reply: a message that       *)
(* starts once, content blocks numbered in the order they open, one open   *)
(* at a time, deltas only into the open one, and an end that finds every   *)
(* block closed.  A typed error may take the place of the end, whatever    *)
(* stands open.  Nothing follows either.                                   *)
(***************************************************************************)
EXTENDS Naturals, Sequences

CONSTANT BlockKinds

VARIABLES
    state,     \* of the message: "none", "open", "stopped" or "failed"
    content    \* its blocks in order, each with its index, kind, data and whether it is open

streamVars == <<state, content>>

Init == state = "none" /\ content = <<>>

AllClosed == \A n \in DOMAIN content : ~content[n].open

Begin == state = "none" /\ state' = "open" /\ UNCHANGED content

OpensBlock(kind) ==
    /\ state = "open" /\ AllClosed
    /\ content' = Append(content, [index |-> Len(content), kind |-> kind, data |-> 0, open |-> TRUE])
    /\ UNCHANGED state

\* Of the last block, which is open: more of its data, or its end.
ChangesBlock(block) ==
    /\ state = "open" /\ ~AllClosed
    /\ content' = [content EXCEPT ![Len(content)] = block]
    /\ UNCHANGED state

Grows(more) ==
    /\ content # <<>>
    /\ ChangesBlock([content[Len(content)] EXCEPT !.data = @ + more])

Closes ==
    /\ content # <<>>
    /\ ChangesBlock([content[Len(content)] EXCEPT !.open = FALSE])

End == state = "open" /\ AllClosed /\ state' = "stopped" /\ UNCHANGED content

Fail == state \in {"none", "open"} /\ state' = "failed" /\ UNCHANGED content

Next ==
    \/ Begin
    \/ \E kind \in BlockKinds : OpensBlock(kind)
    \/ \E more \in {0, 1} : Grows(more)
    \/ Closes
    \/ End
    \/ Fail

Spec == Init /\ [][Next]_streamVars
=============================================================================
