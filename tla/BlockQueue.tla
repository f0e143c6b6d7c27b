----------------------------- MODULE BlockQueue -----------------------------
(***************************************************************************)
(* What a guest may expect of the block device: the requests it posts are  *)
(* answered once each and in the order of posting, as if one after the     *)
(* other had been executed on the disk.  A transfer may be cut short, and  *)
(* is answered all the same.                                               *)
(***************************************************************************)
EXTENDS Sequences, Naturals

CONSTANTS
  Requests,          \* records with a head, an op and a val
  Blank,             \* contents of the disk at first
  Transfers(_, _)    \* what the second argument may hold when the first one
                     \* is copied over it

VARIABLES
  posted,    \* the requests under way, oldest first
  answers,   \* the answers to the first of them: the head, and the data in
             \* the guest's buffer
  disk

Init == posted = <<>> /\ answers = <<>> /\ disk = Blank

Pending == Len(answers) < Len(posted)
Oldest == posted[Len(answers) + 1]

Post(r) == posted' = Append(posted, r) /\ UNCHANGED <<answers, disk>>

\* The guest takes the oldest answer.
Take ==
  /\ answers # <<>>
  /\ posted' = Tail(posted) /\ answers' = Tail(answers)
  /\ UNCHANGED disk

\* The oldest write may reach the disk before it is answered.
Store ==
  /\ Pending /\ Oldest.op = "write"
  /\ disk' \in Transfers(Oldest.val, disk)
  /\ UNCHANGED <<posted, answers>>

\* The oldest request is executed and answered.
Answer ==
  /\ Pending
  /\ IF Oldest.op = "write" THEN disk' \in Transfers(Oldest.val, disk)
                            ELSE UNCHANGED disk
  /\ \E d \in IF Oldest.op = "read" THEN Transfers(disk, Oldest.val)
                                     ELSE {Oldest.val} :
       answers' = Append(answers, [head |-> Oldest.head, data |-> d])
  /\ UNCHANGED posted

Next == Take \/ Store \/ Answer \/ \E r \in Requests : Post(r)

Spec == Init /\ [][Next]_<<posted, answers, disk>>
=============================================================================
