------------------------------ MODULE UnoAsync ------------------------------
(***************************************************************************)
(* What the event loop may rely on when it hands work to the background    *)
(* thread: one queue of outstanding tasks, answered one at a time in the   *)
(* order in which they were submitted.  Threads, locks, the second queue   *)
(* and the wake-up of the loop are hidden; UnoBackground implements this.  *)
(***************************************************************************)
EXTENDS Naturals, Sequences

VARIABLES outstanding,   \* submitted and not yet answered, oldest first
          answered       \* tasks whose callback has run, in that order

async == <<outstanding, answered>>

AsyncInit == outstanding = <<>> /\ answered = <<>>

\* Tasks are numbered in the order in which they are submitted.
Submit ==
  /\ outstanding' =
       Append(outstanding, Len(outstanding) + Len(answered) + 1)
  /\ UNCHANGED answered

Answer ==
  /\ outstanding # <<>>
  /\ answered' = Append(answered, Head(outstanding))
  /\ outstanding' = Tail(outstanding)

AsyncSpec == AsyncInit /\ [][Submit \/ Answer]_async
=============================================================================
