-------------------------- MODULE CompletionQueue --------------------------
(***************************************************************************)
(* A libfabric completion queue as wait_for_comp of Scalable.hs uses it: a *)
(* sequence of entries, read one at a time without blocking.  An entry in  *)
(* error is reported by every read until fi_cq_readerr takes it off, which *)
(* the program never calls.                                                *)
(***************************************************************************)
EXTENDS Integers, Sequences

FI_EAGAIN == 11
FI_EAVAIL == 259

Entry == {"done", "error"}

\* fi_cq_read(cq, &comp, 1): the entries read, or a negative code.
CqRead(cq) ==
  IF cq = <<>> THEN -FI_EAGAIN
  ELSE IF Head(cq) = "error" THEN -FI_EAVAIL ELSE 1

\* What a read leaves behind: only an entry it returned is gone.
CqAfterRead(cq) == IF CqRead(cq) = 1 THEN Tail(cq) ELSE cq

\* The loop condition of wait_for_comp.  It compares the constant it is given
\* with -FI_EAGAIN instead of the result, so that every negative result, and
\* not only "nothing there yet", makes it read again.
ReadsAgain(result) ==
  LET given == -11
  IN result < 0 /\ given = -FI_EAGAIN

\* Mutant: the number of entries read is not turned into a return code.
WaitResultRaw(result) == result

\* What wait_for_comp returns once it has stopped reading.
WaitResult(result) == IF result = 1 THEN 0 ELSE result
=============================================================================
