------------------------------- MODULE Release -------------------------------
(***************************************************************************)
(* free_res of Scalable.hs after an init_fabric that may have stopped      *)
(* anywhere: it closes the receive contexts, the transmit contexts, their  *)
(* queues, one array after the other, by moving the pointer in the first   *)
(* element on, and looks neither at what the arrays hold nor at what the   *)
(* closes return.  Nothing is reset, so that it may be called again.       *)
(***************************************************************************)
EXTENDS Integers

CONSTANTS N,        \* Env.ctx_cnt
          MaxCalls  \* how often the application calls free_res

ASSUME CountsAssumption == N \in Nat /\ MaxCalls \in Nat

VARIABLES
    open,       \* objects that exist, as <<array, context>>
    opened,     \* those that existed before the first call
    bound,      \* contexts bound to their queues
    refusals,   \* closes the provider refused: the object and why
    calls,      \* calls of free_res so far
    turn, i,    \* the array and the element that is closed next
    crashed

vars == <<open, opened, bound, refusals, calls, turn, i, crashed>>

(* The order in which the arrays are closed.                                  *)
QueuesFirst == <<"rxcq_array", "txcq_array", "rx_ep", "tx_ep">>
Arrays == <<"rx_ep", "tx_ep", "rxcq_array", "txcq_array">>
Done == 5

(* The list that the loop over an array runs through ends here.               *)
LastOneMore == N
Last == N - 1

All == {"rx_ep", "tx_ep", "rxcq_array", "txcq_array"} \X (0 .. N - 1)

(* The queue bind_ep_res binds a context to; it is busy while it is bound.     *)
Queue(ep) == <<IF ep[1] = "rx_ep" THEN "rxcq_array" ELSE "txcq_array", ep[2]>>
Contexts == {"rx_ep", "tx_ep"} \X (0 .. N - 1)
Busy(o) == \E ep \in bound \cap open : Queue(ep) = o

(* alloc_ep_res leaves out what it could not open, and bind_ep_res stops at   *)
(* the first bind that fails.                                                  *)
Init ==
    /\ opened \in SUBSET All
    /\ bound \in SUBSET {ep \in Contexts \cap opened : Queue(ep) \in opened}
    /\ open = opened /\ refusals = {}
    /\ crashed = FALSE
    /\ calls = 0 /\ turn = Done /\ i = 0

free_res ==
    /\ ~crashed /\ turn = Done /\ calls < MaxCalls
    /\ calls' = calls + 1
    /\ turn' = IF N = 0 THEN Done ELSE 1
    /\ i' = 0
    /\ UNCHANGED <<open, opened, bound, refusals, crashed>>

(* closev_fid_ep and closev_fid_cq: element i is the object of element 0,     *)
(* moved on by i structures: that object for i = 0 only.                       *)
Element == <<Arrays[turn], i>>
Reaches(e) == e[2] = 0 /\ e \in open

(* fi_close through the pointer to element e: the object is closed, or the    *)
(* close is refused; of what is not there, anything may come.                  *)
Closes(e, refused) ==
    /\ Reaches(e)
    /\ refused = {} => ~Busy(e)
    /\ refused # {} => refused = {IF Busy(e) THEN "busy" ELSE "failed"}
    /\ open' = IF refused = {} THEN open \ {e} ELSE open
    /\ UNCHANGED crashed
ClosesNothing(e, refused) ==
    /\ ~Reaches(e)
    /\ crashed' \in BOOLEAN
    /\ refused = {} /\ UNCHANGED open

(* The code of a close is printed, and the next element's turn has come.       *)
StopsIfRefused(refused) ==
    IF refused = {} /\ i < Last THEN i' = i + 1 /\ UNCHANGED turn
    ELSE i' = 0 /\ turn' = IF refused = {} THEN turn + 1 ELSE Done
GoesOn(refused) ==
    IF i < Last THEN i' = i + 1 /\ UNCHANGED turn
                ELSE i' = 0 /\ turn' = turn + 1

close_fid ==
    /\ ~crashed /\ turn # Done
    /\ \E refused \in {{}, {"busy"}, {"failed"}} :
         /\ Closes(Element, refused) \/ ClosesNothing(Element, refused)
         /\ refusals' = refusals \cup ({Element} \X refused)
         /\ GoesOn(refused)
    /\ UNCHANGED <<opened, bound, calls>>

Next == free_res \/ close_fid

Spec == Init /\ [][Next]_vars

-----------------------------------------------------------------------------

(* Only what was there is closed, and no loop goes past the end of its array. *)
TypeOK ==
    /\ open \subseteq opened /\ opened \subseteq All
    /\ bound \subseteq Contexts \cap opened
    /\ refusals \subseteq All \X {"busy", "failed"}
    /\ crashed \in BOOLEAN
    /\ calls \in 0 .. MaxCalls
    /\ turn \in 1 .. Done
    /\ i \in Nat
    /\ turn # Done => Element \in All

(* The order of the arrays is right: a queue is refused as busy only after    *)
(* the close of its own context was refused, in this call or an earlier one.   *)
BusyOnlyBehindARefusal ==
    \A q \in All :
        <<q, "busy">> \in refusals
          => \E ep \in bound : Queue(ep) = q /\ <<ep, "failed">> \in refusals

(* One refused close does not stop the rest: a call that gets to its end has   *)
(* closed, or seen refused, every object of context 0 that there was.          *)
NothingOverlooked ==
    calls > 0 /\ turn = Done /\ ~crashed
      => \A o \in open : o[2] = 0
           => \E why \in {"busy", "failed"} : <<o, why>> \in refusals
=============================================================================
