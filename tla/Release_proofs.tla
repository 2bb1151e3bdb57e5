---------------------------- MODULE Release_proofs ----------------------------
(***************************************************************************)
(* Release for any number of contexts and of calls, whatever init_fabric    *)
(* left open and whatever closes are refused.                                *)
(***************************************************************************)
EXTENDS Release, TLAPS

(* The first element of an array, the only one that free_res reaches.         *)
First(j) == <<Arrays[j], 0>>
Passed(j) == j < turn \/ (j = turn /\ i > 0)
Refused(o) == <<o, "busy">> \in refusals \/ <<o, "failed">> \in refusals

(* What a call is past, in this call or, once it ended, in the last one, was  *)
(* closed or refused.  The calls before add refusals and closes to that, and   *)
(* take none away.                                                              *)
Settled ==
    calls > 0 => \A j \in 1 .. 4 : Passed(j) /\ First(j) \in open => Refused(First(j))
Underway == turn # Done => calls > 0

IInv == TypeOK /\ Underway /\ Settled /\ BusyOnlyBehindARefusal

LEMMA ArraysAreFour ==
    /\ Arrays = <<"rx_ep", "tx_ep", "rxcq_array", "txcq_array">>
    /\ Arrays[1] = "rx_ep" /\ Arrays[2] = "tx_ep"
    /\ Arrays[3] = "rxcq_array" /\ Arrays[4] = "txcq_array"
    /\ \A j \in 1 .. 4 : Arrays[j] \in {"rx_ep", "tx_ep", "rxcq_array", "txcq_array"}
  BY DEF Arrays

(* An object of context 0 is the first element of one of the four arrays.     *)
LEMMA FirstElements ==
    ASSUME NEW o \in All, o[2] = 0
    PROVE  \E j \in 1 .. 4 : o = First(j)
<1>1. o = <<o[1], 0>> /\ o[1] \in {"rx_ep", "tx_ep", "rxcq_array", "txcq_array"}
  BY DEF All
<1>2. PICK j \in 1 .. 4 : Arrays[j] = o[1]
  BY <1>1, ArraysAreFour
<1>. QED
  BY <1>1, <1>2 DEF First

(* A context comes before its queue, and is no queue itself.                   *)
LEMMA ContextBeforeQueue ==
    ASSUME NEW ep \in Contexts, NEW j \in 1 .. 4, Queue(ep) = First(j)
    PROVE  \E k \in 1 .. 4 : k < j /\ ep = First(k)
<1>1. ep = <<ep[1], ep[2]>> /\ ep[1] \in {"rx_ep", "tx_ep"} /\ ep[2] = 0
  BY DEF Contexts, Queue, First
<1>2. Arrays[j] \in {"rxcq_array", "txcq_array"}
  BY <1>1 DEF Queue, First
<1>3. j \in {3, 4}
  BY <1>2, ArraysAreFour
<1>4. CASE ep[1] = "rx_ep"
  BY <1>1, <1>3, <1>4, ArraysAreFour DEF First
<1>5. CASE ep[1] = "tx_ep"
  BY <1>1, <1>3, <1>5, ArraysAreFour DEF First
<1>. QED
  BY <1>1, <1>4, <1>5

LEMMA ContextsAreNoQueues ==
    ASSUME NEW ep \in Contexts, NEW other \in Contexts
    PROVE  Queue(other) # ep
  BY DEF Contexts, Queue

LEMMA InitIInv == Init => IInv
<1> SUFFICES ASSUME Init PROVE IInv
  OBVIOUS
<1>1. TypeOK
  <2>1. open \subseteq opened /\ opened \subseteq All /\ bound \subseteq Contexts \cap opened
    BY DEF Init
  <2>2. refusals \subseteq All \X {"busy", "failed"}
    BY DEF Init
  <2>3. crashed \in BOOLEAN
    BY DEF Init
  <2>4. calls \in 0 .. MaxCalls
    BY CountsAssumption DEF Init
  <2>5. turn = Done /\ i = 0
    BY DEF Init
  <2>6. turn \in 1 .. Done /\ i \in Nat
    BY <2>5 DEF Done
  <2>. QED
    BY <2>1, <2>2, <2>3, <2>4, <2>5, <2>6 DEF TypeOK
<1>2. Underway /\ Settled
  BY DEF Init, Underway, Settled
<1>3. BusyOnlyBehindARefusal
  BY DEF Init, BusyOnlyBehindARefusal
<1>. QED
  BY <1>1, <1>2, <1>3 DEF IInv

(* Where the loop goes: the next element, or the first of the next array.      *)
LEMMA Onward ==
    ASSUME TypeOK, turn # Done, NEW refused, GoesOn(refused)
    PROVE  /\ turn' \in 1 .. Done /\ i' \in Nat
           /\ turn' # Done => Element' \in All
           /\ \A j \in 1 .. 4 : Passed(j)' => Passed(j) \/ (j = turn /\ i = 0)
<1>. USE CountsAssumption
<1>1. turn \in 1 .. 4 /\ i \in 0 .. N - 1 /\ N \in Nat
  BY DEF TypeOK, Element, All, Done
<1>2. CASE i < Last /\ i' = i + 1 /\ turn' = turn
  <2>1. i' \in 0 .. N - 1
    BY <1>1, <1>2 DEF Last
  <2>2. Element' \in All
    BY <1>1, <1>2, <2>1, ArraysAreFour DEF Element, All, Arrays
  <2>. QED
    BY <1>1, <1>2, <2>1, <2>2 DEF Done, Passed
<1>3. CASE ~(i < Last) /\ i' = 0 /\ turn' = turn + 1
  <2>1. turn' # Done => Arrays[turn'] \in {"rx_ep", "tx_ep", "rxcq_array", "txcq_array"}
    BY <1>1, <1>3, ArraysAreFour DEF Done
  <2>2. turn' # Done => Element' \in All
    BY <1>1, <1>3, <2>1 DEF Element, All, Arrays
  <2>. QED
    BY <1>1, <1>3, <2>2 DEF Done, Passed
<1>. QED
  BY <1>2, <1>3 DEF GoesOn

LEMMA NextCall == IInv /\ free_res => IInv'
<1> SUFFICES ASSUME IInv, free_res PROVE IInv'
  OBVIOUS
<1>. USE CountsAssumption
<1>1. TypeOK'
  <2>1. N # 0 => <<Arrays[1], 0>> \in All
    BY ArraysAreFour DEF All
  <2>2. turn' # Done => Element' \in All
    BY <2>1 DEF free_res, Element, Arrays, Done
  <2>. QED
    BY <2>2 DEF IInv, TypeOK, free_res, Done
<1>2. Underway'
  BY DEF IInv, TypeOK, Underway, free_res
<1>3. Settled'
  <2>1. CASE N = 0
    BY <2>1, <1>1 DEF TypeOK, All, Settled
  <2>2. CASE N # 0
    BY <2>2 DEF free_res, Settled, Passed
  <2>. QED
    BY <2>1, <2>2
<1>4. BusyOnlyBehindARefusal'
  BY DEF IInv, free_res, BusyOnlyBehindARefusal
<1>. QED
  BY <1>1, <1>2, <1>3, <1>4 DEF IInv

LEMMA NextClose == IInv /\ close_fid => IInv'
<1> SUFFICES ASSUME IInv, close_fid PROVE IInv'
  OBVIOUS
<1>1. turn # Done /\ turn \in 1 .. 4 /\ Element \in All /\ calls > 0 /\ i \in Nat
  BY DEF IInv, TypeOK, Underway, close_fid, Done
<1>2. PICK refused \in {{}, {"busy"}, {"failed"}} :
        /\ Closes(Element, refused) \/ ClosesNothing(Element, refused)
        /\ refusals' = refusals \cup ({Element} \X refused)
        /\ GoesOn(refused)
  BY DEF close_fid
<1>3. UNCHANGED <<opened, bound, calls>>
  BY DEF close_fid
<1>4. open' \subseteq open /\ crashed' \in BOOLEAN
  BY <1>2 DEF Closes, ClosesNothing, IInv, TypeOK
<1>5. refusals \subseteq refusals' /\ refusals' \subseteq All \X {"busy", "failed"}
  BY <1>1, <1>2 DEF IInv, TypeOK
<1>6. /\ turn' \in 1 .. Done /\ i' \in Nat
      /\ turn' # Done => Element' \in All
      /\ \A j \in 1 .. 4 : Passed(j)' => Passed(j) \/ (j = turn /\ i = 0)
  BY <1>1, <1>2, Onward DEF IInv
<1>7. TypeOK'
  BY <1>3, <1>4, <1>5, <1>6 DEF IInv, TypeOK
<1>8. Underway'
  BY <1>1, <1>3 DEF Underway
<1>9. Settled'
  <2>1. SUFFICES ASSUME NEW j \in 1 .. 4, Passed(j)', First(j) \in open'
                 PROVE  Refused(First(j))'
    BY DEF Settled, First, Arrays
  <2>2. CASE Passed(j)
    BY <1>1, <1>4, <1>5, <2>1, <2>2 DEF IInv, Settled, Refused, First, Arrays
  <2>3. CASE j = turn /\ i = 0
    <3>1. Element = First(j) /\ Reaches(Element)
      BY <2>1, <2>3, <1>4 DEF Element, First, Reaches
    <3>2. Closes(Element, refused)
      BY <1>2, <3>1 DEF ClosesNothing
    <3>3. refused # {}
      BY <2>1, <3>1, <3>2 DEF Closes
    <3>4. refused = {"busy"} \/ refused = {"failed"}
      BY <3>3
    <3>5. <<Element, "busy">> \in refusals' \/ <<Element, "failed">> \in refusals'
      BY <1>2, <3>4
    <3>. QED
      BY <3>1, <3>5 DEF Refused, First, Arrays
  <2>. QED
    BY <1>6, <2>1, <2>2, <2>3
<1>10. BusyOnlyBehindARefusal'
  <2>1. SUFFICES ASSUME NEW q \in All, <<q, "busy">> \in refusals'
                 PROVE  \E ep \in bound' : Queue(ep) = q /\ <<ep, "failed">> \in refusals'
    BY DEF BusyOnlyBehindARefusal, All, Queue
  <2>2. CASE <<q, "busy">> \in refusals
    BY <1>3, <1>5, <2>2 DEF IInv, BusyOnlyBehindARefusal
  <2>3. CASE <<q, "busy">> \notin refusals
    <3>1. q = Element /\ refused = {"busy"}
      BY <1>2, <2>1, <2>3
    <3>2. Reaches(q) /\ Busy(q)
      BY <1>2, <3>1 DEF Closes, ClosesNothing
    <3>3. PICK ep \in bound \cap open : Queue(ep) = q
      BY <3>2 DEF Busy
    <3>4. ep \in Contexts /\ i = 0 /\ q = First(turn) /\ ep \in All
      BY <3>1, <3>2, <3>3 DEF IInv, TypeOK, Reaches, Element, First
    <3>5. PICK k \in 1 .. 4 : k < turn /\ ep = First(k)
      BY <1>1, <3>3, <3>4, ContextBeforeQueue
    <3>6. Refused(ep)
      BY <1>1, <3>3, <3>5 DEF IInv, Settled, Passed
    <3>7. <<ep, "busy">> \notin refusals
      BY <3>4, ContextsAreNoQueues DEF IInv, TypeOK, BusyOnlyBehindARefusal
    <3>. QED
      BY <1>3, <1>5, <3>3, <3>6, <3>7 DEF Refused
  <2>. QED
    BY <2>2, <2>3
<1>. QED
  BY <1>7, <1>8, <1>9, <1>10 DEF IInv

LEMMA NextIInv == IInv /\ [Next]_vars => IInv'
<1>1. IInv /\ UNCHANGED vars => IInv'
  BY DEF vars, IInv, TypeOK, Underway, Settled, BusyOnlyBehindARefusal, Passed,
         First, Refused, Element, All, Contexts, Queue, Arrays
<1>. QED
  BY <1>1, NextCall, NextClose DEF Next

THEOREM Inductive == Spec => []IInv
  BY InitIInv, NextIInv, PTL DEF Spec

(* Only what was there is closed, and no loop goes past the end of its array.  *)
THEOREM TypeCorrect == Spec => []TypeOK
  BY Inductive, PTL DEF IInv

(* A queue is refused as busy only after the close of a context bound to it     *)
(* was refused.                                                                  *)
THEOREM ContextsFirst == Spec => []BusyOnlyBehindARefusal
  BY Inductive, PTL DEF IInv

(* A call that gets to its end has closed, or seen refused, every object of      *)
(* context 0, whatever the closes before it returned.                             *)
THEOREM NoneOverlooked == Spec => []NothingOverlooked
<1>1. IInv => NothingOverlooked
  <2> SUFFICES ASSUME IInv, calls > 0, turn = Done, NEW o \in open, o[2] = 0
               PROVE  \E why \in {"busy", "failed"} : <<o, why>> \in refusals
    BY DEF NothingOverlooked
  <2>1. o \in All
    BY DEF IInv, TypeOK
  <2>2. PICK j \in 1 .. 4 : o = First(j)
    BY <2>1, FirstElements
  <2>3. Refused(o)
    BY <2>2 DEF IInv, Settled, Passed, Done
  <2>. QED
    BY <2>3 DEF Refused
<1>. QED
  BY <1>1, Inductive, PTL
=============================================================================
