------------------------------- MODULE Dispatch -------------------------------
(***************************************************************************)
(* Calls on one object of libfabric, made by several threads through the   *)
(* inline functions of include/*.h.  A call reads the table pointer out of *)
(* the object, reads the entry out of the table, and enters it; with       *)
(* FI_CHECK_OP it first asks for the entry, and then reads both again.  In *)
(* between, the provider may have replaced the tables of the object, which *)
(* some calls allow it to do (fi_endpoint.h:118-122).                      *)
(*                                                                         *)
(* An object is [struct, asked, slots]: slots[pos] is the member at offset *)
(* pos, with the type and the table it points to, or NULL; a provider may  *)
(* end the structure after the members the user asked for.                 *)
(***************************************************************************)
EXTENDS Naturals, Sequences

CONSTANTS Threads, Calls, Objects, NULL, GONE

ASSUME DispatchAssumption == NULL \notin Calls /\ GONE \notin Objects

VARIABLES
    object,     \* the object as the provider has it now, GONE once closed
    pc,         \* per thread: where it is in the inline function
    call,       \* per thread: the call it makes
    table       \* per thread: the table pointer it has read

vars == <<object, pc, call, table>>

Places == {"idle", "check", "load", "jump", "inside", "fault"}
NoCall == NULL

Busy(t) == pc[t] # "idle"
Goto(t, place) == pc' = [pc EXCEPT ![t] = place]
(* The inline function returns and its locals are gone.                      *)
LeaveArguments(t) == Goto(t, "idle") /\ UNCHANGED <<call, table>>
Leave(t) ==
    /\ Goto(t, "idle")
    /\ call' = [call EXCEPT ![t] = NoCall]
    /\ table' = [table EXCEPT ![t] = NULL]

(* Only what the object is used for may be called: an operation that is not  *)
(* checked for must be one the user asked for.                               *)
Applies(o, c) ==
    /\ o.struct \in c.takes
    /\ c.check \/ c.pos \in o.asked

(* Is there a member where the call looks, and of the type it takes it for?  *)
Fits(o, c) ==
    o # GONE /\ c.pos \in DOMAIN o.slots /\ o.slots[c.pos].type = c.type
TableOf(o, c) == o.slots[c.pos].table

(* What stands at an offset of a table: null or not; behind its end, either. *)
Entries(ops, off) == IF off < ops.size THEN {off \in ops.has} ELSE BOOLEAN
CheckOpOneMore(ops, off) ==
    IF ops = NULL THEN {FALSE}
    ELSE IF ops.size > off + 1 THEN Entries(ops, off) ELSE {FALSE}
FI_CHECK_OP(ops, off) ==
    IF ops = NULL THEN {FALSE}
    ELSE IF ops.size > off THEN Entries(ops, off) ELSE {FALSE}

Init ==
    /\ object \in Objects
    /\ pc = [t \in Threads |-> "idle"]
    /\ call = [t \in Threads |-> NoCall]
    /\ table = [t \in Threads |-> NULL]

(* Calls that modify the object are serialized against all others.           *)
MayStartUnlessClosing(t, c) ==
    \A u \in Threads \ {t} : Busy(u) => ~c.closes /\ ~call[u].closes
MayStart(t, c) ==
    \A u \in Threads \ {t} : Busy(u) => ~c.modifies /\ ~call[u].modifies

Begin(t, c) ==
    /\ pc[t] = "idle" /\ object # GONE
    /\ Applies(object, c) /\ MayStart(t, c)
    /\ call' = [call EXCEPT ![t] = c]
    /\ Goto(t, IF c.check THEN "check" ELSE "load")
    /\ UNCHANGED <<object, table>>

(* FI_CHECK_OP ... : -FI_ENOSYS.  The three reads of the macro are one step.  *)
Check(t) ==
    /\ pc[t] = "check"
    /\ IF Fits(object, call[t])
       THEN \E there \in FI_CHECK_OP(TableOf(object, call[t]), call[t].off) :
              IF there THEN Goto(t, "load") /\ UNCHANGED <<call, table>> ELSE Leave(t)
       ELSE Goto(t, "fault") /\ UNCHANGED <<call, table>>
    /\ UNCHANGED object

Load(t) ==
    /\ pc[t] = "load"
    /\ IF Fits(object, call[t])
       THEN Goto(t, "jump") /\ table' = [table EXCEPT ![t] = TableOf(object, call[t])]
       ELSE Goto(t, "fault") /\ UNCHANGED table
    /\ UNCHANGED <<object, call>>

(* Through a null table, a null entry or what lies behind the table's end.    *)
Callable(ops, off) == ops # NULL /\ off < ops.size /\ off \in ops.has

Jump(t) ==
    /\ pc[t] = "jump"
    /\ Goto(t, IF Callable(table[t], call[t].off) THEN "inside" ELSE "fault")
    /\ UNCHANGED <<object, call, table>>

(* A modifying call may leave the object with other tables, a close that is   *)
(* not refused ends it.                                                       *)
After(c) ==
    IF ~c.modifies THEN {object}
    ELSE {o \in Objects : o.struct = object.struct /\ o.asked = object.asked}
         \cup (IF c.closes THEN {GONE} ELSE {})

Return(t) ==
    /\ pc[t] = "inside"
    /\ object' \in After(call[t])
    /\ Leave(t)

(* Once the object is closed the application opens another one.               *)
Reopen ==
    /\ object = GONE
    /\ object' \in Objects
    /\ UNCHANGED <<pc, call, table>>

Step(t) == (\E c \in Calls : Begin(t, c)) \/ Check(t) \/ Load(t) \/ Jump(t) \/ Return(t)
Next == Reopen \/ \E t \in Threads : Step(t)

Spec == Init /\ [][Next]_vars

-----------------------------------------------------------------------------

(* A thread has a call exactly while it is in an inline function.              *)
TypeOK ==
    /\ object \in Objects \cup {GONE}
    /\ pc \in [Threads -> Places]
    /\ call \in [Threads -> Calls \cup {NoCall}]
    /\ \A t \in Threads : Busy(t) <=> call[t] \in Calls

(* No call, on any object a provider may build, reads past the object or a    *)
(* table or enters nothing: not through container_of on a passive endpoint,   *)
(* not into a structure cut down to what was asked for, not into a table      *)
(* built against an older header, not after FI_CHECK_OP while another thread  *)
(* reconfigures the object.                                                   *)
NeverFaults == \A t \in Threads : pc[t] # "fault"

(* The table that is entered is the one the object has at that moment, even   *)
(* though it was read a step before: a provider that has switched to another  *)
(* set of operations gets no call through the old one.                        *)
EntersCurrentTable ==
    [][\A t \in Threads :
         pc[t] = "jump" /\ pc'[t] = "inside"
           => object # GONE /\ table[t] = TableOf(object, call[t])]_vars

(* -FI_ENOSYS and an operation that is there exclude each other, whoever      *)
(* reconfigures the object meanwhile.                                         *)
EnosysMeansAbsent ==
    [][\A t \in Threads :
         pc[t] = "check" /\ pc'[t] = "idle"
           => ~Callable(TableOf(object, call[t]), call[t].off)]_vars

(* Each call alone fits each object alone; what is left are the interleavings. *)
HeadersFit ==
    \A o \in Objects, c \in Calls :
        Applies(o, c) => /\ Fits(o, c)
                         /\ c.check \/ Callable(TableOf(o, c), c.off)
=============================================================================
