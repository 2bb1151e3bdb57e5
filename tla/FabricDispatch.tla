---------------------------- MODULE FabricDispatch ----------------------------
(***************************************************************************)
(* Dispatch with the calls, the structures and the tables of FabricApi,    *)
(* and what a provider owes the inline functions for that: objects that    *)
(* conform.  The provider decides on the rest: how many members of a        *)
(* structure there are beyond those, how long a table is, and what is in it. *)
(***************************************************************************)
EXTENDS Dispatch, FabricApi

(* The members of a structure through which FI_CHECK_OP looks, asked for or   *)
(* not, and the entries of a table that are entered without being asked for.  *)
CheckedMembers(struct) ==
    {c.pos : c \in {d \in AllCalls : d.check /\ struct \in d.takes}}
UncheckedEntries(type) == DOMAIN Ops[type] \ CheckedEntries[type]

(* The object is laid out as its structure says, as far as the application    *)
(* and the checks will look, and each table the application asked for has the  *)
(* entries that are not checked for.                                            *)
Conforms(o) ==
    LET members == Layout[o.struct]
    IN  /\ o.struct \in DOMAIN Layout
        /\ o.asked \cup CheckedMembers(o.struct) \subseteq DOMAIN o.slots
        /\ \A pos \in DOMAIN o.slots \cap DOMAIN members :
             o.slots[pos].type = members[pos][2]
        /\ \A pos \in o.asked \cap DOMAIN members :
             members[pos][2] # "data" =>
               \A off \in UncheckedEntries(members[pos][2]) :
                 Callable(o.slots[pos].table, off)

ASSUME ProviderAssumption ==
    Calls \subseteq AllCalls /\ \A o \in Objects : Conforms(o)
=============================================================================
