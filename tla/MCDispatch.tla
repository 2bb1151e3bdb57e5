------------------------------ MODULE MCDispatch ------------------------------
(***************************************************************************)
(* FabricDispatch for TLC: every call of the headers, two threads.          *)
(* A structure other than fid_ep is complete, and one of its tables is any   *)
(* of those a provider may build.  An endpoint was asked for with one kind  *)
(* of data transfer, with or without connection management, and ends after  *)
(* the last member that was asked for; what was not asked for is null, but   *)
(* for the cm table, which a provider may have anyway.                       *)
(***************************************************************************)
EXTENDS FabricDispatch, TLC

(* Thread names *)
CONSTANTS t1, t2
MCThreads == {t1, t2}
Symmetry == Permutations(MCThreads)

Slot(type, tab) == [type |-> type, table |-> tab]
Newest(type) ==
    IF type = "data" THEN [size |-> 0, has |-> {}]
    ELSE [size |-> Len(Ops[type]) + 1, has |-> DOMAIN Ops[type]]

Complete(struct) ==
    LET l == Layout[struct]
        newest == [i \in DOMAIN l |-> Slot(l[i][2], Newest(l[i][2]))]
        With(slots) == [struct |-> struct, asked |-> DOMAIN l, slots |-> slots]
    IN  {With(newest)} \cup
        UNION {{With([newest EXCEPT ![i].table = b]) : b \in Built[l[i][2]]} :
                 i \in {j \in DOMAIN l : l[j][2] # "data"}}

DataTables == {"msg", "rma", "tagged", "atomic", "collective"}
Endpoint(data, cm, conn) ==
    LET d == Member("fid_ep", data)
        c == Member("fid_ep", "cm")
        asked == {1, 2, d} \cup (IF cm THEN {c} ELSE {})
        end == Max(asked)
    IN  [struct |-> "fid_ep", asked |-> asked,
         slots |-> [i \in 1 .. end |->
             Slot(fid_ep[i][2],
                  IF i = c THEN conn
                  ELSE IF i \in asked THEN Newest(fid_ep[i][2]) ELSE NULL)]]
Endpoints ==
    {Endpoint(data, cm, conn) : data \in DataTables, cm \in {TRUE},
                                conn \in Built["fi_ops_cm"]}
    \cup {Endpoint(data, FALSE, conn) : data \in {"msg", "collective"},
                                conn \in Built["fi_ops_cm"] \cup {NULL}}

AllObjects ==
    Endpoints \cup UNION {Complete(s) : s \in DOMAIN Layout \ {"fid_ep"}}

MCObjects == AllObjects
MCCalls == AllCalls
=============================================================================
