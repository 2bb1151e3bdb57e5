------------------------- MODULE AddressOptions_proofs -------------------------
(***************************************************************************)
(* AddressOptions for every combination of options and whatever codes      *)
(* fi_getinfo fails with.                                                   *)
(***************************************************************************)
EXTENDS AddressOptions, TLAPS

(* Before ft_read_addr_opts nothing is written; between it and fi_getinfo, the *)
(* node, the service and the hints tell which way getaddr went.                *)
Untouched == node = "junk" /\ service = "junk" /\ hints.format = "unspec"
Server ==
    /\ ~IsClient /\ hints.format = "unspec"
    /\ node \in {NULL, "src_addr"} /\ service \in {NULL, "src_port"}
NotResolved ==
    /\ IsClient /\ "getaddr" \in refused /\ Untouched
Resolved ==
    /\ IsClient /\ hints.format = "resolved"
    /\ node = "dst_addr" /\ service \in {NULL, "dst_port"}
WhoItIs ==
    /\ pc = "ft_getinfo" => Untouched
    /\ pc = "getaddr" => IsClient /\ Untouched
    /\ pc \in {"hints", "fi_getinfo"} => Server \/ NotResolved \/ Resolved

(* Nobody allocates hints->dest_addr, so that a length for it does not survive. *)
NoDestination == ~hints.dest /\ (pc # "crashed" => ~hints.destlen)

IInv ==
    /\ TypeOK
    /\ opts \in [{"src_addr", "dst_addr", "src_port", "dst_port", "oob_port", "hmem"}
                    -> BOOLEAN]
    /\ WhoItIs
    /\ NoDestination

LEMMA InitIInv == Init => IInv
  BY DEF Init, IInv, TypeOK, WhoItIs, Untouched, NoDestination

(* What an option turns into.                                                  *)
LEMMA Options ==
    ASSUME NEW o
    PROVE  Option(o) = o \/ Option(o) = NULL
  BY DEF Option

LEMMA NextIInv == IInv /\ [Next]_vars => IInv'
<1>. SUFFICES ASSUME IInv, [Next]_vars PROVE IInv'
  OBVIOUS
<1>. USE DEF IInv, TypeOK
<1>1. CASE ReadAddrOpts
  <2>1. CASE IsClient
    BY <1>1, <2>1 DEF ReadAddrOpts, Goto, WhoItIs, Untouched, NoDestination, IsClient
  <2>2. CASE ~IsClient
    <3>1. /\ node' \in {NULL, "src_addr"} /\ service' \in {NULL, "src_port"}
          /\ pc' = "hints"
      BY <1>1, <2>2, Options DEF ReadAddrOpts, Goto
    <3>2. ~IsClient' /\ hints' = hints /\ hints.format = "unspec"
      BY <1>1, <2>2 DEF ReadAddrOpts, IsClient, WhoItIs, Untouched
    <3>3. Server'
      BY <3>1, <3>2 DEF Server
    <3>. QED
      BY <1>1, <2>2, <3>1, <3>3 DEF ReadAddrOpts, Goto, WhoItIs, NoDestination
  <2>. QED
    BY <2>1, <2>2
<1>2. CASE GetaddrFails
  <2>1. NotResolved'
    BY <1>2 DEF GetaddrFails, WhoItIs, NotResolved, Untouched, IsClient
  <2>. QED
    BY <1>2, <2>1 DEF GetaddrFails, GetaddrError, Goto, WhoItIs, NoDestination
<1>3. CASE GetaddrCrashes
  BY <1>3 DEF GetaddrCrashes, Goto, WhoItIs, NoDestination
<1>4. CASE GetaddrFinds
  <2>1. PICK positive \in BOOLEAN :
          hints' = CopiesTo([hints EXCEPT !.format = "resolved"], positive)
    BY <1>4 DEF GetaddrFinds
  <2>2. /\ hints'.format = "resolved" /\ ~hints'.dest /\ hints'.destlen = positive
        /\ hints' \in [type : {0, 3}, format : {"unspec", "resolved"},
                       virt_addr : BOOLEAN, dest : BOOLEAN, destlen : BOOLEAN]
    BY <2>1 DEF CopiesTo, NoDestination
  <2>3. CASE positive
    BY <1>4, <2>2, <2>3
    DEF GetaddrFinds, Faults, Goto, KeepsThem, WhoItIs, NoDestination
  <2>4. CASE ~positive
    <3>1. /\ node' \in {NULL, "dst_addr"} /\ service' \in {NULL, "dst_port"}
          /\ pc' = "hints" /\ ret' = ret
      BY <1>4, <2>2, <2>4, Options DEF GetaddrFinds, Faults, Goto, WritesDestination
    <3>2. IsClient' /\ node' = "dst_addr"
      BY <1>4, <2>2, <2>4 DEF GetaddrFinds, Faults, WritesDestination, WhoItIs,
           IsClient, Option
    <3>3. Resolved'
      BY <2>2, <3>1, <3>2 DEF Resolved
    <3>. QED
      BY <1>4, <2>2, <2>4, <3>1, <3>3 DEF GetaddrFinds, WhoItIs, NoDestination
  <2>. QED
    BY <2>3, <2>4
<1>5. CASE SetHints
  <2>1. /\ hints' \in [type : {0, 3}, format : {"unspec", "resolved"},
                       virt_addr : BOOLEAN, dest : BOOLEAN, destlen : BOOLEAN]
        /\ hints'.format = hints.format /\ hints'.dest = hints.dest
        /\ hints'.destlen = hints.destlen
    BY <1>5 DEF SetHints
  <2>2. Server' \/ NotResolved' \/ Resolved'
    BY <1>5, <2>1 DEF SetHints, WhoItIs, Server, NotResolved, Resolved, Untouched,
         IsClient
  <2>. QED
    BY <1>5, <2>1, <2>2 DEF SetHints, Goto, WhoItIs, NoDestination
<1>6. CASE Getinfo
  <2>1. pc' \in {"returned", "crashed"} /\ ret' = 0 /\ fi' \in {"junk", "info"}
    BY <1>6 DEF Getinfo, Goto, Return
  <2>2. refused' \subseteq {"getaddr", "fi_getinfo"}
    BY <1>6 DEF Getinfo
  <2>3. UNCHANGED <<opts, node, service, flags, hints>> /\ pc = "fi_getinfo"
    BY <1>6 DEF Getinfo
  <2>. QED
    BY <2>1, <2>2, <2>3 DEF WhoItIs, NoDestination
<1>7. CASE UNCHANGED vars
  BY <1>7 DEF vars, WhoItIs, Server, NotResolved, Resolved, Untouched, IsClient,
       NoDestination
<1>. QED
  BY <1>1, <1>2, <1>3, <1>4, <1>5, <1>6, <1>7 DEF Next

THEOREM Inductive == Spec => []IInv
  BY InitIInv, NextIInv, PTL DEF Spec

(* Whatever fails on its way, ft_getinfo returns 0.                              *)
THEOREM TypeCorrect == Spec => []TypeOK
  BY Inductive, PTL DEF IInv

(* A client asks with empty hints or does not live to ask.                       *)
THEOREM NoAddressTaken == Spec => []AsksWithoutAddress
<1>1. IInv => AsksWithoutAddress
  BY DEF IInv, NoDestination, AsksWithoutAddress
<1>. QED
  BY <1>1, Inductive, PTL

(* The peer is asked for by who has resolved it, the unwritten cells by who      *)
(* could not.                                                                      *)
THEOREM WhoAsksForWhom == Spec => []AsksForWhoItIs
<1>1. IInv => AsksForWhoItIs
  BY DEF IInv, WhoItIs, Server, NotResolved, Resolved, Untouched, AsksForWhoItIs, NULL
<1>. QED
  BY <1>1, Inductive, PTL
=============================================================================
