---------------------------- MODULE AddressOptions ----------------------------
(***************************************************************************)
(* ft_getinfo of Scalable.hs with ft_read_addr_opts and getaddr: it turns  *)
(* the options into the node, the service, the flags and the hints that    *)
(* fi_getinfo is asked with.  All are cells of Env that start out          *)
(* uninitialised, but for the hints, which fi_allocinfo has cleared.        *)
(***************************************************************************)
EXTENDS Integers

CONSTANTS Codes     \* nonzero codes fi_getinfo fails with

ASSUME CodesAssumption == Codes \subseteq Int \ {0}

VARIABLES
    opts,       \* which address options are set, and FT_OPT_ENABLE_HMEM
    node, service, flags,   \* cells of Env: "junk" before they are written
    hints,      \* ep_attr->type, addr_format, FI_MR_VIRT_ADDR in mr_mode, and
                \* whether dest_addr is allocated and dest_addrlen is positive
    fi,         \* the info the program goes on with
    refused,    \* calls of fi_getinfo that failed
    pc, ret

vars == <<opts, node, service, flags, hints, fi, refused, pc, ret>>

NULL == "null"
Option(o) == IF opts[o] THEN o ELSE NULL

Init ==
    /\ opts \in [{"src_addr", "dst_addr", "src_port", "dst_port", "oob_port", "hmem"}
                    -> BOOLEAN]
    /\ node = "junk" /\ service = "junk" /\ flags = "junk"
    /\ hints = [type |-> 0, format |-> "unspec", virt_addr |-> FALSE,
                dest |-> FALSE, destlen |-> FALSE]
    /\ fi = "junk"
    /\ refused = {}
    /\ pc = "ft_getinfo" /\ ret = 0

Goto(place) == pc' = place /\ UNCHANGED ret
Return(code) == pc' = "returned" /\ ret' = code

(* ft_read_addr_opts: the client has a destination, and either a source or no *)
(* out-of-band port.  The server's node and service are its source; what      *)
(* follows the `return 0' about default ports is reached all the same.         *)
IsClient == opts["dst_addr"] /\ (opts["src_addr"] \/ ~opts["oob_port"])
ReadAddrOpts ==
    /\ pc = "ft_getinfo"
    /\ flags' = "none"
    /\ IF IsClient
       THEN Goto("getaddr") /\ UNCHANGED <<node, service>>
       ELSE /\ node' = Option("src_addr") /\ service' = Option("src_port")
            /\ Goto("hints")
    /\ UNCHANGED <<opts, hints, fi, refused>>

(* getaddr fails: its code is dropped with node and service as they were.     *)
GetaddrErrorReturned(code) == Return(code)
GetaddrError(code) == Goto("hints")
GetaddrFails ==
    /\ pc = "getaddr"
    /\ \E code \in Codes : GetaddrError(code)
    /\ refused' = refused \cup {"getaddr"}
    /\ UNCHANGED <<opts, node, service, flags, hints, fi>>

(* getaddr asks with node and service as nobody has written them, for it      *)
(* compares its cells, not what they hold, with null.  The flags it tests are *)
(* 0, so it is the destination address it copies to the hints.                *)
GetaddrCrashes ==
    /\ pc = "getaddr"
    /\ Goto("crashed")
    /\ UNCHANGED <<opts, node, service, flags, hints, fi, refused>>

(* moveBytes to hints->dest_addr, for which nothing was allocated.            *)
Duplicates(h, positive) == [h EXCEPT !.dest = TRUE, !.destlen = positive]
CopiesTo(h, positive) == [h EXCEPT !.destlen = positive]
Faults(h) == h.destlen /\ ~h.dest
KeepsThem == UNCHANGED <<node, service>>
WritesDestination == node' = Option("dst_addr") /\ service' = Option("dst_port")
GetaddrFinds ==
    /\ pc = "getaddr"
    /\ \E positive \in BOOLEAN :
         hints' = CopiesTo([hints EXCEPT !.format = "resolved"], positive)
    /\ IF Faults(hints') THEN Goto("crashed") /\ KeepsThem
                         ELSE Goto("hints") /\ WritesDestination
    /\ UNCHANGED <<opts, flags, fi, refused>>

(* The endpoint type is FI_EP_RDM, whatever it was, and mr_mode is extended   *)
(* unless heterogeneous memory was asked for.                                 *)
SetHints ==
    /\ pc = "hints"
    /\ hints' = [hints EXCEPT !.type = 3, !.virt_addr = @ \/ ~opts["hmem"]]
    /\ Goto("fi_getinfo")
    /\ UNCHANGED <<opts, node, service, flags, fi, refused>>

(* fi_getinfo, whose code is dropped.                                         *)
Getinfo ==
    /\ pc = "fi_getinfo"
    /\ \/ fi' = "info" /\ Return(0) /\ UNCHANGED refused
       \/ refused' = refused \cup {"fi_getinfo"} /\ Return(0) /\ UNCHANGED fi
       \/ "junk" \in {node, service} /\ Goto("crashed") /\ UNCHANGED <<fi, refused>>
    /\ UNCHANGED <<opts, node, service, flags, hints>>

Next == \/ ReadAddrOpts \/ GetaddrFails \/ GetaddrCrashes \/ GetaddrFinds
        \/ SetHints \/ Getinfo

Spec == Init /\ [][Next]_vars

-----------------------------------------------------------------------------

(* The cells hold what an option can be, and ft_getinfo, for all the failures *)
(* on its way, returns 0 only: what FabricSetup!FtGetinfo takes for granted.   *)
TypeOK ==
    /\ node \in {"junk", NULL, "src_addr", "dst_addr"}
    /\ service \in {"junk", NULL, "src_port", "dst_port"}
    /\ flags \in {"junk", "none"}
    /\ hints \in [type : {0, 3}, format : {"unspec", "resolved"},
                  virt_addr : BOOLEAN, dest : BOOLEAN, destlen : BOOLEAN]
    /\ fi \in {"junk", "info"}
    /\ refused \subseteq {"getaddr", "fi_getinfo"}
    /\ pc \in {"ft_getinfo", "getaddr", "hints", "fi_getinfo", "returned", "crashed"}
    /\ ret = 0

(* A client never takes the address that getaddr has resolved any further: it *)
(* asks for its peer with empty hints, or does not live to ask.                *)
AsksWithoutAddress ==
    pc \in {"fi_getinfo", "returned"} => ~hints.dest /\ ~hints.destlen

(* Only a client whose getaddr has failed asks with a node and a service that *)
(* nobody has written, and only a client that has resolved its peer asks for  *)
(* the peer; one never comes without the other.                                *)
AsksForWhoItIs ==
    pc = "fi_getinfo" =>
      /\ "junk" \in {node, service} => IsClient /\ "getaddr" \in refused
      /\ node = "dst_addr" <=> hints.format = "resolved"
      /\ service = "dst_port" => node = "dst_addr"
=============================================================================
