------------------------------ MODULE FabricApi ------------------------------
(***************************************************************************)
(* The call layer of libfabric, include/*.h: the structures an application *)
(* holds, the tables of operations they point to, and the inline functions *)
(* that go from an object to an entry of one of its tables.  Arguments and  *)
(* results are left out.  The compiler turns the names of fields and        *)
(* operations into offsets, and so does Call below: a table or a structure  *)
(* is the sequence of its members, an offset an index into it.  (`size',    *)
(* the first member of each table, has offset 0.)                           *)
(***************************************************************************)
EXTENDS Naturals, Sequences, FiniteSetsExt

-----------------------------------------------------------------------------
(* The tables of operations. *)

fi_ops == <<"close", "bind", "control", "ops_open", "tostr", "ops_set">>
fi_ops_fabric == <<"domain", "passive_ep", "eq_open", "wait_open", "trywait">>
fi_ops_domain ==
    <<"av_open", "cq_open", "endpoint", "scalable_ep", "cntr_open", "poll_open",
      "stx_ctx", "srx_ctx", "query_atomic", "query_collective">>
fi_ops_mr == <<"reg", "regv", "regattr">>
fi_ops_av ==
    <<"insert", "insertsvc", "insertsym", "remove", "lookup", "straddr", "av_set">>
fi_ops_ep ==
    <<"cancel", "getopt", "setopt", "tx_ctx", "rx_ctx", "rx_size_left",
      "tx_size_left">>
fi_ops_msg ==
    <<"recv", "recvv", "recvmsg", "send", "sendv", "sendmsg", "inject",
      "senddata", "injectdata">>
fi_ops_cm ==
    <<"setname", "getname", "getpeer", "connect", "listen", "accept", "reject",
      "shutdown", "join">>
fi_ops_rma ==
    <<"read", "readv", "readmsg", "write", "writev", "writemsg", "inject",
      "writedata", "injectdata">>
fi_ops_tagged ==
    <<"recv", "recvv", "recvmsg", "send", "sendv", "sendmsg", "inject",
      "senddata", "injectdata">>
fi_ops_atomic ==
    <<"write", "writev", "writemsg", "inject", "readwrite", "readwritev",
      "readwritemsg", "compwrite", "compwritev", "compwritemsg", "writevalid",
      "readwritevalid", "compwritevalid">>
fi_ops_collective ==
    <<"barrier", "broadcast", "alltoall", "allreduce", "allgather",
      "reduce_scatter", "reduce", "scatter", "gather", "msg">>
fi_ops_av_set == <<"set_union", "intersect", "diff", "insert", "remove", "addr">>
fi_ops_wait == <<"wait">>
fi_ops_poll == <<"poll", "poll_add", "poll_del">>
fi_ops_eq == <<"read", "readerr", "write", "sread", "strerror">>
fi_ops_cq ==
    <<"read", "readfrom", "readerr", "sread", "sreadfrom", "signal", "strerror">>
fi_ops_cntr == <<"read", "readerr", "add", "set", "wait", "adderr", "seterr">>

Ops == [fi_ops |-> fi_ops, fi_ops_fabric |-> fi_ops_fabric,
        fi_ops_domain |-> fi_ops_domain, fi_ops_mr |-> fi_ops_mr,
        fi_ops_av |-> fi_ops_av, fi_ops_ep |-> fi_ops_ep,
        fi_ops_msg |-> fi_ops_msg, fi_ops_cm |-> fi_ops_cm,
        fi_ops_rma |-> fi_ops_rma, fi_ops_tagged |-> fi_ops_tagged,
        fi_ops_atomic |-> fi_ops_atomic,
        fi_ops_collective |-> fi_ops_collective,
        fi_ops_av_set |-> fi_ops_av_set, fi_ops_wait |-> fi_ops_wait,
        fi_ops_poll |-> fi_ops_poll, fi_ops_eq |-> fi_ops_eq,
        fi_ops_cq |-> fi_ops_cq, fi_ops_cntr |-> fi_ops_cntr]

-----------------------------------------------------------------------------
(* The objects: each begins with its fid, which points to the fi_ops; a     *)
(* member is its name and what it points to, or "data".                      *)

Fid == <<"fid", "fi_ops">>
WithOps(type) == <<Fid, <<"ops", type>>>>

fid_fabric == Append(WithOps("fi_ops_fabric"), <<"api_version", "data">>)
fid_domain == Append(WithOps("fi_ops_domain"), <<"mr", "fi_ops_mr">>)
fid_av == WithOps("fi_ops_av")
fid_mr == <<Fid, <<"mem_desc", "data">>, <<"key", "data">>>>
fid_ep ==
    WithOps("fi_ops_ep") \o
    <<<<"cm", "fi_ops_cm">>, <<"msg", "fi_ops_msg">>, <<"rma", "fi_ops_rma">>,
      <<"tagged", "fi_ops_tagged">>, <<"atomic", "fi_ops_atomic">>,
      <<"collective", "fi_ops_collective">>>>
fid_pepCmFirst == <<Fid, <<"cm", "fi_ops_cm">>, <<"ops", "fi_ops_ep">>>>
fid_pep == Append(WithOps("fi_ops_ep"), <<"cm", "fi_ops_cm">>)
fid_stx == WithOps("fi_ops_ep")
fid_mc == <<Fid, <<"fi_addr", "data">>>>
fid_av_set == WithOps("fi_ops_av_set")
fid_wait == WithOps("fi_ops_wait")
fid_poll == WithOps("fi_ops_poll")
fid_eq == WithOps("fi_ops_eq")
fid_cq == WithOps("fi_ops_cq")
fid_cntr == WithOps("fi_ops_cntr")

Layout == [fid_fabric |-> fid_fabric, fid_domain |-> fid_domain,
           fid_av |-> fid_av, fid_mr |-> fid_mr, fid_ep |-> fid_ep,
           fid_pep |-> fid_pep, fid_stx |-> fid_stx, fid_mc |-> fid_mc,
           fid_av_set |-> fid_av_set, fid_wait |-> fid_wait,
           fid_poll |-> fid_poll, fid_eq |-> fid_eq, fid_cq |-> fid_cq,
           fid_cntr |-> fid_cntr]

Member(struct, field) ==
    CHOOSE i \in DOMAIN Layout[struct] : Layout[struct][i][1] = field
Entry(type, op) == CHOOSE i \in DOMAIN Ops[type] : Ops[type][i] = op

-----------------------------------------------------------------------------
(* A call compiles to: take the pointer at offset `pos', a table of type     *)
(* `type', and enter what stands at offset `off' of it.  `takes' are the     *)
(* structures whose fid the caller may pass, `check' says that the entry is  *)
(* asked for with FI_CHECK_OP first.                                         *)

Call(name, takes, struct, field, op, check) ==
    LET pos == Member(struct, field)
        type == Layout[struct][pos][2]
    IN  [name |-> name, takes |-> takes, pos |-> pos, type |-> type,
         off |-> Entry(type, op), check |-> check,
         modifies |-> op \in {"close", "bind", "control", "setopt", "ops_set"},
         closes |-> op = "close"]

(* One inline function per member of `ops', a record from names to entries. *)
Forward(struct, field, ops) ==
    {Call(n, {struct}, struct, field, ops[n], FALSE) : n \in DOMAIN ops}
(* The same behind FI_CHECK_OP ... : -FI_ENOSYS. *)
Checked(struct, field, ops) ==
    {Call(n, {struct}, struct, field, ops[n], TRUE) : n \in DOMAIN ops}
(* Functions of a fid_t that find the endpoint around it with container_of:  *)
(* the offset is the one in fid_ep whatever structure the fid is part of.    *)
Around(takes, field, ops) ==
    {Call(n, takes, "fid_ep", field, ops[n], FALSE) : n \in DOMAIN ops}

(* fabric.h: of any fid. *)
FidCalls ==
    LET any == DOMAIN Layout
        On(n, op, check) == Call(n, any, "fid_ep", "fid", op, check)
    IN  {On("fi_close", "close", FALSE), On("fi_control", "control", FALSE),
         On("fi_alias", "control", FALSE), On("fi_open_ops", "ops_open", FALSE),
         On("fi_set_ops", "ops_set", TRUE)}

(* fi_domain.h; fi_mr_desc and fi_mr_key, which read fields, are left out.   *)
OpenCalls ==
    Forward("fid_fabric", "ops",
            [fi_domain |-> "domain", fi_wait_open |-> "wait_open"])
    \cup Forward("fid_domain", "fid", [fi_domain_bind |-> "bind"])
    \cup Forward("fid_domain", "ops",
            [fi_cq_open |-> "cq_open", fi_cntr_open |-> "cntr_open",
             fi_poll_open |-> "poll_open"])
MrCalls ==
    Forward("fid_domain", "mr",
            [fi_mr_reg |-> "reg", fi_mr_regv |-> "regv",
             fi_mr_regattr |-> "regattr"])
    \cup Forward("fid_domain", "fid",
            [fi_mr_map_raw |-> "control", fi_mr_unmap_key |-> "control"])
    \cup Forward("fid_mr", "fid",
            [fi_mr_raw_attr |-> "control", fi_mr_bind |-> "bind",
             fi_mr_refresh |-> "control", fi_mr_enable |-> "control"])
AvCalls ==
    Forward("fid_domain", "ops", [fi_av_open |-> "av_open"])
    \cup Forward("fid_av", "fid", [fi_av_bind |-> "bind"])
    \cup Forward("fid_av", "ops",
            [fi_av_insert |-> "insert", fi_av_insertsvc |-> "insertsvc",
             fi_av_insertsym |-> "insertsym", fi_av_remove |-> "remove",
             fi_av_lookup |-> "lookup", fi_av_straddr |-> "straddr"])

(* fi_endpoint.h *)
EpCalls ==
    Forward("fid_fabric", "ops", [fi_passive_ep |-> "passive_ep"])
    \cup Forward("fid_domain", "ops",
            [fi_endpoint |-> "endpoint", fi_scalable_ep |-> "scalable_ep",
             fi_stx_context |-> "stx_ctx", fi_srx_context |-> "srx_ctx"])
    \cup Forward("fid_ep", "fid",
            [fi_ep_bind |-> "bind", fi_scalable_ep_bind |-> "bind",
             fi_enable |-> "control", fi_ep_alias |-> "control"])
    \cup Forward("fid_pep", "fid", [fi_pep_bind |-> "bind"])
    \cup Forward("fid_ep", "ops",
            [fi_tx_context |-> "tx_ctx", fi_rx_context |-> "rx_ctx",
             fi_rx_size_left |-> "rx_size_left",
             fi_tx_size_left |-> "tx_size_left"])
    \cup Around({"fid_ep", "fid_pep", "fid_stx"}, "ops",
            [fi_cancel |-> "cancel", fi_setopt |-> "setopt",
             fi_getopt |-> "getopt"])
MsgCalls ==
    Forward("fid_ep", "msg",
            [fi_recv |-> "recv", fi_recvv |-> "recvv", fi_recvmsg |-> "recvmsg",
             fi_send |-> "send", fi_sendv |-> "sendv", fi_sendmsg |-> "sendmsg",
             fi_inject |-> "inject", fi_senddata |-> "senddata",
             fi_injectdata |-> "injectdata"])

(* fi_cm.h; fi_mc_addr reads a field.                                         *)
CmCalls ==
    Around({"fid_ep", "fid_pep"}, "cm",
            [fi_setname |-> "setname", fi_getname |-> "getname"])
    \cup Forward("fid_ep", "cm",
            [fi_getpeer |-> "getpeer", fi_connect |-> "connect",
             fi_accept |-> "accept", fi_shutdown |-> "shutdown"])
    \cup Forward("fid_pep", "cm", [fi_listen |-> "listen", fi_reject |-> "reject"])
    \cup Checked("fid_ep", "cm", [fi_join |-> "join"])

(* fi_rma.h, fi_tagged.h, fi_atomic.h *)
RmaCalls ==
    Forward("fid_ep", "rma",
            [fi_read |-> "read", fi_readv |-> "readv", fi_readmsg |-> "readmsg",
             fi_write |-> "write", fi_writev |-> "writev",
             fi_writemsg |-> "writemsg", fi_inject_write |-> "inject",
             fi_writedata |-> "writedata", fi_inject_writedata |-> "injectdata"])
TaggedCalls ==
    Forward("fid_ep", "tagged",
            [fi_trecv |-> "recv", fi_trecvv |-> "recvv",
             fi_trecvmsg |-> "recvmsg", fi_tsend |-> "send",
             fi_tsendv |-> "sendv", fi_tsendmsg |-> "sendmsg",
             fi_tinject |-> "inject", fi_tsenddata |-> "senddata",
             fi_tinjectdata |-> "injectdata"])
AtomicCalls ==
    Forward("fid_ep", "atomic",
            [fi_atomic |-> "write", fi_atomicv |-> "writev",
             fi_atomicmsg |-> "writemsg", fi_inject_atomic |-> "inject",
             fi_fetch_atomic |-> "readwrite", fi_fetch_atomicv |-> "readwritev",
             fi_fetch_atomicmsg |-> "readwritemsg",
             fi_compare_atomic |-> "compwrite",
             fi_compare_atomicv |-> "compwritev",
             fi_compare_atomicmsg |-> "compwritemsg",
             fi_atomicvalid |-> "writevalid",
             fi_fetch_atomicvalid |-> "readwritevalid",
             fi_compare_atomicvalid |-> "compwritevalid"])
    \cup Checked("fid_domain", "ops", [fi_query_atomic |-> "query_atomic"])

(* fi_collective.h; fi_join_collective is fi_join with an address it builds. *)
CollectiveCalls ==
    Forward("fid_ep", "collective",
            [fi_barrier |-> "barrier", fi_broadcast |-> "broadcast",
             fi_alltoall |-> "alltoall", fi_allreduce |-> "allreduce",
             fi_allgather |-> "allgather",
             fi_reduce_scatter |-> "reduce_scatter", fi_reduce |-> "reduce",
             fi_scatter |-> "scatter", fi_gather |-> "gather"])
    \cup Checked("fid_ep", "cm", [fi_join_collective |-> "join"])
    \cup Checked("fid_domain", "ops",
            [fi_query_collective |-> "query_collective"])
AvSetCalls ==
    Checked("fid_av", "ops", [fi_av_set |-> "av_set"])
    \cup Forward("fid_av_set", "ops",
            [fi_av_set_union |-> "set_union", fi_av_set_intersect |-> "intersect",
             fi_av_set_diff |-> "diff", fi_av_set_insert |-> "insert",
             fi_av_set_remove |-> "remove", fi_av_set_addr |-> "addr"])

(* fi_eq.h *)
WaitCalls ==
    Forward("fid_fabric", "ops", [fi_trywait |-> "trywait"])
    \cup Forward("fid_wait", "ops", [fi_wait |-> "wait"])
    \cup Forward("fid_poll", "ops",
            [fi_poll |-> "poll", fi_poll_add |-> "poll_add",
             fi_poll_del |-> "poll_del"])
EqCalls ==
    Forward("fid_fabric", "ops", [fi_eq_open |-> "eq_open"])
    \cup Forward("fid_eq", "ops",
            [fi_eq_read |-> "read", fi_eq_readerr |-> "readerr",
             fi_eq_write |-> "write", fi_eq_sread |-> "sread",
             fi_eq_strerror |-> "strerror"])
CqCalls ==
    Forward("fid_cq", "ops",
            [fi_cq_read |-> "read", fi_cq_readfrom |-> "readfrom",
             fi_cq_readerr |-> "readerr", fi_cq_sread |-> "sread",
             fi_cq_sreadfrom |-> "sreadfrom", fi_cq_signal |-> "signal",
             fi_cq_strerror |-> "strerror"])
CntrCalls ==
    Forward("fid_cntr", "ops",
            [fi_cntr_read |-> "read", fi_cntr_readerr |-> "readerr",
             fi_cntr_add |-> "add", fi_cntr_set |-> "set",
             fi_cntr_wait |-> "wait"])
    \cup Checked("fid_cntr", "ops",
            [fi_cntr_adderr |-> "adderr", fi_cntr_seterr |-> "seterr"])

AllCalls ==
    UNION {FidCalls, OpenCalls, MrCalls, AvCalls, EpCalls, MsgCalls,
           CmCalls, RmaCalls, TaggedCalls, AtomicCalls, CollectiveCalls, AvSetCalls,
           WaitCalls, EqCalls, CqCalls, CntrCalls}

-----------------------------------------------------------------------------
(* What a provider may hand out. *)

(* The entries of each table that are reached through FI_CHECK_OP.           *)
CheckedEntries ==
    [type \in DOMAIN Ops |-> {c.off : c \in {d \in AllCalls : d.type = type /\ d.check}}]

(* FI_CHECK_OP guards the operations that were added to a table: one built   *)
(* against an older header ends before the first of them.                     *)
Oldest(type) ==
    IF CheckedEntries[type] = {} THEN Len(Ops[type]) ELSE Min(CheckedEntries[type]) - 1

(* The tables a provider may build.  Each has a size and, in it, the entries  *)
(* that are not null: all but those that are checked for are there.           *)
Built ==
    [type \in DOMAIN Ops |->
        {[size |-> n + 1, has |-> (1 .. n) \ left] :
            n \in Oldest(type) .. Len(Ops[type]), left \in SUBSET CheckedEntries[type]}]
=============================================================================
