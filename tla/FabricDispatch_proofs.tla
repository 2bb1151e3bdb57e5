------------------------- MODULE FabricDispatch_proofs -------------------------
(***************************************************************************)
(* The inline functions of include/*.h fit every object that conforms, so  *)
(* that Dispatch_proofs applies to libfabric, and every table that a        *)
(* provider may build has what conforming asks of it.  What follows is      *)
(* about the structures, tables and functions, one by one.                  *)
(***************************************************************************)
EXTENDS FabricDispatch, Dispatch_proofs

(* The operations that the functions ask for with FI_CHECK_OP.                *)
Later ==
    {<<"fi_ops", "ops_set">>, <<"fi_ops_cm", "join">>, <<"fi_ops_av", "av_set">>,
     <<"fi_ops_domain", "query_atomic">>, <<"fi_ops_domain", "query_collective">>,
     <<"fi_ops_cntr", "adderr">>, <<"fi_ops_cntr", "seterr">>}

(* A call finds, in every structure it takes, a member of the type it takes    *)
(* it for, enters an operation of that type, and asks for it if it is one of    *)
(* the later ones.                                                              *)
WellMade(c) ==
    /\ \A s \in c.takes :
         c.pos \in DOMAIN Layout[s] /\ Layout[s][c.pos][2] = c.type
    /\ c.type \in DOMAIN Ops
    /\ c.off \in DOMAIN Ops[c.type]
    /\ c.check <=> <<c.type, Ops[c.type][c.off]>> \in Later

(* Member pos of structure s, and no other, is called f; it points to a T.      *)
Has(s, pos, f, T) ==
    /\ pos \in DOMAIN Layout[s] /\ Layout[s][pos] = <<f, T>>
    /\ \A i \in DOMAIN Layout[s] : Layout[s][i][1] = f => i = pos

HasOp(T, op) == T \in DOMAIN Ops /\ \E i \in DOMAIN Ops[T] : Ops[T][i] = op

-----------------------------------------------------------------------------
(* The structures.                                                              *)

LEMMA FidIsFirst ==
    \A s \in DOMAIN Layout : Has(s, 1, "fid", "fi_ops")
<1>1. /\ Layout["fid_fabric"] = fid_fabric /\ Layout["fid_domain"] = fid_domain
      /\ Layout["fid_av"] = fid_av /\ Layout["fid_mr"] = fid_mr
      /\ Layout["fid_ep"] = fid_ep /\ Layout["fid_pep"] = fid_pep
      /\ Layout["fid_stx"] = fid_stx /\ Layout["fid_mc"] = fid_mc
      /\ Layout["fid_av_set"] = fid_av_set /\ Layout["fid_wait"] = fid_wait
      /\ Layout["fid_poll"] = fid_poll /\ Layout["fid_eq"] = fid_eq
      /\ Layout["fid_cq"] = fid_cq /\ Layout["fid_cntr"] = fid_cntr
  BY DEF Layout
<1>2. DOMAIN Layout =
        {"fid_fabric", "fid_domain", "fid_av", "fid_mr", "fid_ep", "fid_pep",
         "fid_stx", "fid_mc", "fid_av_set", "fid_wait", "fid_poll", "fid_eq",
         "fid_cq", "fid_cntr"}
  BY DEF Layout
<1>. USE DEF Has, WithOps, Fid
<1>3. Has("fid_fabric", 1, "fid", "fi_ops") /\ Has("fid_domain", 1, "fid", "fi_ops")
  BY <1>1 DEF fid_fabric, fid_domain
<1>4. Has("fid_av", 1, "fid", "fi_ops") /\ Has("fid_mr", 1, "fid", "fi_ops")
  BY <1>1 DEF fid_av, fid_mr
<1>5. Has("fid_ep", 1, "fid", "fi_ops")
  BY <1>1 DEF fid_ep
<1>6. Has("fid_pep", 1, "fid", "fi_ops") /\ Has("fid_stx", 1, "fid", "fi_ops")
  BY <1>1 DEF fid_pep, fid_stx
<1>7. Has("fid_mc", 1, "fid", "fi_ops") /\ Has("fid_av_set", 1, "fid", "fi_ops")
  BY <1>1 DEF fid_mc, fid_av_set
<1>8. Has("fid_wait", 1, "fid", "fi_ops") /\ Has("fid_poll", 1, "fid", "fi_ops")
  BY <1>1 DEF fid_wait, fid_poll
<1>9. Has("fid_eq", 1, "fid", "fi_ops") /\ Has("fid_cq", 1, "fid", "fi_ops")
  BY <1>1 DEF fid_eq, fid_cq
<1>10. Has("fid_cntr", 1, "fid", "fi_ops")
  BY <1>1 DEF fid_cntr
<1>. QED
  BY <1>2, <1>3, <1>4, <1>5, <1>6, <1>7, <1>8, <1>9, <1>10

LEMMA FidOfMany ==
    \A s \in {"fid_domain", "fid_av", "fid_mr", "fid_ep", "fid_pep"} :
        Has(s, 1, "fid", "fi_ops")
<1>1. {"fid_domain", "fid_av", "fid_mr", "fid_ep", "fid_pep"} \subseteq DOMAIN Layout
  BY DEF Layout
<1>. QED
  BY <1>1, FidIsFirst

LEMMA OpsIsSecond ==
    /\ Has("fid_fabric", 2, "ops", "fi_ops_fabric")
    /\ Has("fid_domain", 2, "ops", "fi_ops_domain")
    /\ Has("fid_av", 2, "ops", "fi_ops_av")
    /\ Has("fid_ep", 2, "ops", "fi_ops_ep")
    /\ Has("fid_pep", 2, "ops", "fi_ops_ep")
    /\ Has("fid_stx", 2, "ops", "fi_ops_ep")
    /\ Has("fid_av_set", 2, "ops", "fi_ops_av_set")
    /\ Has("fid_wait", 2, "ops", "fi_ops_wait")
    /\ Has("fid_poll", 2, "ops", "fi_ops_poll")
    /\ Has("fid_eq", 2, "ops", "fi_ops_eq")
    /\ Has("fid_cq", 2, "ops", "fi_ops_cq")
    /\ Has("fid_cntr", 2, "ops", "fi_ops_cntr")
<1>. USE DEF Has, WithOps, Fid, Layout
<1>1. Has("fid_fabric", 2, "ops", "fi_ops_fabric")
  BY DEF fid_fabric
<1>2. Has("fid_domain", 2, "ops", "fi_ops_domain")
  BY DEF fid_domain
<1>3. Has("fid_av", 2, "ops", "fi_ops_av")
  BY DEF fid_av
<1>4. Has("fid_ep", 2, "ops", "fi_ops_ep")
  BY DEF fid_ep
<1>5. Has("fid_pep", 2, "ops", "fi_ops_ep")
  BY DEF fid_pep
<1>6. Has("fid_stx", 2, "ops", "fi_ops_ep")
  BY DEF fid_stx
<1>7. Has("fid_av_set", 2, "ops", "fi_ops_av_set")
  BY DEF fid_av_set
<1>8. Has("fid_wait", 2, "ops", "fi_ops_wait")
  BY DEF fid_wait
<1>9. Has("fid_poll", 2, "ops", "fi_ops_poll")
  BY DEF fid_poll
<1>10. Has("fid_eq", 2, "ops", "fi_ops_eq")
  BY DEF fid_eq
<1>11. Has("fid_cq", 2, "ops", "fi_ops_cq")
  BY DEF fid_cq
<1>12. Has("fid_cntr", 2, "ops", "fi_ops_cntr")
  BY DEF fid_cntr
<1>. QED
  BY <1>1, <1>2, <1>3, <1>4, <1>5, <1>6, <1>7, <1>8, <1>9, <1>10, <1>11, <1>12

(* What follows the second member, and where fi_getname finds the cm table of  *)
(* an endpoint it finds that of a passive one.                                   *)
LEMMA OtherMembers ==
    /\ Has("fid_domain", 3, "mr", "fi_ops_mr")
    /\ Has("fid_pep", 3, "cm", "fi_ops_cm")
    /\ Has("fid_ep", 3, "cm", "fi_ops_cm")
    /\ Has("fid_ep", 4, "msg", "fi_ops_msg")
    /\ Has("fid_ep", 5, "rma", "fi_ops_rma")
    /\ Has("fid_ep", 6, "tagged", "fi_ops_tagged")
    /\ Has("fid_ep", 7, "atomic", "fi_ops_atomic")
    /\ Has("fid_ep", 8, "collective", "fi_ops_collective")
<1>. USE DEF Has, WithOps, Fid, Layout
<1>1. Has("fid_domain", 3, "mr", "fi_ops_mr")
  BY DEF fid_domain
<1>2. Has("fid_pep", 3, "cm", "fi_ops_cm")
  BY DEF fid_pep
<1>3. Has("fid_ep", 3, "cm", "fi_ops_cm")
  BY DEF fid_ep
<1>4. Has("fid_ep", 4, "msg", "fi_ops_msg")
  BY DEF fid_ep
<1>5. Has("fid_ep", 5, "rma", "fi_ops_rma")
  BY DEF fid_ep
<1>6. Has("fid_ep", 6, "tagged", "fi_ops_tagged")
  BY DEF fid_ep
<1>7. Has("fid_ep", 7, "atomic", "fi_ops_atomic")
  BY DEF fid_ep
<1>8. Has("fid_ep", 8, "collective", "fi_ops_collective")
  BY DEF fid_ep
<1>. QED
  BY <1>1, <1>2, <1>3, <1>4, <1>5, <1>6, <1>7, <1>8

-----------------------------------------------------------------------------
(* The functions.                                                                *)

(* What a call compiles to.                                                      *)
Compiled(c, takes, pos, T, op, check) ==
    /\ c.takes = takes /\ c.pos = pos /\ c.type = T /\ (c.check <=> check)
    /\ c.off \in DOMAIN Ops[T] /\ Ops[T][c.off] = op

LEMMA CallCompiles ==
    ASSUME NEW s, NEW pos, NEW f, NEW T, Has(s, pos, f, T),
           NEW op, HasOp(T, op), NEW takes, NEW check \in BOOLEAN, NEW n
    PROVE  Compiled(Call(n, takes, s, f, op, check), takes, pos, T, op, check)
<1>1. Member(s, f) = pos
  BY DEF Member, Has
<1>2. Layout[s][pos][2] = T
  BY DEF Has
<1>3. Entry(T, op) \in DOMAIN Ops[T] /\ Ops[T][Entry(T, op)] = op
  BY DEF Entry, HasOp
<1>. QED
  BY <1>1, <1>2, <1>3 DEF Call, Compiled

LEMMA CallIsMade ==
    ASSUME NEW s, NEW pos, NEW f, NEW T, Has(s, pos, f, T),
           NEW op, HasOp(T, op),
           NEW takes, \A t \in takes : \E g : Has(t, pos, g, T),
           NEW check \in BOOLEAN, check <=> <<T, op>> \in Later,
           NEW n
    PROVE  WellMade(Call(n, takes, s, f, op, check))
<1>. DEFINE c == Call(n, takes, s, f, op, check)
<1>1. Compiled(c, takes, pos, T, op, check)
  BY CallCompiles
<1>. HIDE DEF c
<1>2. \A t \in takes : pos \in DOMAIN Layout[t] /\ Layout[t][pos][2] = T
  BY DEF Has
<1>3. WellMade(c)
  BY <1>1, <1>2 DEF WellMade, HasOp, Compiled
<1>. QED
  BY <1>3 DEF c

LEMMA ForwardIsMade ==
    ASSUME NEW s, NEW pos, NEW f, NEW T, Has(s, pos, f, T), NEW ops,
           \A n \in DOMAIN ops : HasOp(T, ops[n]) /\ <<T, ops[n]>> \notin Later
    PROVE  \A c \in Forward(s, f, ops) : WellMade(c)
<1>. SUFFICES ASSUME NEW n \in DOMAIN ops
              PROVE  WellMade(Call(n, {s}, s, f, ops[n], FALSE))
  BY DEF Forward
<1>1. \A t \in {s} : \E g : Has(t, pos, g, T)
  OBVIOUS
<1>2. FALSE <=> <<T, ops[n]>> \in Later
  OBVIOUS
<1>3. HasOp(T, ops[n])
  OBVIOUS
<1>. QED
  BY <1>1, <1>2, <1>3, CallIsMade

LEMMA CheckedIsMade ==
    ASSUME NEW s, NEW pos, NEW f, NEW T, Has(s, pos, f, T), NEW ops,
           \A n \in DOMAIN ops : HasOp(T, ops[n]) /\ <<T, ops[n]>> \in Later
    PROVE  \A c \in Checked(s, f, ops) : WellMade(c)
<1>. SUFFICES ASSUME NEW n \in DOMAIN ops
              PROVE  WellMade(Call(n, {s}, s, f, ops[n], TRUE))
  BY DEF Checked
<1>1. \A t \in {s} : \E g : Has(t, pos, g, T)
  OBVIOUS
<1>2. TRUE <=> <<T, ops[n]>> \in Later
  OBVIOUS
<1>3. HasOp(T, ops[n])
  OBVIOUS
<1>. QED
  BY <1>1, <1>2, <1>3, CallIsMade

LEMMA AroundIsMade ==
    ASSUME NEW takes, NEW pos, NEW f, NEW T, Has("fid_ep", pos, f, T), NEW ops,
           \A t \in takes : Has(t, pos, f, T),
           \A n \in DOMAIN ops : HasOp(T, ops[n]) /\ <<T, ops[n]>> \notin Later
    PROVE  \A c \in Around(takes, f, ops) : WellMade(c)
<1>. SUFFICES ASSUME NEW n \in DOMAIN ops
              PROVE  WellMade(Call(n, takes, "fid_ep", f, ops[n], FALSE))
  BY DEF Around
<1>1. \A t \in takes : \E g : Has(t, pos, g, T)
  OBVIOUS
<1>2. FALSE <=> <<T, ops[n]>> \in Later
  OBVIOUS
<1>3. HasOp(T, ops[n])
  OBVIOUS
<1>. QED
  BY <1>1, <1>2, <1>3, CallIsMade

LEMMA FidCallsMade == \A c \in FidCalls : WellMade(c)
<1>1. Has("fid_ep", 1, "fid", "fi_ops") /\ "fid_ep" \in DOMAIN Layout
  BY FidOfMany, FidIsFirst DEF Layout
<1>2. \A t \in DOMAIN Layout : \E g : Has(t, 1, g, "fi_ops")
  BY FidIsFirst
<1>3. \A op \in {"close", "control", "ops_open", "ops_set"} : HasOp("fi_ops", op)
  BY DEF HasOp, Ops, fi_ops
<1>4. /\ \A op \in {"close", "control", "ops_open"} : <<"fi_ops", op>> \notin Later
      /\ <<"fi_ops", "ops_set">> \in Later
  BY DEF Later
<1>. SUFFICES ASSUME NEW n, NEW op \in {"close", "control", "ops_open", "ops_set"},
                     NEW check \in BOOLEAN, check <=> op = "ops_set"
              PROVE  WellMade(Call(n, DOMAIN Layout, "fid_ep", "fid", op, check))
  BY DEF FidCalls
<1>5. check <=> <<"fi_ops", op>> \in Later
  BY <1>4
<1>. QED
  BY <1>1, <1>2, <1>3, <1>5, CallIsMade

LEMMA OpenCallsMade == \A c \in OpenCalls : WellMade(c)
  BY ForwardIsMade, FidOfMany, OpsIsSecond
  DEF OpenCalls, Later, HasOp, Ops, fi_ops_fabric, fi_ops_domain, fi_ops

LEMMA MrCallsMade == \A c \in MrCalls : WellMade(c)
  BY ForwardIsMade, FidOfMany, OpsIsSecond, OtherMembers
  DEF MrCalls, Later, HasOp, Ops, fi_ops_mr, fi_ops

LEMMA AvCallsMade == \A c \in AvCalls : WellMade(c)
  BY ForwardIsMade, FidOfMany, OpsIsSecond
  DEF AvCalls, Later, HasOp, Ops, fi_ops_domain, fi_ops_av, fi_ops

LEMMA EpCallsMade == \A c \in EpCalls : WellMade(c)
<1>. DEFINE
       opens == [fi_endpoint |-> "endpoint", fi_scalable_ep |-> "scalable_ep",
                 fi_stx_context |-> "stx_ctx", fi_srx_context |-> "srx_ctx"]
       enables == [fi_ep_bind |-> "bind", fi_scalable_ep_bind |-> "bind",
                   fi_enable |-> "control", fi_ep_alias |-> "control"]
       contexts == [fi_tx_context |-> "tx_ctx", fi_rx_context |-> "rx_ctx",
                    fi_rx_size_left |-> "rx_size_left",
                    fi_tx_size_left |-> "tx_size_left"]
       options == [fi_cancel |-> "cancel", fi_setopt |-> "setopt",
                   fi_getopt |-> "getopt"]
       all == {"fid_ep", "fid_pep", "fid_stx"}
<1>1. \A c \in Forward("fid_fabric", "ops", [fi_passive_ep |-> "passive_ep"]) :
        WellMade(c)
  BY ForwardIsMade, OpsIsSecond DEF Later, HasOp, Ops, fi_ops_fabric
<1>2. \A c \in Forward("fid_domain", "ops", opens) : WellMade(c)
  BY ForwardIsMade, OpsIsSecond DEF Later, HasOp, Ops, fi_ops_domain
<1>3. \A c \in Forward("fid_ep", "fid", enables) : WellMade(c)
  BY ForwardIsMade, FidOfMany DEF Later, HasOp, Ops, fi_ops
<1>4. \A c \in Forward("fid_pep", "fid", [fi_pep_bind |-> "bind"]) : WellMade(c)
  BY ForwardIsMade, FidOfMany DEF Later, HasOp, Ops, fi_ops
<1>5. \A c \in Forward("fid_ep", "ops", contexts) : WellMade(c)
  BY ForwardIsMade, OpsIsSecond DEF Later, HasOp, Ops, fi_ops_ep
<1>6. \A c \in Around(all, "ops", options) : WellMade(c)
  <2>1. \A t \in all : Has(t, 2, "ops", "fi_ops_ep")
    BY OpsIsSecond
  <2>2. \A n \in DOMAIN options : HasOp("fi_ops_ep", options[n])
    BY DEF HasOp, Ops, fi_ops_ep
  <2>3. \A n \in DOMAIN options : <<"fi_ops_ep", options[n]>> \notin Later
    BY DEF Later
  <2>4. Has("fid_ep", 2, "ops", "fi_ops_ep")
    BY <2>1
  <2>. HIDE DEF all, options
  <2>. QED
    BY <2>1, <2>2, <2>3, <2>4, AroundIsMade
<1>7. EpCalls =
        Forward("fid_fabric", "ops", [fi_passive_ep |-> "passive_ep"])
        \cup Forward("fid_domain", "ops", opens)
        \cup Forward("fid_ep", "fid", enables)
        \cup Forward("fid_pep", "fid", [fi_pep_bind |-> "bind"])
        \cup Forward("fid_ep", "ops", contexts)
        \cup Around(all, "ops", options)
  BY Zenon DEF EpCalls
<1>. HIDE DEF opens, enables, contexts, options, all
<1>. QED
  BY <1>1, <1>2, <1>3, <1>4, <1>5, <1>6, <1>7

LEMMA MsgCallsMade == \A c \in MsgCalls : WellMade(c)
  BY ForwardIsMade, OtherMembers
  DEF MsgCalls, Later, HasOp, Ops, fi_ops_msg

LEMMA CmCallsMade == \A c \in CmCalls : WellMade(c)
  BY ForwardIsMade, AroundIsMade, CheckedIsMade, OtherMembers
  DEF CmCalls, Later, HasOp, Ops, fi_ops_cm

LEMMA RmaCallsMade == \A c \in RmaCalls : WellMade(c)
  BY ForwardIsMade, OtherMembers
  DEF RmaCalls, Later, HasOp, Ops, fi_ops_rma

LEMMA TaggedCallsMade == \A c \in TaggedCalls : WellMade(c)
  BY ForwardIsMade, OtherMembers
  DEF TaggedCalls, Later, HasOp, Ops, fi_ops_tagged

LEMMA AtomicCallsMade == \A c \in AtomicCalls : WellMade(c)
  BY ForwardIsMade, CheckedIsMade, OpsIsSecond, OtherMembers
  DEF AtomicCalls, Later, HasOp, Ops, fi_ops_atomic, fi_ops_domain

LEMMA CollectiveCallsMade == \A c \in CollectiveCalls : WellMade(c)
  BY ForwardIsMade, CheckedIsMade, OpsIsSecond, OtherMembers
  DEF CollectiveCalls, Later, HasOp, Ops, fi_ops_collective, fi_ops_cm, fi_ops_domain

LEMMA AvSetCallsMade == \A c \in AvSetCalls : WellMade(c)
  BY ForwardIsMade, CheckedIsMade, OpsIsSecond
  DEF AvSetCalls, Later, HasOp, Ops, fi_ops_av, fi_ops_av_set

LEMMA WaitCallsMade == \A c \in WaitCalls : WellMade(c)
  BY ForwardIsMade, OpsIsSecond
  DEF WaitCalls, Later, HasOp, Ops, fi_ops_fabric, fi_ops_wait, fi_ops_poll

LEMMA EqCallsMade == \A c \in EqCalls : WellMade(c)
  BY ForwardIsMade, OpsIsSecond
  DEF EqCalls, Later, HasOp, Ops, fi_ops_fabric, fi_ops_eq

LEMMA CqCallsMade == \A c \in CqCalls : WellMade(c)
  BY ForwardIsMade, OpsIsSecond
  DEF CqCalls, Later, HasOp, Ops, fi_ops_cq

LEMMA CntrCallsMade == \A c \in CntrCalls : WellMade(c)
  BY ForwardIsMade, CheckedIsMade, OpsIsSecond
  DEF CntrCalls, Later, HasOp, Ops, fi_ops_cntr

LEMMA AllMade == \A c \in AllCalls : WellMade(c)
  BY FidCallsMade, OpenCallsMade, MrCallsMade, AvCallsMade, EpCallsMade,
     MsgCallsMade, CmCallsMade, RmaCallsMade, TaggedCallsMade,
     AtomicCallsMade, CollectiveCallsMade, AvSetCallsMade, WaitCallsMade,
     EqCallsMade, CqCallsMade, CntrCallsMade
  DEF AllCalls

-----------------------------------------------------------------------------
(* The tables that a provider may build.                                         *)

LEMMA CheckedIsAskedFor ==
    ASSUME NEW s, NEW pos, NEW f, NEW T, Has(s, pos, f, T), NEW ops,
           NEW n \in DOMAIN ops, HasOp(T, ops[n])
    PROVE  \E c \in Checked(s, f, ops) :
             c.check /\ c.type = T /\ Ops[T][c.off] = ops[n]
<1>. DEFINE c == Call(n, {s}, s, f, ops[n], TRUE)
<1>1. c \in Checked(s, f, ops)
  BY DEF Checked
<1>2. Compiled(c, {s}, pos, T, ops[n], TRUE)
  BY CallCompiles
<1>. HIDE DEF c
<1>. QED
  BY <1>1, <1>2 DEF Compiled

LEMMA LaterAreAskedFor ==
    \A l \in Later :
      \E c \in AllCalls : c.check /\ c.type = l[1] /\ Ops[c.type][c.off] = l[2]
<1>. DEFINE Asked(T, op) ==
              \E c \in AllCalls : c.check /\ c.type = T /\ Ops[T][c.off] = op
<1>1. Asked("fi_ops", "ops_set")
  <2>. DEFINE c == Call("fi_set_ops", DOMAIN Layout, "fid_ep", "fid", "ops_set", TRUE)
  <2>1. c \in AllCalls
    BY DEF AllCalls, FidCalls
  <2>2. HasOp("fi_ops", "ops_set")
    BY DEF HasOp, Ops, fi_ops
  <2>3. Has("fid_ep", 1, "fid", "fi_ops")
    BY FidOfMany
  <2>4. Compiled(c, DOMAIN Layout, 1, "fi_ops", "ops_set", TRUE)
    BY <2>2, <2>3, CallCompiles
  <2>. HIDE DEF c
  <2>. QED
    BY <2>1, <2>4 DEF Compiled
<1>2. Asked("fi_ops_cm", "join")
  <2>1. HasOp("fi_ops_cm", "join")
    BY DEF HasOp, Ops, fi_ops_cm
  <2>. QED
    BY <2>1, OtherMembers, CheckedIsAskedFor DEF AllCalls, CmCalls
<1>3. Asked("fi_ops_av", "av_set")
  <2>1. HasOp("fi_ops_av", "av_set")
    BY DEF HasOp, Ops, fi_ops_av
  <2>. QED
    BY <2>1, OpsIsSecond, CheckedIsAskedFor DEF AllCalls, AvSetCalls
<1>4. Asked("fi_ops_domain", "query_atomic")
  <2>1. HasOp("fi_ops_domain", "query_atomic")
    BY DEF HasOp, Ops, fi_ops_domain
  <2>. QED
    BY <2>1, OpsIsSecond, CheckedIsAskedFor DEF AllCalls, AtomicCalls
<1>5. Asked("fi_ops_domain", "query_collective")
  <2>1. HasOp("fi_ops_domain", "query_collective")
    BY DEF HasOp, Ops, fi_ops_domain
  <2>. QED
    BY <2>1, OpsIsSecond, CheckedIsAskedFor DEF AllCalls, CollectiveCalls
<1>6. Asked("fi_ops_cntr", "adderr") /\ Asked("fi_ops_cntr", "seterr")
  <2>1. HasOp("fi_ops_cntr", "adderr") /\ HasOp("fi_ops_cntr", "seterr")
    BY DEF HasOp, Ops, fi_ops_cntr
  <2>. QED
    BY <2>1, OpsIsSecond, CheckedIsAskedFor DEF AllCalls, CntrCalls
<1>. QED
  BY <1>1, <1>2, <1>3, <1>4, <1>5, <1>6 DEF Later

LEMMA CheckedAreLater ==
    \A T \in DOMAIN Ops :
      CheckedEntries[T] = {i \in DOMAIN Ops[T] : <<T, Ops[T][i]>> \in Later}
<1>. SUFFICES ASSUME NEW T \in DOMAIN Ops
              PROVE  CheckedEntries[T] =
                       {i \in DOMAIN Ops[T] : <<T, Ops[T][i]>> \in Later}
  OBVIOUS
<1>1. CheckedEntries[T] = {c.off : c \in {d \in AllCalls : d.type = T /\ d.check}}
  BY DEF CheckedEntries
<1>2. ASSUME NEW c \in AllCalls, c.type = T, c.check
      PROVE  c.off \in DOMAIN Ops[T] /\ <<T, Ops[T][c.off]>> \in Later
  BY <1>2, AllMade DEF WellMade
<1>3. ASSUME NEW i \in DOMAIN Ops[T], <<T, Ops[T][i]>> \in Later
      PROVE  \E c \in AllCalls : c.type = T /\ c.check /\ c.off = i
  <2>1. PICK c \in AllCalls : c.check /\ c.type = T /\ Ops[T][c.off] = Ops[T][i]
    BY <1>3, LaterAreAskedFor
  <2>2. c.off \in DOMAIN Ops[T]
    BY <1>2, <2>1
  <2>3. c.off = i
    BY <1>3, <2>1, <2>2
    DEF Later, Ops, fi_ops, fi_ops_cm, fi_ops_av, fi_ops_domain, fi_ops_cntr
  <2>. QED
    BY <2>1, <2>3
<1>. QED
  BY <1>1, <1>2, <1>3

(* The operations that are asked for stand behind all others of their table.      *)
LEMMA LaterAreLast ==
    \A T \in DOMAIN Ops : \A i, j \in DOMAIN Ops[T] :
      i < j /\ <<T, Ops[T][i]>> \in Later => <<T, Ops[T][j]>> \in Later
  BY DEF Later, Ops, fi_ops, fi_ops_cm, fi_ops_av, fi_ops_domain, fi_ops_cntr

LEMMA FirstOfThem ==
    ASSUME NEW T \in DOMAIN Ops, CheckedEntries[T] # {}
    PROVE  Min(CheckedEntries[T]) \in CheckedEntries[T]
<1>. DEFINE S == {i \in DOMAIN Ops[T] : <<T, Ops[T][i]>> \in Later}
<1>1. CheckedEntries[T] = S
  BY CheckedAreLater
<1>2. \E m \in S : \A i \in S : m <= i
  <2>1. T \in {"fi_ops", "fi_ops_cm", "fi_ops_av", "fi_ops_domain", "fi_ops_cntr"}
    BY <1>1 DEF Later
  <2>2. CASE T = "fi_ops"
    <3>1. S = {6}
      BY <2>2 DEF Later, Ops, fi_ops
    <3>. QED
      BY <3>1
  <2>3. CASE T = "fi_ops_cm"
    <3>1. S = {9}
      BY <2>3 DEF Later, Ops, fi_ops_cm
    <3>. QED
      BY <3>1
  <2>4. CASE T = "fi_ops_av"
    <3>1. S = {7}
      BY <2>4 DEF Later, Ops, fi_ops_av
    <3>. QED
      BY <3>1
  <2>5. CASE T = "fi_ops_domain"
    <3>1. S = {9, 10}
      BY <2>5 DEF Later, Ops, fi_ops_domain
    <3>. HIDE DEF S
    <3>. QED
      BY <3>1
  <2>6. CASE T = "fi_ops_cntr"
    <3>1. S = {6, 7}
      BY <2>6 DEF Later, Ops, fi_ops_cntr
    <3>. HIDE DEF S
    <3>. QED
      BY <3>1
  <2>. QED
    BY <2>1, <2>2, <2>3, <2>4, <2>5, <2>6
<1>. HIDE DEF S
<1>. QED
  BY <1>1, <1>2 DEF Min

LEMMA TablesAreSequences == \A T \in DOMAIN Ops : DOMAIN Ops[T] = 1 .. Len(Ops[T])
  BY DEF Ops, fi_ops, fi_ops_fabric, fi_ops_domain, fi_ops_mr, fi_ops_av, fi_ops_ep,
     fi_ops_msg, fi_ops_cm, fi_ops_rma, fi_ops_tagged, fi_ops_atomic,
     fi_ops_collective, fi_ops_av_set, fi_ops_wait, fi_ops_poll, fi_ops_eq,
     fi_ops_cq, fi_ops_cntr

(* FI_CHECK_OP stands where it is needed: a table that a provider may build, even  *)
(* one that ends where the oldest header did, has every operation that a function  *)
(* enters without asking for it.  An inline function that forgot to ask, or an      *)
(* operation put in the middle of a table, would make this false.                   *)
THEOREM OlderTablesSuffice ==
    \A T \in DOMAIN Ops : \A ops \in Built[T] : \A off \in UncheckedEntries(T) :
      off < ops.size /\ off \in ops.has
<1>. SUFFICES ASSUME NEW T \in DOMAIN Ops, NEW ops \in Built[T],
                     NEW off \in UncheckedEntries(T)
              PROVE  off < ops.size /\ off \in ops.has
  OBVIOUS
<1>1. off \in 1 .. Len(Ops[T]) /\ off \notin CheckedEntries[T] /\ Len(Ops[T]) \in Nat
  BY TablesAreSequences DEF UncheckedEntries
<1>. DEFINE built(n, left) == [size |-> n + 1, has |-> (1 .. n) \ left]
<1>2. PICK n \in Oldest(T) .. Len(Ops[T]), left \in SUBSET CheckedEntries[T] :
        ops = built(n, left)
  <2>1. Built[T] = {built(n, left) : n \in Oldest(T) .. Len(Ops[T]),
                                     left \in SUBSET CheckedEntries[T]}
    BY DEF Built
  <2>. HIDE DEF built
  <2>. QED
    BY <2>1
<1>3. CASE CheckedEntries[T] = {}
  BY <1>1, <1>2, <1>3 DEF Oldest
<1>4. CASE CheckedEntries[T] # {}
  <2>. DEFINE m == Min(CheckedEntries[T])
  <2>1. m \in DOMAIN Ops[T] /\ <<T, Ops[T][m]>> \in Later
    BY <1>4, FirstOfThem, CheckedAreLater
  <2>2. <<T, Ops[T][off]>> \notin Later
    BY <1>1, CheckedAreLater, TablesAreSequences
  <2>3. m \in Nat /\ Oldest(T) = m - 1
    BY <1>4, <2>1, TablesAreSequences DEF Oldest
  <2>. HIDE DEF m
  <2>4. off < m
    <3>1. m # off
      BY <2>1, <2>2
    <3>2. off \in DOMAIN Ops[T]
      BY <1>1, TablesAreSequences
    <3>3. ~(m < off)
      BY <2>1, <2>2, <3>2, LaterAreLast
    <3>. QED
      BY <1>1, <2>3, <3>1, <3>3
  <2>. QED
    BY <1>1, <1>2, <2>3, <2>4
<1>. QED
  BY <1>3, <1>4

-----------------------------------------------------------------------------
(* What a call finds in an object that conforms.                                *)

(* A function that does not ask for an operation enters one that no function    *)
(* asks for: one that every table has.                                           *)
LEMMA OthersAreNotAskedFor ==
    \A c \in AllCalls : ~c.check => c.off \in UncheckedEntries(c.type)
<1>. SUFFICES ASSUME NEW c \in AllCalls, ~c.check
              PROVE  c.off \in UncheckedEntries(c.type)
  OBVIOUS
<1>1. WellMade(c)
  BY AllMade
<1>2. ASSUME NEW d \in AllCalls, d.type = c.type, d.check
      PROVE  d.off # c.off
  BY <1>1, <1>2, AllMade DEF WellMade
<1>3. c.off \notin CheckedEntries[c.type]
  BY <1>1, <1>2 DEF CheckedEntries, WellMade
<1>. QED
  BY <1>1, <1>3 DEF UncheckedEntries, WellMade

LEMMA NotToData == "data" \notin DOMAIN Ops
  BY DEF Ops

(* Each function, on each structure that its type lets through, looks at a      *)
(* member that is there, of the type it takes it for, and enters an operation    *)
(* that is there unless it asks for it first: with the definitions of            *)
(* include/*.h, for whatever objects conform.                                     *)
THEOREM HeadersFitAll == HeadersFit
<1>. SUFFICES ASSUME NEW o \in Objects, NEW c \in Calls, Applies(o, c)
              PROVE  Fits(o, c) /\ (c.check \/ Callable(TableOf(o, c), c.off))
  BY DEF HeadersFit
<1>1. c \in AllCalls /\ Conforms(o) /\ o # GONE
  BY ProviderAssumption, DispatchAssumption
<1>2. WellMade(c) /\ o.struct \in c.takes
  BY <1>1, AllMade DEF Applies
<1>. DEFINE members == Layout[o.struct]
<1>3. c.pos \in DOMAIN members /\ members[c.pos][2] = c.type /\ c.type # "data"
  BY <1>2, NotToData DEF WellMade
<1>4. c.pos \in o.asked \cup CheckedMembers(o.struct)
  BY <1>1, <1>2 DEF Applies, CheckedMembers
<1>5. c.pos \in DOMAIN o.slots
  BY <1>1, <1>4 DEF Conforms
<1>6. o.slots[c.pos].type = c.type
  BY <1>1, <1>3, <1>5 DEF Conforms
<1>7. CASE c.check
  BY <1>1, <1>5, <1>6, <1>7 DEF Fits
<1>8. CASE ~c.check
  <2>1. c.pos \in o.asked /\ c.off \in UncheckedEntries(c.type)
    BY <1>1, <1>8, OthersAreNotAskedFor DEF Applies
  <2>2. Callable(o.slots[c.pos].table, c.off)
    BY <1>1, <1>3, <2>1 DEF Conforms
  <2>. QED
    BY <1>1, <1>5, <1>6, <2>2 DEF Fits, TableOf
<1>. QED
  BY <1>7, <1>8

(* So no call of libfabric faults, whatever the threads and the provider do.     *)
THEOREM LibfabricNeverFaults == Spec => []NeverFaults
  BY HeadersFitAll, NoCallFaults

(* A call of libfabric enters the table that the object has at that moment.       *)
THEOREM LibfabricCurrentTable == Spec => EntersCurrentTable
  BY HeadersFitAll, CurrentTable

(* -FI_ENOSYS of libfabric means that the operation is not there.                  *)
THEOREM LibfabricHonestEnosys == Spec => EnosysMeansAbsent
  BY HeadersFitAll, HonestEnosys
=============================================================================
