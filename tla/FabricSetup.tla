---------------------------- MODULE FabricSetup ----------------------------
(***************************************************************************)
(* init_fabric of Scalable.hs with the functions it calls: ft_getinfo,     *)
(* ft_open_fabric_res, alloc_ep_res and bind_ep_res.  One action is one    *)
(* libfabric call together with the Haskell code around it; the provider   *)
(* may refuse any call.  The Env record holds pointers to memory cells     *)
(* that `scalable` allocates and never initialises, so a cell that no      *)
(* successful call has written holds junk, or a handle that an earlier     *)
(* call of `scalable` left in the same block and nobody has closed.        *)
(***************************************************************************)
EXTENDS Integers

CONSTANTS CtxCounts,    \* the values of Env.ctx_cnt considered (2 in scalable)
          ProvCounts,   \* how many contexts the provider may support
          Codes         \* nonzero codes libfabric calls fail with

ASSUME CtxCountsAssumption == CtxCounts \subseteq Nat
ASSUME ProvCountsAssumption == ProvCounts \subseteq Nat
ASSUME CodesAssumption == Codes \subseteq Int \ {0}

VARIABLES
  ctx_cnt,      \* Env.ctx_cnt
  ep_ctx_cnt,   \* tx_ctx_cnt = rx_ctx_cnt poked into fi->ep_attr
  cell,         \* what the cells fi, fab, eq, domain and sep hold
  slot,         \* what the arrays tx_ep, rx_ep, txcq_array, rxcq_array hold
  peeked,       \* handles read into local names before they are used
  pc,           \* the call about to be made, or the one that ended the run
  i,            \* the context a loop is at
  status,       \* "running", "returned" or "crashed"
  ret,          \* what init_fabric returned
  parent,       \* the handle through which eq, domain and sep were opened
  cq_domains,   \* the domains completion queues were opened on
  bound, enabled, posted,   \* endpoints whose bind, enable, recv returned 0
  swallowed,    \* calls that failed and whose code was dropped
  wild          \* calls made through something that is not a live handle

env == <<ctx_cnt, ep_ctx_cnt>>
memory == <<cell, slot, peeked>>
opened == <<parent, cq_domains>>
contexts == <<bound, enabled, posted>>
ghosts == <<swallowed, wild>>
vars == <<env, memory, pc, i, status, ret, opened, contexts, ghosts>>

Cells == {"fi", "fab", "eq", "domain", "sep"}
Arrays == {"tx_ep", "rx_ep", "txcq_array", "rxcq_array"}
Content == {"junk", "old", "new"}   \* "new": opened by this call
Ctx == 0 .. (ctx_cnt - 1)

\* A call through live handles does what it says; if one of them is not, it
\* crashes, or returns some code, which may be 0 though nothing was done.
Live(h) == h \in {"old", "new"}
Worse(h, other) == IF Live(h) THEN other ELSE h

\* advancePtr of the dereferenced array: the object of context 0, moved on by
\* k objects, which is not the object of context k.
Advance(array, k) == IF k = 0 THEN slot[array][0] ELSE "stray"

\* The Env passed to bind_ep_res holds a struct fid_av that nothing opens.
AvHandle == "junk"

-----------------------------------------------------------------------------
\* scalable: every cell of the freshly allocated blocks holds the same kind of
\* leftovers.
Init ==
  /\ ctx_cnt \in CtxCounts
  /\ ep_ctx_cnt = 0
  /\ \E left \in {"junk", "old"} :
       /\ cell = [c \in Cells |-> left]
       /\ slot = [a \in Arrays |-> [k \in Ctx |-> left]]
       /\ peeked = [fab |-> left, domain |-> left]
  /\ pc = "fi_getinfo" /\ i = 0 /\ status = "running" /\ ret = 0
  /\ parent = [eq |-> "none", domain |-> "none", sep |-> "none"]
  /\ cq_domains = {}
  /\ bound = {} /\ enabled = {} /\ posted = {}
  /\ swallowed = {} /\ wild = {}

At(label) == status = "running" /\ pc = label
Goto(label) == pc' = label /\ UNCHANGED <<status, ret>>
Return(code) == status' = "returned" /\ ret' = code /\ UNCHANGED <<pc, i>>

Used(h) == wild' = IF Live(h) THEN wild ELSE wild \cup {pc}
Swallows == swallowed' = swallowed \cup {pc}

\* Mutant: the chain stops at a failing call but reports success.
RefusedAsSuccess(h) ==
  /\ Return(0)
  /\ Used(h)
  /\ UNCHANGED <<env, memory, opened, contexts, swallowed>>

\* A call of the |-> chain returns nonzero: init_fabric returns that code.
Refused(h) ==
  /\ \E code \in Codes : Return(code)
  /\ Used(h)
  /\ UNCHANGED <<env, memory, opened, contexts, swallowed>>

\* A call through a bad pointer takes the process down.
Crashes(h) ==
  /\ ~Live(h)
  /\ status' = "crashed"
  /\ Used(h)
  /\ UNCHANGED <<env, memory, pc, i, ret, opened, contexts, swallowed>>

-----------------------------------------------------------------------------
\* ft_getinfo returns 0 whatever fi_getinfo returned.
FtGetinfo ==
  /\ At("fi_getinfo")
  /\ Goto("ctx_count")
  /\ \/ cell' = [cell EXCEPT !.fi = "new"] /\ UNCHANGED swallowed
     \/ Swallows /\ UNCHANGED cell
  /\ UNCHANGED <<env, slot, peeked, i, opened, contexts, wild>>

\* init_fabric clips the number of contexts in fi->ep_attr only, gives up when
\* none is left, and reads domain and fab before they are opened.  Through a
\* bad fi it finds any numbers.
ClipContexts ==
  /\ At("ctx_count")
  /\ Used(cell.fi)
  /\ \E tx, rx \in ProvCounts : \E least \in {ctx_cnt, tx, rx} :
       /\ least <= ctx_cnt /\ least <= tx /\ least <= rx
       /\ IF least = 0
            THEN Return(1) /\ UNCHANGED <<ep_ctx_cnt, peeked>>
            ELSE /\ ep_ctx_cnt' = least
                 /\ peeked' = [fab |-> cell.fab, domain |-> cell.domain]
                 /\ Goto("fi_fabric")
                 /\ UNCHANGED i
  /\ UNCHANGED <<ctx_cnt, cell, slot, opened, contexts, swallowed>>

InfoCrashes == At("ctx_count") /\ Crashes(cell.fi)

\* ft_open_fabric_res: fi_fabric |-> fi_eq_open |-> fi_domain.
FiFabric ==
  /\ At("fi_fabric")
  /\ \/ /\ \/ cell' = [cell EXCEPT !.fab = "new"]
           \/ ~Live(cell.fi) /\ UNCHANGED cell
        /\ Goto("fi_eq_open")
        /\ Used(cell.fi)
        /\ UNCHANGED <<env, slot, peeked, i, opened, contexts, swallowed>>
     \/ Refused(cell.fi)
     \/ Crashes(cell.fi)

\* Mutant: the chain goes on after a failing call.
OpensOrNot(object, h, info, next) ==
  /\ \/ /\ cell' = [cell EXCEPT ![object] = "new"]
        /\ parent' = [parent EXCEPT ![object] = h]
     \/ UNCHANGED <<cell, parent>>
  /\ Goto(next)
  /\ Used(Worse(h, info))
  /\ UNCHANGED <<env, slot, peeked, i, cq_domains, contexts, swallowed>>

\* A call that opens `object` through handle h, as fi_info `info` asks, and
\* stores it in its cell.
Opens(object, h, info, next) ==
  \/ /\ \/ /\ Live(h)
           /\ cell' = [cell EXCEPT ![object] = "new"]
           /\ parent' = [parent EXCEPT ![object] = h]
        \/ ~Live(Worse(h, info)) /\ UNCHANGED <<cell, parent>>
     /\ Goto(next)
     /\ Used(Worse(h, info))
     /\ UNCHANGED <<env, slot, peeked, i, cq_domains, contexts, swallowed>>
  \/ Refused(Worse(h, info))
  \/ Crashes(Worse(h, info))

\* Mutant: the domain is opened on the fabric the cell now holds.
FiDomainOnCell ==
  At("fi_domain") /\ Opens("domain", cell.fab, cell.fi, "fi_scalable_ep")

FiEqOpen == At("fi_eq_open") /\ Opens("eq", peeked.fab, "new", "fi_domain")
FiDomain ==
  At("fi_domain") /\ Opens("domain", peeked.fab, cell.fi, "fi_scalable_ep")
FiScalableEp ==
  /\ At("fi_scalable_ep")
  /\ Opens("sep", peeked.domain, cell.fi, "ft_alloc_ep_res")

-----------------------------------------------------------------------------
\* alloc_ep_res starts with ft_alloc_ep_res, which opens the default CQs on the
\* domain and returns 0 even when it could not (module EpResources).
FtAllocEpRes ==
  /\ At("ft_alloc_ep_res")
  /\ \/ /\ Goto("fi_tx_context")
        /\ IF Live(cell.domain)
             THEN \/ cq_domains' = cq_domains \cup {cell.domain}
                     /\ UNCHANGED swallowed
                  \/ Swallows /\ UNCHANGED cq_domains
             ELSE UNCHANGED <<cq_domains, swallowed>>
        /\ Used(Worse(cell.domain, cell.fi))
        /\ UNCHANGED <<env, memory, i, parent, contexts>>
     \/ Crashes(Worse(cell.domain, cell.fi))

\* Mutants: the loop runs once too often; it misses the last context; it never
\* advances.
NextContextOneMore(again, after) ==
  IF i < ctx_cnt THEN i' = i + 1 /\ Goto(again)
                 ELSE i' = 0 /\ Goto(after)
NextContextOneLess(again, after) ==
  IF i + 2 < ctx_cnt THEN i' = i + 1 /\ Goto(again)
                     ELSE i' = 0 /\ Goto(after)
NextContextStuck(again, after) == UNCHANGED i /\ Goto(again)

NextContext(again, after) ==
  IF i + 1 < ctx_cnt THEN i' = i + 1 /\ Goto(again)
                     ELSE i' = 0 /\ Goto(after)

\* One call of the loop of alloc_ep_res, through handle h: a success fills
\* array[i], a failure leaves it as it was, and the code is dropped either way.
FillsSlot(array, h, room) ==
  /\ Live(h) /\ room
  /\ slot' = [slot EXCEPT ![array][i] = "new"]
  /\ UNCHANGED <<swallowed, wild>>

LeavesSlot(h) ==
  /\ IF Live(h) THEN Swallows
                ELSE Swallows \/ UNCHANGED swallowed
  /\ Used(h)
  /\ UNCHANGED <<slot, cq_domains>>

\* The scalable endpoint has contexts 0 .. ep_ctx_cnt - 1.
FiContext(label, array, next) ==
  /\ At(label)
  /\ \/ /\ \/ FillsSlot(array, cell.sep, i < ep_ctx_cnt) /\ UNCHANGED cq_domains
           \/ LeavesSlot(cell.sep)
        /\ Goto(next)
        /\ UNCHANGED <<env, cell, peeked, i, parent, contexts>>
     \/ Crashes(cell.sep)

\* Mutant: the queues use the domain handle init_fabric read at the start.
FiCqOpenOnPeeked(label, array) ==
  /\ At(label)
  /\ \/ /\ \/ /\ FillsSlot(array, peeked.domain, TRUE)
              /\ cq_domains' = cq_domains \cup {peeked.domain}
           \/ LeavesSlot(peeked.domain)
        /\ IF array = "txcq_array"
             THEN Goto("fi_rx_context") /\ UNCHANGED i
             ELSE NextContext("fi_tx_context", "fi_scalable_ep_bind")
        /\ UNCHANGED <<env, cell, peeked, parent, contexts>>
     \/ Crashes(peeked.domain)

FiCqOpen(label, array) ==
  /\ At(label)
  /\ \/ /\ \/ /\ FillsSlot(array, cell.domain, TRUE)
              /\ cq_domains' = cq_domains \cup {cell.domain}
           \/ LeavesSlot(cell.domain)
        /\ IF array = "txcq_array"
             THEN Goto("fi_rx_context") /\ UNCHANGED i
             ELSE NextContext("fi_tx_context", "fi_scalable_ep_bind")
        /\ UNCHANGED <<env, cell, peeked, parent, contexts>>
     \/ Crashes(cell.domain)

TxContext == FiContext("fi_tx_context", "tx_ep", "fi_cq_open_tx")
TxCqOpen == FiCqOpen("fi_cq_open_tx", "txcq_array")
RxContext == FiContext("fi_rx_context", "rx_ep", "fi_cq_open_rx")
RxCqOpen == FiCqOpen("fi_cq_open_rx", "rxcq_array")

-----------------------------------------------------------------------------
\* bind_ep_res returns 0 whatever its chain returned.
Sep == <<"sep", 0>>

BindSep ==
  /\ At("fi_scalable_ep_bind")
  /\ \/ /\ bound' = bound \cup {Sep}
        /\ Goto("tx_bind")
        /\ Used(AvHandle)
        /\ UNCHANGED <<env, memory, i, opened, enabled, posted, swallowed>>
     \/ /\ Swallows /\ Return(0) /\ Used(AvHandle)
        /\ UNCHANGED <<env, memory, opened, contexts>>
     \/ Crashes(AvHandle)

\* A call on the endpoint of context i fails: the rest of that context's chain
\* is skipped, the code is dropped, and the loop goes on.
ContextRefused(h, again, after) ==
  /\ Swallows
  /\ Used(h)
  /\ NextContext(again, after)
  /\ UNCHANGED <<env, memory, opened, contexts>>

\* fi_ep_bind of the i-th endpoint to the i-th CQ: bad if either pointer is.
BindHandle(array, cqs) == Worse(Advance(cqs, i), Advance(array, i))

\* Mutant: a context's chain goes on after its bind has failed.
EpBindOrNot(label, array, cqs, next, after) ==
  LET h == BindHandle(array, cqs)
  IN /\ At(label)
     /\ \/ bound' = bound \cup {<<array, i>>} /\ UNCHANGED swallowed
        \/ Swallows /\ UNCHANGED bound
     /\ Goto(next)
     /\ Used(h)
     /\ UNCHANGED <<env, memory, i, opened, enabled, posted>>

EpBind(label, array, cqs, next, after) ==
  LET h == BindHandle(array, cqs)
  IN /\ At(label)
     /\ \/ /\ bound' = bound \cup {<<array, i>>}
           /\ Goto(next)
           /\ Used(h)
           /\ UNCHANGED <<env, memory, i, opened, enabled, posted, swallowed>>
        \/ ContextRefused(h, label, after)
        \/ Crashes(h)

TxBind == EpBind("tx_bind", "tx_ep", "txcq_array", "tx_enable", "rx_bind")
RxBind == EpBind("rx_bind", "rx_ep", "rxcq_array", "rx_enable", "sep_enable")

TxEnable ==
  LET h == Advance("tx_ep", i)
  IN /\ At("tx_enable")
     /\ \/ /\ enabled' = enabled \cup {<<"tx_ep", i>>}
           /\ NextContext("tx_bind", "rx_bind")
           /\ Used(h)
           /\ UNCHANGED <<env, memory, opened, bound, posted, swallowed>>
        \/ ContextRefused(h, "tx_bind", "rx_bind")
        \/ Crashes(h)

RxEnable ==
  LET h == Advance("rx_ep", i)
  IN /\ At("rx_enable")
     /\ \/ /\ enabled' = enabled \cup {<<"rx_ep", i>>}
           /\ Goto("rx_recv")
           /\ Used(h)
           /\ UNCHANGED <<env, memory, i, opened, bound, posted, swallowed>>
        \/ ContextRefused(h, "rx_bind", "sep_enable")
        \/ Crashes(h)

RxRecv ==
  LET h == Advance("rx_ep", i)
  IN /\ At("rx_recv")
     /\ \/ /\ posted' = posted \cup {<<"rx_ep", i>>}
           /\ NextContext("rx_bind", "sep_enable")
           /\ Used(h)
           /\ UNCHANGED <<env, memory, opened, bound, enabled, swallowed>>
        \/ ContextRefused(h, "rx_bind", "sep_enable")
        \/ Crashes(h)

EnableSep ==
  /\ At("sep_enable")
  /\ \/ /\ \/ enabled' = enabled \cup {Sep} /\ UNCHANGED swallowed
           \/ Swallows /\ UNCHANGED enabled
        /\ Return(0)
        /\ Used(cell.sep)
        /\ UNCHANGED <<env, memory, opened, bound, posted>>
     \/ Crashes(cell.sep)

Finished == status # "running" /\ UNCHANGED vars

Next ==
  \/ FtGetinfo \/ ClipContexts \/ InfoCrashes
  \/ FiFabric \/ FiEqOpen \/ FiDomain \/ FiScalableEp
  \/ FtAllocEpRes \/ TxContext \/ TxCqOpen \/ RxContext \/ RxCqOpen
  \/ BindSep \/ TxBind \/ TxEnable \/ RxBind \/ RxEnable \/ RxRecv \/ EnableSep
  \/ Finished

Spec == Init /\ [][Next]_vars

\* The process runs on: no call blocks.
FairSpec == Spec /\ WF_vars(Next)

-----------------------------------------------------------------------------
Labels == {"fi_getinfo", "ctx_count", "fi_fabric", "fi_eq_open", "fi_domain",
           "fi_scalable_ep", "ft_alloc_ep_res", "fi_tx_context",
           "fi_cq_open_tx", "fi_rx_context", "fi_cq_open_rx",
           "fi_scalable_ep_bind", "tx_bind", "tx_enable", "rx_bind",
           "rx_enable", "rx_recv", "sep_enable"}
AllocLoop == {"fi_tx_context", "fi_cq_open_tx", "fi_rx_context",
              "fi_cq_open_rx"}
TxLoop == {"tx_bind", "tx_enable"}
RxLoop == {"rx_bind", "rx_enable", "rx_recv"}
Endpoints == {Sep} \cup ({"tx_ep", "rx_ep"} \X Ctx)

ControlOK ==
  /\ pc \in Labels
  /\ i \in Nat
  /\ (pc \in AllocLoop \cup TxLoop \cup RxLoop => i \in Ctx)
  /\ status \in {"running", "returned", "crashed"}
  /\ ret \in Codes \cup {0, 1}

MemoryOK ==
  /\ ctx_cnt \in CtxCounts /\ ep_ctx_cnt \in Nat
  /\ cell \in [Cells -> Content]
  /\ slot \in [Arrays -> [Ctx -> Content]]
  /\ peeked \in [{"fab", "domain"} -> Content]

ObjectsOK ==
  /\ parent \in [{"eq", "domain", "sep"} -> Content \cup {"none"}]
  /\ cq_domains \subseteq Content
  /\ bound \subseteq Endpoints
  /\ enabled \subseteq Endpoints
  /\ posted \subseteq Endpoints

GhostsOK == swallowed \subseteq Labels /\ wild \subseteq Labels

\* Every variable of init_fabric's run has a value of its kind; in particular
\* the loops never index a context that Env does not have.
TypeOK == ControlOK /\ MemoryOK /\ ObjectsOK /\ GhostsOK

\* No endpoint is enabled before it is bound, and no receive is posted on one
\* that is not enabled, whatever calls bind_ep_res sees fail.
EnabledAfterBound == enabled \subseteq bound /\ posted \subseteq enabled

\* The event queue and the domain are opened through one fabric handle, even
\* when that is not the fabric this call opened.
EqAndDomainShareFabric ==
  parent.eq # "none" /\ parent.domain # "none" => parent.eq = parent.domain

\* Unlike the endpoint, the completion queues go on the domain that this call
\* opened: alloc_ep_res reads the cell again for every queue.
CqsOnOpenedDomain ==
  "fi_domain" \in wild \/ cq_domains \subseteq {"new"}

\* When init_fabric reaches alloc_ep_res the earlier calls really opened their
\* objects, but for those made through a bad handle.
StagesBehind ==
  pc \in {"ft_alloc_ep_res", "fi_scalable_ep_bind", "sep_enable"}
      \cup AllocLoop \cup TxLoop \cup RxLoop =>
    /\ cell.fab = "new" \/ "fi_fabric" \in wild
    /\ cell.eq = "new" \/ "fi_eq_open" \in wild
    /\ cell.domain = "new" \/ "fi_domain" \in wild
    /\ cell.sep = "new" \/ "fi_scalable_ep" \in wild

\* init_fabric returns 0 only after it has bound, enabled and given a receive
\* to every context of Env and enabled the endpoint, unless it dropped a
\* failure on the way: no context is skipped silently.
AllEndpointsReady ==
  /\ bound = Endpoints /\ enabled = Endpoints
  /\ posted = {"rx_ep"} \X Ctx
ZeroMeansReady ==
  status = "returned" /\ ret = 0 => AllEndpointsReady \/ swallowed # {}

\* init_fabric implements the chain of its seven stages: the first
\* that returns nonzero decides the code, and no later one runs.
StageOf ==
  CASE pc \in {"fi_getinfo", "ctx_count"} -> 1
    [] pc = "fi_fabric" -> 2
    [] pc = "fi_eq_open" -> 3
    [] pc = "fi_domain" -> 4
    [] pc = "fi_scalable_ep" -> 5
    [] pc \in AllocLoop \cup {"ft_alloc_ep_res"} -> 6
    [] OTHER -> 7
Chain == INSTANCE FirstFailure
           WITH Stages <- 7, Codes <- Codes \cup {1},
                stage <- StageOf, result <- ret
ChainOfStages == Chain!ChainSpec

\* init_fabric ends: both loops of alloc_ep_res and bind_ep_res run out.
Terminates == <>(status # "running")

-----------------------------------------------------------------------------
\* The C reference opens every object on the one it has opened just before
\* (Scalable.hs:1110, 549); ft_open_fabric_res and init_fabric read the cells
\* before those are filled.
OpensOnNewParent ==
  /\ At("fi_eq_open") \/ At("fi_domain") => peeked.fab = cell.fab
  /\ At("fi_scalable_ep") => peeked.domain = cell.domain

\* The C reference returns the failure of any call to its caller
\* (Scalable.hs:347-391), so that 0 means that none failed.
FailuresReported == status = "returned" /\ ret = 0 => swallowed = {}

\* The C reference binds tx_ep[i] to txcq_array[i] (Scalable.hs:353).
BindsOwnContext ==
  At("tx_bind") => Advance("tx_ep", i) = slot["tx_ep"][i]
=============================================================================
