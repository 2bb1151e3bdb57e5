----------------------------- MODULE EpResources -----------------------------
(***************************************************************************)
(* ft_alloc_ep_res of Scalable.hs: the default completion queues and       *)
(* counters of an endpoint, opened with one cq_attr that every step        *)
(* updates in place, and the queues of the contexts that alloc_ep_res then *)
(* opens with what is left in it.  One action is one libfabric call with   *)
(* the updates that lead to it.  The domain is open (module FabricSetup);  *)
(* cq_attr and cntr_attr start uninitialised.                              *)
(***************************************************************************)
EXTENDS Integers

CONSTANTS CqSizes,      \* values of opts.tx_cq_size and opts.rx_cq_size
          TxAttrSize, RxAttrSize   \* queue sizes the provider suggests

ASSUME SizesAssumption ==
  CqSizes \subseteq Nat /\ TxAttrSize \in Nat /\ RxAttrSize \in Nat

VARIABLES
  opts,        \* the fields of opts, and fi->caps, that the function reads
  cq_attr,     \* format, size, wait_obj and wait_cond; -1 is uninitialised
  cntr_attr,   \* wait_obj of the counter attributes
  cell,        \* what the cells txcq, rxcq, txcntr and rxcntr hold
  opened,      \* the attributes each object was opened with
  refused,     \* objects the provider did not open
  pc, ret

vars == <<opts, cq_attr, cntr_attr, cell, opened, refused, pc, ret>>

\* enum fi_wait_obj
FI_WAIT_NONE == 0
FI_WAIT_UNSPEC == 1
FI_WAIT_SET == 2
FI_WAIT_FD == 3
FI_WAIT_YIELD == 5

FI_CQ_FORMAT_CONTEXT == 1
FI_CQ_FORMAT_TAGGED == 4

Objects == {"txcq", "rxcq", "txcntr", "rxcntr", "context cq"}
Queues == {"txcq", "rxcq", "context cq"}

Uninit == -1
NotOpened == [format |-> Uninit, size |-> Uninit,
              wait_obj |-> Uninit, wait_cond |-> Uninit]

Init ==
  /\ opts \in [shared : BOOLEAN, tx_cntr : BOOLEAN, rx_cntr : BOOLEAN,
               comp_method : 0 .. 5, tx_cq_size : CqSizes,
               rx_cq_size : CqSizes, tagged : BOOLEAN]
  \* What the block happens to hold decides whether the format is set.
  /\ \E format \in {Uninit, 0} : cq_attr = [NotOpened EXCEPT !.format = format]
  /\ cntr_attr = Uninit
  /\ cell = [c \in {"txcq", "rxcq", "txcntr", "rxcntr"} |-> "junk"]
  /\ opened = [o \in Objects |-> NotOpened]
  /\ refused = {}
  /\ pc = "txcq" /\ ret = Uninit

\* The wait object that ft_cq_set_wait_attr stores for a completion method.
CqWaitObj(method) ==
  CASE method = 1 -> FI_WAIT_UNSPEC
    [] method = 2 -> FI_WAIT_SET
    [] method = 3 -> FI_WAIT_FD
    [] method = 4 -> FI_WAIT_YIELD
    [] OTHER -> FI_WAIT_NONE

\* Mutant: the yield method taken for the next number of the enumeration.
CntrWaitObjInOrder(method) ==
  IF method \in 1 .. 4 THEN method ELSE FI_WAIT_NONE

\* The one that ft_cntr_set_wait_attr stores.
CntrWaitObj(method) ==
  CASE method = 1 -> FI_WAIT_UNSPEC
    [] method = 2 -> FI_WAIT_SET
    [] method = 3 -> FI_WAIT_FD
    [] method = 4 -> FI_WAIT_YIELD
    [] OTHER -> FI_WAIT_NONE

\* ft_cq_set_wait_attr; the wait condition it stores, 1, is not the one that it
\* names, FI_CQ_COND_NONE, which is 0.
WithWait(attr) ==
  [attr EXCEPT !.wait_obj = CqWaitObj(opts.comp_method),
               !.wait_cond = IF opts.comp_method \in 1 .. 4 THEN 1 ELSE @]

\* Mutant: only tagged endpoints get a format.
WithFormatTagged(attr) ==
  IF attr.format = 0 /\ opts.tagged
    THEN [attr EXCEPT !.format = FI_CQ_FORMAT_TAGGED] ELSE attr

\* The format is chosen when the block happens to hold FI_CQ_FORMAT_UNSPEC.
WithFormat(attr) ==
  IF attr.format # 0 THEN attr
  ELSE [attr EXCEPT !.format = IF opts.tagged THEN FI_CQ_FORMAT_TAGGED
                                              ELSE FI_CQ_FORMAT_CONTEXT]

\* Mutant: a shared queue gets no room for the receives.
TxSizeAlone ==
  IF opts.tx_cq_size # 0 THEN opts.tx_cq_size ELSE TxAttrSize

\* The transmit queue gets the size asked for, or the provider's; a shared one
\* also gets room for the receives.
TxSize ==
  LET tx == IF opts.tx_cq_size # 0 THEN opts.tx_cq_size ELSE TxAttrSize
      rx == IF opts.rx_cq_size # 0 THEN opts.rx_cq_size ELSE RxAttrSize
  IN IF opts.shared THEN tx + rx ELSE tx

\* The receive queue's size is decided by looking at tx_cq_size.
RxSize ==
  IF opts.tx_cq_size # 0 THEN opts.rx_cq_size ELSE RxAttrSize

\* An open call: its code is looked at, printed and dropped.
TryOpen(object, attr) ==
  \/ /\ opened' = [opened EXCEPT ![object] = attr]
     /\ UNCHANGED refused
  \/ /\ refused' = refused \cup {object}
     /\ UNCHANGED opened

\* Fills a cell when the open call of the same step succeeded.
Stores(object) ==
  cell' = IF object \in refused' THEN cell ELSE [cell EXCEPT ![object] = object]

-----------------------------------------------------------------------------
\* Mutant: the shared queue is not made the receive queue as well.
OpenTxCqUnshared ==
  /\ pc = "txcq"
  /\ cq_attr' = [WithWait(WithFormat(cq_attr)) EXCEPT !.size = TxSize]
  /\ TryOpen("txcq", cq_attr')
  /\ Stores("txcq")
  /\ pc' = "txcntr"
  /\ UNCHANGED <<opts, cntr_attr, ret>>

OpenTxCq ==
  /\ pc = "txcq"
  /\ cq_attr' = [WithWait(WithFormat(cq_attr)) EXCEPT !.size = TxSize]
  /\ TryOpen("txcq", cq_attr')
  /\ LET tx == IF "txcq" \in refused' THEN cell.txcq ELSE "txcq"
     IN cell' = [cell EXCEPT !.txcq = tx,
                             !.rxcq = IF opts.shared THEN tx ELSE @]
  /\ pc' = "txcntr"
  /\ UNCHANGED <<opts, cntr_attr, ret>>

\* ft_cntr_open: ft_cntr_set_wait_attr writes cq_attr, not cntr_attr.
OpenCntr(object, wanted, next) ==
  /\ pc = object
  /\ IF wanted
       THEN /\ cq_attr' = [cq_attr EXCEPT
                              !.wait_obj = CntrWaitObj(opts.comp_method)]
            /\ TryOpen(object,
                       [NotOpened EXCEPT !.wait_obj = cntr_attr, !.size = 0])
            /\ Stores(object)
       ELSE UNCHANGED <<cq_attr, opened, refused, cell>>
  /\ pc' = next
  /\ UNCHANGED <<opts, cntr_attr, ret>>

OpenTxCntr == OpenCntr("txcntr", opts.tx_cntr, "rxcq")

OpenRxCq ==
  /\ pc = "rxcq"
  /\ IF opts.shared
       THEN UNCHANGED <<cq_attr, opened, refused, cell>>
       ELSE /\ cq_attr' = [WithWait(cq_attr) EXCEPT !.size = RxSize]
            /\ TryOpen("rxcq", cq_attr')
            /\ Stores("rxcq")
  /\ pc' = "rxcntr"
  /\ UNCHANGED <<opts, cntr_attr, ret>>

OpenRxCntr == OpenCntr("rxcntr", opts.rx_cntr, "return")

\* ft_alloc_ep_res ends without opening an address vector and returns 0.
ReturnZero ==
  /\ pc = "return"
  /\ ret' = 0
  /\ pc' = "context cq"
  /\ UNCHANGED <<opts, cq_attr, cntr_attr, cell, opened, refused>>

\* The queues of alloc_ep_res, all opened with the same attributes.
OpenContextCqs ==
  /\ pc = "context cq"
  /\ TryOpen("context cq", cq_attr)
  /\ pc' = "done"
  /\ UNCHANGED <<opts, cq_attr, cntr_attr, cell, ret>>

Finished == pc = "done" /\ UNCHANGED vars

Next == \/ OpenTxCq \/ OpenTxCntr \/ OpenRxCq \/ OpenRxCntr
        \/ ReturnZero \/ OpenContextCqs \/ Finished

Spec == Init /\ [][Next]_vars

-----------------------------------------------------------------------------
\* Every variable has a value of its kind, and no queue is opened with an
\* unspecified entry format (0), which wait_for_comp's buffer does not fit.
TypeOK ==
  /\ cq_attr \in [format : Int, size : Int, wait_obj : Int, wait_cond : Int]
  /\ cntr_attr \in Int
  /\ cell \in [{"txcq", "rxcq", "txcntr", "rxcntr"} ->
                 {"junk", "txcq", "rxcq", "txcntr", "rxcntr"}]
  /\ \A q \in Queues : opened[q].format # 0
  /\ refused \subseteq Objects
  /\ pc \in {"txcq", "txcntr", "rxcq", "rxcntr", "return", "context cq", "done"}
  /\ ret \in {Uninit, 0}

IsOpen(o) == opened[o] # NotOpened

\* Every queue, the per-context ones included, is opened with the wait object
\* of the completion method, although the counters' set-up in between writes
\* to the attributes of the queues.
QueuesWaitAsAsked ==
  \A q \in Queues :
    IsOpen(q) => opened[q].wait_obj = CqWaitObj(opts.comp_method)

\* With FT_OPT_CQ_SHARED both cells denote one queue, also when it could not be
\* opened; without it they never denote the same queue.
SharedQueueIsOne ==
  pc # "txcq" =>
    IF opts.shared THEN cell.rxcq = cell.txcq /\ ~IsOpen("rxcq")
                   ELSE cell.rxcq = cell.txcq => cell.rxcq = "junk"

Needed(size, suggested) == IF size # 0 THEN size ELSE suggested

\* Whatever mix of sizes is asked for, the queue that the sends complete on has
\* room for them, and for the receives as well when they complete there too.
TransmitsFit ==
  LET sends == Needed(opts.tx_cq_size, TxAttrSize)
      receives == Needed(opts.rx_cq_size, RxAttrSize)
  IN cell.txcq = "txcq" =>
       opened.txcq.size >= sends + IF cell.rxcq = "txcq" THEN receives ELSE 0
=============================================================================
