-------------------------- MODULE EpResources_proofs --------------------------
(***************************************************************************)
(* EpResources for queue sizes of any kind: the one cq_attr that every step *)
(* updates in place has the right contents whenever a queue is opened with *)
(* it.                                                                      *)
(***************************************************************************)
EXTENDS EpResources, TLAPS

Attr == [format : Int, size : Int, wait_obj : Int, wait_cond : Int]
Cells == {"txcq", "rxcq", "txcntr", "rxcntr"}

OptsOK ==
  opts \in [shared : BOOLEAN, tx_cntr : BOOLEAN, rx_cntr : BOOLEAN,
            comp_method : 0 .. 5, tx_cq_size : CqSizes,
            rx_cq_size : CqSizes, tagged : BOOLEAN]
OpenedOK == opened \in [Objects -> Attr]

\* From the first open call on, cq_attr is fit to open a queue with.
AttrFit ==
  pc # "txcq" => /\ cq_attr.format # 0
                 /\ cq_attr.wait_obj = CqWaitObj(opts.comp_method)

\* What has not been called yet has opened nothing.
NotYet ==
  /\ pc = "txcq" => \A o \in Objects : opened[o] = NotOpened
  /\ pc \in {"txcq", "txcntr", "rxcq"} => opened["rxcq"] = NotOpened
  /\ pc # "done" => opened["context cq"] = NotOpened

\* The queue cells hold the queue that was opened for them, or a shared one.
CellsOK ==
  /\ cell["txcq"] \in {"junk", "txcq"}
  /\ cell["rxcq"] \in {"junk", "rxcq", "txcq"}
  /\ cell["rxcq"] = "txcq" => opts.shared
  /\ cell["rxcq"] = "rxcq" => ~opts.shared
  /\ pc = "txcq" => cell["txcq"] = "junk" /\ cell["rxcq"] = "junk"
  /\ cell["txcq"] = "txcq" => opened["txcq"].size = TxSize

TypeInv == TypeOK /\ OptsOK /\ OpenedOK
IInv ==
  /\ TypeInv /\ AttrFit /\ NotYet /\ CellsOK
  /\ QueuesWaitAsAsked /\ SharedQueueIsOne

USE SizesAssumption DEF Objects, Queues, Uninit

-----------------------------------------------------------------------------
\* The two translations of a completion method agree, and give a wait object.
LEMMA SameWaitObj ==
  ASSUME NEW method \in 0 .. 5
  PROVE  CntrWaitObj(method) = CqWaitObj(method) /\ CqWaitObj(method) \in 0 .. 5
BY DEF CntrWaitObj, CqWaitObj, FI_WAIT_NONE, FI_WAIT_UNSPEC, FI_WAIT_SET,
       FI_WAIT_FD, FI_WAIT_YIELD

\* Setting the wait attributes touches neither the format nor the size.
LEMMA WithWaitOK ==
  ASSUME OptsOK, NEW attr \in Attr
  PROVE  /\ WithWait(attr) \in Attr
         /\ WithWait(attr).wait_obj = CqWaitObj(opts.comp_method)
         /\ WithWait(attr).format = attr.format
<1>1. CqWaitObj(opts.comp_method) \in Int
  BY SameWaitObj DEF OptsOK
<1> DEFINE cond == IF opts.comp_method \in 1 .. 4 THEN 1 ELSE attr.wait_cond
<1>2. cond \in Int
  BY DEF Attr
<1>3. WithWait(attr) = [attr EXCEPT !.wait_obj = CqWaitObj(opts.comp_method),
                                   !.wait_cond = cond]
  BY DEF WithWait, Attr
<1> HIDE DEF cond
<1>. QED
  BY <1>1, <1>2, <1>3 DEF Attr

\* Once it was chosen, the entry format is not the unspecified one.
LEMMA WithFormatOK ==
  ASSUME NEW attr \in Attr
  PROVE  WithFormat(attr) \in Attr /\ WithFormat(attr).format # 0
BY DEF WithFormat, Attr, FI_CQ_FORMAT_CONTEXT, FI_CQ_FORMAT_TAGGED

LEMMA WithSizeOK ==
  ASSUME NEW attr \in Attr, NEW n \in Int
  PROVE  /\ [attr EXCEPT !.size = n] \in Attr
         /\ [attr EXCEPT !.size = n].size = n
         /\ [attr EXCEPT !.size = n].format = attr.format
         /\ [attr EXCEPT !.size = n].wait_obj = attr.wait_obj
BY DEF Attr

LEMMA SizesOK ==
  ASSUME OptsOK
  PROVE  TxSize \in Nat /\ RxSize \in Nat
<1>1. opts.tx_cq_size \in Nat /\ opts.rx_cq_size \in Nat
  BY DEF OptsOK
<1>. QED
  BY <1>1 DEF TxSize, RxSize

\* A queue of the transmit size has room for what completes on it.
LEMMA RoomEnough == IInv => TransmitsFit
<1> SUFFICES ASSUME IInv, cell["txcq"] = "txcq" PROVE TransmitsFit
  BY DEF TransmitsFit
<1>1. opened["txcq"].size = TxSize
  BY DEF IInv, CellsOK
<1>2. opts.tx_cq_size \in Nat /\ opts.rx_cq_size \in Nat /\ opts.shared \in BOOLEAN
  BY DEF IInv, TypeInv, OptsOK
<1>3. cell["rxcq"] = "txcq" => opts.shared
  BY DEF IInv, CellsOK
<1>. QED
  BY <1>1, <1>2, <1>3 DEF TransmitsFit, Needed, TxSize

-----------------------------------------------------------------------------
LEMMA InitIInv == Init => IInv
<1> SUFFICES ASSUME Init PROVE IInv
  OBVIOUS
<1>1. NotOpened \in Attr /\ NotOpened.format # 0
  BY DEF NotOpened, Attr
<1>2. cq_attr \in Attr
  <2>1. PICK format \in {Uninit, 0} : cq_attr = [NotOpened EXCEPT !.format = format]
    BY DEF Init
  <2>2. format \in Int
    OBVIOUS
  <2>. QED
    BY <1>1, <2>1, <2>2 DEF Attr
<1>3. TypeInv
  <2>1. OptsOK /\ OpenedOK
    BY <1>1 DEF Init, OptsOK, OpenedOK
  <2>2. \A q \in Queues : opened[q].format # 0
    BY <1>1 DEF Init
  <2>3. /\ cntr_attr = Uninit /\ refused = {} /\ pc = "txcq" /\ ret = Uninit
        /\ cell = [c \in {"txcq", "rxcq", "txcntr", "rxcntr"} |-> "junk"]
    BY DEF Init
  <2>4. cell \in [Cells -> {"junk", "txcq", "rxcq", "txcntr", "rxcntr"}]
    BY <2>3 DEF Cells
  <2> HIDE DEF Queues
  <2>. QED
    BY <1>2, <2>1, <2>2, <2>3, <2>4 DEF TypeInv, TypeOK, Attr, Cells
<1>. QED
  BY <1>3 DEF Init, IInv, AttrFit, NotYet, CellsOK, QueuesWaitAsAsked,
       SharedQueueIsOne, IsOpen

\* An open call changes the attributes its object was opened with, at most.
LEMMA TryOpenKeeps ==
  ASSUME OpenedOK, refused \subseteq Objects, NEW o \in Objects, NEW attr \in Attr,
         TryOpen(o, attr)
  PROVE  /\ OpenedOK' /\ refused' \subseteq Objects
         /\ opened'[o] = attr \/ (opened' = opened /\ o \in refused')
         /\ \A p \in Objects \ {o} : opened'[p] = opened[p]
BY DEF TryOpen, OpenedOK

LEMMA TxCqStep == IInv /\ OpenTxCq => IInv'
<1> SUFFICES ASSUME IInv, OpenTxCq PROVE IInv'
  OBVIOUS
<1>1. /\ pc = "txcq" /\ pc' = "txcntr" /\ opts' = opts /\ ret' = ret
      /\ cntr_attr' = cntr_attr /\ TryOpen("txcq", cq_attr')
  BY DEF OpenTxCq
<1> DEFINE chosen == WithWait(WithFormat(cq_attr))
<1>2. cq_attr \in Attr /\ OptsOK /\ OpenedOK /\ refused \subseteq Objects
  BY DEF IInv, TypeInv, TypeOK, Attr
<1>3. /\ chosen \in Attr /\ chosen.format # 0
      /\ chosen.wait_obj = CqWaitObj(opts.comp_method)
  <2>1. WithFormat(cq_attr) \in Attr /\ WithFormat(cq_attr).format # 0
    BY <1>2, WithFormatOK
  <2>. QED
    BY <1>2, <2>1, WithWaitOK
<1>4. /\ cq_attr' \in Attr /\ cq_attr'.format # 0 /\ cq_attr'.size = TxSize
      /\ cq_attr'.wait_obj = CqWaitObj(opts.comp_method)
  <2>1. cq_attr' = [chosen EXCEPT !.size = TxSize]
    BY DEF OpenTxCq
  <2> HIDE DEF chosen
  <2>2. OptsOK
    BY <1>2
  <2>3. TxSize \in Nat
    BY <2>2, SizesOK
  <2>4. TxSize \in Int
    BY <2>3
  <2>. QED
    BY <1>3, <2>1, <2>4, WithSizeOK
<1>5. /\ OpenedOK' /\ refused' \subseteq Objects
      /\ opened'["txcq"] = cq_attr' \/ (opened' = opened /\ "txcq" \in refused')
      /\ \A p \in Objects \ {"txcq"} : opened'[p] = opened[p]
  BY <1>1, <1>2, <1>4, TryOpenKeeps
<1>6. \A o \in Objects : opened[o] = NotOpened
  BY <1>1 DEF IInv, NotYet
<1>7. /\ cell \in [Cells -> {"junk", "txcq", "rxcq", "txcntr", "rxcntr"}]
      /\ cell["txcq"] = "junk" /\ cell["rxcq"] = "junk"
  BY <1>1 DEF IInv, CellsOK, TypeInv, TypeOK, Cells
<1>8. /\ cell' \in [Cells -> {"junk", "txcq", "rxcq", "txcntr", "rxcntr"}]
      /\ cell'["txcq"] = (IF "txcq" \in refused' THEN "junk" ELSE "txcq")
      /\ cell'["rxcq"] = (IF opts.shared THEN cell'["txcq"] ELSE "junk")
  BY <1>7 DEF OpenTxCq, Cells
<1>9. TypeInv'
  <2>1. \A q \in Queues : opened'[q].format # 0
    <3>1. NotOpened.format # 0
      BY DEF NotOpened
    <3>. QED
      BY <1>4, <1>5, <1>6, <3>1
  <2>. QED
    BY <1>1, <1>2, <1>4, <1>5, <1>8, <2>1
       DEF IInv, TypeInv, TypeOK, OptsOK, Attr, Cells
<1>10. AttrFit' /\ NotYet'
  BY <1>1, <1>4, <1>5, <1>6 DEF AttrFit, NotYet
<1>11. TxSize' = TxSize /\ "txcq" \notin refused' => opened'["txcq"].size = TxSize
  BY <1>4, <1>5
<1>12. CellsOK'
  <2>1. TxSize' = TxSize
    BY <1>1 DEF TxSize
  <2>. QED
    BY <1>1, <1>2, <1>8, <1>11, <2>1 DEF CellsOK, OptsOK
<1>13. QueuesWaitAsAsked'
  BY <1>1, <1>4, <1>5, <1>6 DEF QueuesWaitAsAsked, IsOpen
<1>14. SharedQueueIsOne'
  BY <1>1, <1>2, <1>5, <1>6, <1>8 DEF SharedQueueIsOne, IsOpen, OptsOK
<1>. QED
  BY <1>9, <1>10, <1>12, <1>13, <1>14 DEF IInv

\* What each step after the first establishes about the attributes and the
\* objects, whatever it opens: a queue it opens gets the attributes as they are.
LEMMA Carry ==
  ASSUME IInv, pc # "txcq", opts' = opts, ret' \in {Uninit, 0},
         cntr_attr' = cntr_attr,
         pc' \in {"txcntr", "rxcq", "rxcntr", "return", "context cq", "done"},
         cq_attr' \in Attr, cq_attr'.format # 0,
         cq_attr'.wait_obj = CqWaitObj(opts.comp_method),
         OpenedOK', refused' \subseteq Objects,
         \A q \in Queues : opened'[q] = opened[q] \/ opened'[q] = cq_attr',
         cell' \in [Cells -> {"junk", "txcq", "rxcq", "txcntr", "rxcntr"}]
  PROVE  TypeInv' /\ AttrFit' /\ QueuesWaitAsAsked'
<1>1. \A q \in Queues : opened'[q].format # 0
  BY DEF IInv, TypeInv, TypeOK
<1>2. TypeInv'
  <2>1. OptsOK'
    BY DEF IInv, TypeInv, OptsOK
  <2>2. cntr_attr' \in Int
    BY DEF IInv, TypeInv, TypeOK
  <2> HIDE DEF Queues, Objects
  <2>. QED
    BY <1>1, <2>1, <2>2 DEF TypeInv, TypeOK, Attr, Cells
<1>3. QueuesWaitAsAsked'
  BY DEF IInv, QueuesWaitAsAsked, IsOpen
<1>. QED
  BY <1>2, <1>3 DEF AttrFit

\* A step that opens no queue keeps the invariant, as long as it leaves the
\* attributes fit and the queues' cells alone.
LEMMA Kept ==
  ASSUME IInv, pc # "txcq", opts' = opts, ret' \in {Uninit, 0},
         cntr_attr' = cntr_attr,
         pc' \in {"txcntr", "rxcq", "rxcntr", "return", "context cq"},
         pc' = "rxcq" => pc = "txcntr", pc' # "txcntr", pc # "done",
         cq_attr' \in Attr, cq_attr'.format # 0,
         cq_attr'.wait_obj = CqWaitObj(opts.comp_method),
         OpenedOK', refused' \subseteq Objects,
         \A q \in Queues : opened'[q] = opened[q],
         cell' \in [Cells -> {"junk", "txcq", "rxcq", "txcntr", "rxcntr"}],
         cell'["txcq"] = cell["txcq"], cell'["rxcq"] = cell["rxcq"]
  PROVE  IInv'
<1>1. TypeInv' /\ AttrFit' /\ QueuesWaitAsAsked'
  BY Carry
<1>2. NotYet'
  BY DEF IInv, NotYet
<1>3. CellsOK'
  <2>1. TxSize' = TxSize
    BY DEF TxSize
  <2>. QED
    BY <2>1 DEF IInv, CellsOK
<1>4. SharedQueueIsOne'
  BY DEF IInv, SharedQueueIsOne, IsOpen
<1>. QED
  BY <1>1, <1>2, <1>3, <1>4 DEF IInv

\* What holds of the attributes and the objects before such a step.
LEMMA Before ==
  ASSUME IInv, pc # "txcq"
  PROVE  /\ OptsOK /\ OpenedOK /\ refused \subseteq Objects
         /\ cq_attr \in Attr /\ cq_attr.format # 0
         /\ cq_attr.wait_obj = CqWaitObj(opts.comp_method)
         /\ cell \in [Cells -> {"junk", "txcq", "rxcq", "txcntr", "rxcntr"}]
         /\ ret \in {Uninit, 0}
BY DEF IInv, TypeInv, TypeOK, AttrFit, Attr, Cells

\* The cell of the object that was opened changes, if any.
LEMMA StoresKeeps ==
  ASSUME cell \in [Cells -> {"junk", "txcq", "rxcq", "txcntr", "rxcntr"}],
         NEW o \in Cells, Stores(o)
  PROVE  /\ cell' \in [Cells -> {"junk", "txcq", "rxcq", "txcntr", "rxcntr"}]
         /\ cell'[o] = cell[o] \/ cell'[o] = o
         /\ \A p \in Cells \ {o} : cell'[p] = cell[p]
BY DEF Stores, Cells

LEMMA CntrStep ==
  ASSUME IInv, NEW o \in {"txcntr", "rxcntr"}, NEW wanted \in BOOLEAN, NEW next,
         OpenCntr(o, wanted, next),
         \/ o = "txcntr" /\ next = "rxcq"
         \/ o = "rxcntr" /\ next = "return"
  PROVE  IInv'
<1>1. /\ pc = o /\ pc' = next /\ opts' = opts /\ ret' = ret
      /\ cntr_attr' = cntr_attr
  BY DEF OpenCntr
<1>2. /\ OptsOK /\ OpenedOK /\ refused \subseteq Objects
      /\ cq_attr \in Attr /\ cq_attr.format # 0
      /\ cq_attr.wait_obj = CqWaitObj(opts.comp_method)
      /\ cell \in [Cells -> {"junk", "txcq", "rxcq", "txcntr", "rxcntr"}]
      /\ ret \in {Uninit, 0}
  BY <1>1, Before
<1>3. CASE wanted
  <2> DEFINE method == CntrWaitObj(opts.comp_method)
  <2>1. method = CqWaitObj(opts.comp_method) /\ method \in Int
    <3>1. opts.comp_method \in 0 .. 5
      BY <1>2 DEF OptsOK
    <3>2. method = CqWaitObj(opts.comp_method) /\ method \in 0 .. 5
      BY <3>1, SameWaitObj
    <3>. QED
      BY <3>2
  <2>2. cq_attr' = [cq_attr EXCEPT !.wait_obj = method]
    BY <1>3 DEF OpenCntr
  <2> HIDE DEF method
  <2>3. /\ cq_attr' \in Attr /\ cq_attr'.format # 0
        /\ cq_attr'.wait_obj = CqWaitObj(opts.comp_method)
    BY <1>2, <2>1, <2>2 DEF Attr
  <2> DEFINE attr == [NotOpened EXCEPT !.wait_obj = cntr_attr, !.size = 0]
  <2>4. attr \in Attr
    <3>1. cntr_attr \in Int
      BY DEF IInv, TypeInv, TypeOK
    <3>2. NotOpened \in Attr
      BY DEF NotOpened, Attr
    <3> DEFINE base == [NotOpened EXCEPT !.wait_obj = cntr_attr]
    <3>3. base \in Attr
      BY <3>1, <3>2 DEF Attr
    <3>4. attr = [base EXCEPT !.size = 0]
      OBVIOUS
    <3> HIDE DEF base, attr
    <3>. QED
      BY <3>3, <3>4, WithSizeOK
  <2>5. TryOpen(o, attr) /\ Stores(o)
    BY <1>3 DEF OpenCntr
  <2> HIDE DEF attr
  <2>6. /\ OpenedOK' /\ refused' \subseteq Objects
        /\ \A p \in Objects \ {o} : opened'[p] = opened[p]
    <3>1. o \in Objects
      OBVIOUS
    <3> HIDE DEF Objects
    <3>. QED
      BY <1>2, <2>4, <2>5, <3>1, TryOpenKeeps
  <2>7. /\ cell' \in [Cells -> {"junk", "txcq", "rxcq", "txcntr", "rxcntr"}]
        /\ cell'["txcq"] = cell["txcq"] /\ cell'["rxcq"] = cell["rxcq"]
    BY <1>2, <2>5, StoresKeeps DEF Cells
  <2>8. \A q \in Queues : opened'[q] = opened[q]
    BY <2>6
  <2>. QED
    BY <1>1, <1>2, <2>3, <2>6, <2>7, <2>8, Kept
<1>4. CASE ~wanted
  <2>1. UNCHANGED <<cq_attr, opened, refused, cell>>
    BY <1>4 DEF OpenCntr
  <2>2. OpenedOK'
    BY <1>2, <2>1 DEF OpenedOK
  <2>. QED
    BY <1>1, <1>2, <2>1, <2>2, Kept
<1>. QED
  BY <1>3, <1>4

LEMMA RxCqStep == IInv /\ OpenRxCq => IInv'
<1> SUFFICES ASSUME IInv, OpenRxCq PROVE IInv'
  OBVIOUS
<1>1. /\ pc = "rxcq" /\ pc' = "rxcntr" /\ opts' = opts /\ ret' = ret
      /\ cntr_attr' = cntr_attr
  BY DEF OpenRxCq
<1>2. /\ OptsOK /\ OpenedOK /\ refused \subseteq Objects
      /\ cq_attr \in Attr /\ cq_attr.format # 0
      /\ cq_attr.wait_obj = CqWaitObj(opts.comp_method)
      /\ cell \in [Cells -> {"junk", "txcq", "rxcq", "txcntr", "rxcntr"}]
      /\ ret \in {Uninit, 0}
  BY <1>1, Before
<1>3. CASE opts.shared
  <2>1. UNCHANGED <<cq_attr, opened, refused, cell>>
    BY <1>3 DEF OpenRxCq
  <2>2. OpenedOK'
    BY <1>2, <2>1 DEF OpenedOK
  <2>. QED
    BY <1>1, <1>2, <2>1, <2>2, Kept
<1>4. CASE ~opts.shared
  <2> DEFINE chosen == WithWait(cq_attr)
  <2>1. /\ chosen \in Attr /\ chosen.format # 0
        /\ chosen.wait_obj = CqWaitObj(opts.comp_method)
    BY <1>2, WithWaitOK
  <2>2. /\ cq_attr' = [chosen EXCEPT !.size = RxSize]
        /\ TryOpen("rxcq", cq_attr') /\ Stores("rxcq")
    BY <1>4 DEF OpenRxCq
  <2> HIDE DEF chosen
  <2>3. RxSize \in Nat
    BY <1>2, SizesOK
  <2>4. RxSize \in Int
    BY <2>3
  <2>5. /\ cq_attr' \in Attr /\ cq_attr'.format # 0
        /\ cq_attr'.wait_obj = CqWaitObj(opts.comp_method)
    BY <2>1, <2>2, <2>4, WithSizeOK
  <2>6. /\ OpenedOK' /\ refused' \subseteq Objects
        /\ opened'["rxcq"] = cq_attr' \/ opened' = opened
        /\ \A p \in Objects \ {"rxcq"} : opened'[p] = opened[p]
    BY <1>2, <2>2, <2>5, TryOpenKeeps
  <2>7. /\ cell' \in [Cells -> {"junk", "txcq", "rxcq", "txcntr", "rxcntr"}]
        /\ cell'["txcq"] = cell["txcq"]
        /\ cell'["rxcq"] = cell["rxcq"] \/ cell'["rxcq"] = "rxcq"
    BY <1>2, <2>2, StoresKeeps DEF Cells
  <2>8. \A q \in Queues : opened'[q] = opened[q] \/ opened'[q] = cq_attr'
    BY <2>6
  <2>9. TypeInv' /\ AttrFit' /\ QueuesWaitAsAsked'
    BY <1>1, <1>2, <2>5, <2>6, <2>7, <2>8, Carry
  <2>10. NotYet'
    BY <1>1, <2>6 DEF IInv, NotYet
  <2>11. CellsOK'
    <3>1. TxSize' = TxSize /\ opened'["txcq"] = opened["txcq"]
      BY <1>1, <2>6 DEF TxSize
    <3>. QED
      BY <1>1, <1>4, <2>7, <3>1 DEF IInv, CellsOK
  <2>12. SharedQueueIsOne'
    BY <1>1, <1>4, <2>7, <2>11 DEF SharedQueueIsOne, CellsOK
  <2>. QED
    BY <2>9, <2>10, <2>11, <2>12 DEF IInv
<1>. QED
  BY <1>3, <1>4

LEMMA ReturnStep == IInv /\ ReturnZero => IInv'
<1> SUFFICES ASSUME IInv, ReturnZero PROVE IInv'
  OBVIOUS
<1>1. /\ pc = "return" /\ pc' = "context cq" /\ ret' = 0
      /\ UNCHANGED <<opts, cq_attr, cntr_attr, cell, opened, refused>>
  BY DEF ReturnZero
<1>2. OpenedOK'
  BY <1>1 DEF IInv, TypeInv, OpenedOK
<1>. QED
  BY <1>1, <1>2, Before, Kept

LEMMA ContextStep == IInv /\ OpenContextCqs => IInv'
<1> SUFFICES ASSUME IInv, OpenContextCqs PROVE IInv'
  OBVIOUS
<1>1. /\ pc = "context cq" /\ pc' = "done" /\ TryOpen("context cq", cq_attr)
      /\ UNCHANGED <<opts, cq_attr, cntr_attr, cell, ret>>
  BY DEF OpenContextCqs
<1>2. /\ OptsOK /\ OpenedOK /\ refused \subseteq Objects
      /\ cq_attr \in Attr /\ cq_attr.format # 0
      /\ cq_attr.wait_obj = CqWaitObj(opts.comp_method)
      /\ cell \in [Cells -> {"junk", "txcq", "rxcq", "txcntr", "rxcntr"}]
      /\ ret \in {Uninit, 0}
  BY <1>1, Before
<1>3. /\ OpenedOK' /\ refused' \subseteq Objects
      /\ opened'["context cq"] = cq_attr \/ opened' = opened
      /\ \A p \in Objects \ {"context cq"} : opened'[p] = opened[p]
  BY <1>1, <1>2, TryOpenKeeps
<1>4. \A q \in Queues : opened'[q] = opened[q] \/ opened'[q] = cq_attr'
  BY <1>1, <1>3
<1>5. TypeInv' /\ AttrFit' /\ QueuesWaitAsAsked'
  BY <1>1, <1>2, <1>3, <1>4, Carry
<1>6. NotYet'
  BY <1>1 DEF NotYet
<1>7. opened'["txcq"] = opened["txcq"] /\ opened'["rxcq"] = opened["rxcq"]
  BY <1>3
<1>8. CellsOK'
  <2>1. TxSize' = TxSize
    BY <1>1 DEF TxSize
  <2>. QED
    BY <1>1, <1>7, <2>1 DEF IInv, CellsOK
<1>9. SharedQueueIsOne'
  BY <1>1, <1>7 DEF IInv, SharedQueueIsOne, IsOpen
<1>. QED
  BY <1>5, <1>6, <1>8, <1>9 DEF IInv

LEMMA StutterStep == IInv /\ UNCHANGED vars => IInv'
<1> SUFFICES ASSUME IInv, UNCHANGED vars PROVE IInv'
  OBVIOUS
<1>1. UNCHANGED <<opts, cq_attr, cntr_attr, cell, opened, refused, pc, ret>>
  BY DEF vars
<1>2. TypeInv'
  BY <1>1 DEF IInv, TypeInv, TypeOK, OptsOK, OpenedOK
<1>3. AttrFit' /\ NotYet' /\ CellsOK'
  BY <1>1 DEF IInv, AttrFit, NotYet, CellsOK, TxSize
<1>4. QueuesWaitAsAsked' /\ SharedQueueIsOne'
  BY <1>1 DEF IInv, QueuesWaitAsAsked, SharedQueueIsOne, IsOpen
<1>. QED
  BY <1>2, <1>3, <1>4 DEF IInv

-----------------------------------------------------------------------------
\* cq_attr keeps the contents a queue is opened with, from call to call.
THEOREM Invariance == Spec => []IInv
<1>1. ASSUME IInv, [Next]_vars PROVE IInv'
  <2>1. opts.tx_cntr \in BOOLEAN /\ opts.rx_cntr \in BOOLEAN
    BY <1>1 DEF IInv, TypeInv, OptsOK
  <2>2. CASE OpenTxCq
    BY <1>1, <2>2, TxCqStep
  <2>3. CASE OpenTxCntr
    BY <1>1, <2>1, <2>3, CntrStep DEF OpenTxCntr
  <2>4. CASE OpenRxCq
    BY <1>1, <2>4, RxCqStep
  <2>5. CASE OpenRxCntr
    BY <1>1, <2>1, <2>5, CntrStep DEF OpenRxCntr
  <2>6. CASE ReturnZero
    BY <1>1, <2>6, ReturnStep
  <2>7. CASE OpenContextCqs
    BY <1>1, <2>7, ContextStep
  <2>8. CASE Finished \/ UNCHANGED vars
    BY <1>1, <2>8, StutterStep DEF Finished
  <2>. QED
    BY <1>1, <2>2, <2>3, <2>4, <2>5, <2>6, <2>7, <2>8 DEF Next
<1>. QED
  BY <1>1, InitIInv, PTL DEF Spec

\* Every variable keeps a value of its kind, and no queue is opened with the
\* unspecified entry format that wait_for_comp's buffer does not fit.
THEOREM TypeCorrect == Spec => []TypeOK
<1>1. IInv => TypeOK
  BY DEF IInv, TypeInv
<1>. QED
  BY <1>1, Invariance, PTL

\* However ft_cntr_open writes to the queues' attributes, every queue waits the
\* way the completion method says.
THEOREM QueuesWait == Spec => []QueuesWaitAsAsked
<1>1. IInv => QueuesWaitAsAsked
  BY DEF IInv
<1>. QED
  BY <1>1, Invariance, PTL

\* FT_OPT_CQ_SHARED decides whether the two cells of ft_alloc_ep_res denote one
\* queue, whether it could be opened or not.
THEOREM OneSharedQueue == Spec => []SharedQueueIsOne
<1>1. IInv => SharedQueueIsOne
  BY DEF IInv
<1>. QED
  BY <1>1, Invariance, PTL

\* The queue that sends complete on has room for them, and for the receives
\* that complete there as well, for sizes of any value.
THEOREM RoomForTransmits == Spec => []TransmitsFit
BY Invariance, RoomEnough, PTL
=============================================================================
