-------------------------- MODULE AvExchange_proofs --------------------------
(***************************************************************************)
(* AvExchange for any two processes and any failure codes: what each point *)
(* of init_av says about the sends and receives behind it, and that the     *)
(* exchange keeps the promise of Rendezvous.                                *)
(***************************************************************************)
EXTENDS AvExchange, TLAPS

\* Not yet past the send of init_av_a or init_av_b.
Early(p) ==
  pc[p] \in IF p = Client THEN {"av_insert", "getname", "send"}
                          ELSE {"wait rx", "av_insert", "send"}
\* Past it, and not because its chain was cut short.
Sent(p) == ~Early(p) /\ swallowed[p] = {}

\* Not yet past the wait of init_av_a or init_av_b for a message.
Waiting(p) ==
  pc[p] \in IF p = Client THEN {"av_insert", "getname", "send", "wait rx"}
                          ELSE {"wait rx"}
\* The one message the other process sends has met a receive, or is lost.
Matched(p) == Sent(Peer(p)) /\ inflight[p] = <<>>

RoleOK(p) ==
  /\ swallowed[p] # {} => pc[p] \in {"recv", "wait tx"}
  /\ p = Server => pc[p] # "getname"

\* One send per process: nothing of it before, at most one completion after.
TxOK(p) ==
  /\ ~Sent(p) => sending[p] = 0 /\ txcq[p] = <<>> /\ inflight[Peer(p)] = <<>>
  /\ sending[p] = 1 => txcq[p] = <<>>
  /\ pc[p] = "run_test" => sending[p] = 0 /\ txcq[p] = <<>>

\* The client skipped its wait; the receive that init_av posts at the end.
CutShort(p) == p = Client /\ swallowed[p] # {}
Extra(p) == IF pc[p] \in {"wait tx", "run_test"} THEN 1 ELSE 0

\* One receive until the message has met it, none until init_av posts another.
RxOK(p) ==
  /\ Waiting(p) =>
       \/ posted[p] = 1 /\ rxcq[p] = <<>>
       \/ posted[p] = 0 /\ rxcq[p] # <<>> /\ Matched(p)
  /\ ~Waiting(p) => rxcq[p] = <<>>
  /\ ~Waiting(p) /\ ~CutShort(p) =>
       /\ Matched(p)
       /\ posted[p] = Extra(p)
  /\ ~Waiting(p) /\ CutShort(p) => posted[p] = 1 + Extra(p)

\* The other's address is inserted before anything is sent to it.
KnowOK(p) ==
  /\ pc[p] = "av_insert" \/ (p = Server /\ pc[p] = "wait rx") => av[p] = {}
  /\ pc[p] \in {"getname", "send"} \/ Sent(p) => av[p] # {}

ProcOK(p) == RoleOK(p) /\ TxOK(p) /\ RxOK(p) /\ KnowOK(p)
IInv == TypeOK /\ \A p \in Procs : ProcOK(p)

-----------------------------------------------------------------------------
LEMMA Pair ==
  ASSUME NEW p \in Procs
  PROVE  /\ Peer(p) \in Procs /\ Peer(p) # p /\ Peer(Peer(p)) = p
         /\ Procs = {p, Peer(p)}
         /\ (p = Client /\ Peer(p) = Server) \/ (p = Server /\ Peer(p) = Client)
BY ProcsAssumption DEF Procs, Peer

LEMMA CqsAre == Cqs = {<<>>, <<"done">>, <<"error">>}
BY DEF Cqs, Entry

LEMMA EmptyOnes == <<>> \in Cqs /\ <<>> \in Wires
BY DEF Cqs, Wires

\* What wait_for_comp makes of a queue: it goes on with 0 or not at all.
LEMMA WaitsOnDone ==
  ASSUME NEW cq \in Cqs
  PROVE  /\ ~ReadsAgain(CqRead(cq)) => /\ cq = <<"done">>
                                       /\ WaitResult(CqRead(cq)) = 0
                                       /\ CqAfterRead(cq) = <<>>
<1>1. CASE cq = <<>>
  BY <1>1 DEF ReadsAgain, CqRead, FI_EAGAIN
<1>2. CASE cq = <<"done">>
  BY <1>2 DEF ReadsAgain, CqRead, CqAfterRead, WaitResult, FI_EAGAIN
<1>3. CASE cq = <<"error">>
  BY <1>3 DEF ReadsAgain, CqRead, FI_EAGAIN, FI_EAVAIL
<1>. QED
  BY <1>1, <1>2, <1>3 DEF Cqs, Entry

LEMMA InitIInv == Init => IInv
<1> SUFFICES ASSUME Init PROVE IInv
  OBVIOUS
<1>1. LocalOK /\ FaultsOK
  BY DEF Init, LocalOK, FaultsOK, Labels
<1>2. AddressOK
  BY DEF Init, AddressOK
<1>3. ReceiveOK
  <2>1. /\ posted = [p \in Procs |-> 1] /\ rx_buf = [p \in Procs |-> "nothing"]
        /\ rxcq = [p \in Procs |-> <<>>]
    BY DEF Init
  <2>2. rxcq \in [Procs -> Cqs]
    BY <2>1, EmptyOnes
  <2>. QED
    BY <2>1, <2>2 DEF ReceiveOK
<1>4. TransmitOK
  <2>1. /\ txcq = [p \in Procs |-> <<>>] /\ sending = [p \in Procs |-> 0]
        /\ inflight = [p \in Procs |-> <<>>]
    BY DEF Init
  <2>2. txcq \in [Procs -> Cqs] /\ inflight \in [Procs -> Wires]
    BY <2>1, EmptyOnes
  <2>. QED
    BY <2>1, <2>2 DEF TransmitOK
<1>5. ASSUME NEW p \in Procs PROVE ProcOK(p)
  BY <1>5, Pair, ProcsAssumption
     DEF Init, ProcOK, RoleOK, TxOK, RxOK, KnowOK, Sent, Early, Waiting, Procs
<1>. QED
  BY <1>1, <1>2, <1>3, <1>4, <1>5 DEF IInv, TypeOK

\* How many receives a process has posted follows from where it is.
LEMMA PostedBeforeRecv ==
  ASSUME IInv, NEW p \in Procs, pc[p] = "recv"
  PROVE  posted[p] \in 0 .. 1
<1>1. RxOK(p)
  BY DEF IInv, ProcOK
<1>3. ~Waiting(p)
  BY DEF Waiting
<1>4. posted[p] = 0 \/ posted[p] = 1
  BY <1>1, <1>3 DEF RxOK, Extra
<1>. QED
  BY <1>4

\* Nothing that the invariant says of a process itself has changed.
Unmoved(p) ==
  /\ pc'[p] = pc[p] /\ swallowed'[p] = swallowed[p]
  /\ sending'[p] = sending[p] /\ txcq'[p] = txcq[p]
  /\ posted'[p] = posted[p] /\ rxcq'[p] = rxcq[p] /\ av'[p] = av[p]

\* No message enters either channel.
NothingSent(p) ==
  /\ inflight'[p] = inflight[p] \/ inflight'[p] = <<>>
  /\ inflight'[Peer(p)] = inflight[Peer(p)] \/ inflight'[Peer(p)] = <<>>

\* A process that does not move keeps its part of the invariant, unless the
\* other one sends.
LEMMA OtherKept ==
  ASSUME NEW p \in Procs, ProcOK(p), Unmoved(p), NothingSent(p),
         Sent(Peer(p))' <=> Sent(Peer(p))
  PROVE  ProcOK(p)'
<1>1. Sent(p)' <=> Sent(p)
  BY DEF Unmoved, Sent, Early
<1>2. RoleOK(p)' /\ KnowOK(p)'
  BY <1>1 DEF ProcOK, RoleOK, KnowOK, Unmoved
<1>3. TxOK(p)'
  BY <1>1 DEF ProcOK, TxOK, Unmoved, NothingSent
<1>4. Waiting(p)' <=> Waiting(p)
  BY DEF Waiting, Unmoved
<1>5. Matched(p) => Matched(p)'
  BY DEF Matched, NothingSent
<1>6. RxOK(p)'
  BY <1>4, <1>5 DEF ProcOK, RxOK, Unmoved, CutShort, Extra
<1>. QED
  BY <1>2, <1>3, <1>6 DEF ProcOK

\* Wherever a process goes to, returns or crashes, its control is well typed.
LEMMA GotoOK ==
  ASSUME LocalOK, NEW p \in Procs, NEW label \in Labels, Goto(p, label)
  PROVE  LocalOK'
BY DEF LocalOK, Goto

LEMMA ReturnOK ==
  ASSUME LocalOK, NEW p \in Procs, NEW code \in Codes \cup {0}, Return(p, code)
  PROVE  LocalOK'
BY DEF LocalOK, Return

LEMMA CrashOK ==
  ASSUME LocalOK, NEW p \in Procs, Crash(p)
  PROVE  LocalOK'
BY DEF LocalOK, Crash

LEMMA RecvStep ==
  ASSUME IInv, NEW p \in Procs, Recv(p)
  PROVE  IInv'
<1>. PICK o \in Procs : /\ o = Peer(p) /\ o # p /\ Peer(o) = p /\ Procs = {p, o}
                        /\ (p = Client /\ o = Server) \/ (p = Server /\ o = Client)
  BY Pair
<1>2. TypeOK /\ ProcOK(p) /\ ProcOK(o)
  BY DEF IInv
<1>3. /\ UNCHANGED <<av, rx_buf, rxcq, txcq, sending, inflight, swallowed>>
      /\ pc[p] = "recv"
      /\ pc'[o] = pc[o] /\ posted'[o] = posted[o]
      /\ \/ pc'[p] = "wait tx" /\ posted'[p] = posted[p] + 1
         \/ pc'[p] = "recv" /\ posted'[p] = posted[p]
  BY <1>2 DEF Recv, At, Goto, Return, TypeOK, LocalOK, ReceiveOK, address, transmit
<1>4. TypeOK'
  <2>1. posted[p] \in 0 .. 1
    BY <1>3, PostedBeforeRecv
  <2>2. LocalOK'
    BY <1>2, GotoOK, ReturnOK DEF TypeOK, Recv, Labels
  <2>3. posted' \in [Procs -> 0 .. 2]
    <3>1. posted' = posted \/ posted' = [posted EXCEPT ![p] = posted[p] + 1]
      BY DEF Recv
    <3>. QED
      BY <1>2, <2>1, <3>1 DEF TypeOK, ReceiveOK
  <2>4. ReceiveOK'
    BY <1>2, <1>3, <2>3 DEF TypeOK, ReceiveOK
  <2>5. AddressOK' /\ TransmitOK' /\ FaultsOK'
    BY <1>2 DEF Recv, TypeOK, AddressOK, TransmitOK, FaultsOK, address, transmit
  <2>. QED
    BY <2>2, <2>4, <2>5 DEF TypeOK
<1>5. ProcOK(p)'
  <2>1. RoleOK(p)'
    BY <1>2, <1>3 DEF ProcOK, RoleOK
  <2>2. Sent(p)' <=> Sent(p)
    BY <1>3 DEF Sent, Early
  <2>3. TxOK(p)' /\ KnowOK(p)'
    BY <1>2, <1>3, <2>2 DEF ProcOK, TxOK, KnowOK
  <2>4. ~Waiting(p) /\ ~Waiting(p)'
    BY <1>3 DEF Waiting
  <2>5. Matched(p)' <=> Matched(p)
    BY <1>3 DEF Matched, Sent, Early
  <2>6. RxOK(p)'
    <3>1. RxOK(p)
      BY <1>2 DEF ProcOK
    <3>2. rxcq'[p] = rxcq[p] /\ (CutShort(p)' <=> CutShort(p))
      BY <1>3 DEF CutShort
    <3>3. rxcq'[p] = <<>>
      BY <2>4, <3>1, <3>2 DEF RxOK
    <3>4. posted[p] \in Int
      <4>1. posted[p] \in 0 .. 2
        BY <1>2 DEF TypeOK, ReceiveOK
      <4>. QED
        BY <4>1
    <3>5. Extra(p) = 0
      BY <1>3 DEF Extra
    <3>6. \/ Extra(p)' = 1 /\ posted'[p] = posted[p] + 1
          \/ Extra(p)' = 0 /\ posted'[p] = posted[p]
      BY <1>3 DEF Extra
    <3>7. ~CutShort(p)' => Matched(p)' /\ posted'[p] = Extra(p)'
      BY <2>4, <2>5, <3>1, <3>2, <3>4, <3>5, <3>6 DEF RxOK
    <3>8. CutShort(p)' => posted'[p] = 1 + Extra(p)'
      BY <2>4, <2>5, <3>1, <3>2, <3>4, <3>5, <3>6 DEF RxOK
    <3>. QED
      BY <2>4, <3>3, <3>7, <3>8 DEF RxOK
  <2>. QED
    BY <2>1, <2>3, <2>6 DEF ProcOK
<1>6. ProcOK(o)'
  <2>1. Unmoved(o) /\ NothingSent(o) /\ (Sent(p)' <=> Sent(p))
    BY <1>3 DEF Unmoved, NothingSent, Sent, Early
  <2>. QED
    BY <1>2, <2>1, OtherKept
<1>. QED
  BY <1>4, <1>5, <1>6 DEF IInv

\* The receive side depends on these few things only.
LEMMA RxKept ==
  ASSUME NEW p \in Procs, RxOK(p), posted'[p] = posted[p], rxcq'[p] = rxcq[p],
         Waiting(p)' <=> Waiting(p), CutShort(p)' <=> CutShort(p),
         Extra(p)' = Extra(p), Matched(p) => Matched(p)'
  PROVE  RxOK(p)'
BY DEF RxOK

\* The server is past its wait only when the client has sent its name.
LEMMA ClientFirst ==
  ASSUME IInv
  PROVE  /\ ~Waiting(Server) => Sent(Client)
         /\ Sent(Server) => Sent(Client)
<1>1. RxOK(Server) /\ Server # Client /\ Peer(Server) = Client
  BY ProcsAssumption DEF IInv, ProcOK, Procs, Peer
<1>2. ~Waiting(Server) => Sent(Client)
  BY <1>1 DEF RxOK, CutShort, Matched
<1>3. Sent(Server) => ~Waiting(Server)
  BY <1>1 DEF Sent, Early, Waiting
<1>. QED
  BY <1>2, <1>3

\* A chain that is cut short leaves a process with nothing sent; the client with
\* its one receive still posted.
LEMMA GivesUpKeeps ==
  ASSUME IInv, NEW p \in Procs, pc[p] \in {"av_insert", "getname", "send"},
         GivesUp(p), av'[p] = av[p], UNCHANGED <<posted, rxcq, txcq, sending, inflight>>
  PROVE  /\ ProcOK(p)' /\ LocalOK' /\ FaultsOK'
         /\ Sent(p)' <=> Sent(p)
         /\ \A o \in Procs \ {p} : pc'[o] = pc[o] /\ swallowed'[o] = swallowed[o]
<1>. PICK o \in Procs : /\ o = Peer(p) /\ o # p /\ Peer(o) = p /\ Procs = {p, o}
                        /\ (p = Client /\ o = Server) \/ (p = Server /\ o = Client)
  BY Pair
<1>1. TypeOK /\ ProcOK(p)
  BY DEF IInv
<1>2. /\ pc'[p] = "recv" /\ swallowed'[p] = swallowed[p] \cup {pc[p]}
      /\ pc'[o] = pc[o] /\ swallowed'[o] = swallowed[o]
  BY <1>1 DEF GivesUp, Goto, TypeOK, LocalOK, FaultsOK
<1>3. LocalOK'
  BY <1>1, GotoOK DEF TypeOK, GivesUp, Labels
<1>4. FaultsOK'
  BY <1>1 DEF TypeOK, FaultsOK, GivesUp, Labels
<1>5. Early(p) /\ ~Sent(p) /\ ~Sent(p)'
  BY <1>1, <1>2 DEF ProcOK, RoleOK, Sent, Early
<1>6. RoleOK(p)' /\ TxOK(p)' /\ KnowOK(p)'
  BY <1>1, <1>2, <1>5 DEF ProcOK, RoleOK, TxOK, KnowOK
<1>7. RxOK(p) /\ Extra(p) = 0 /\ Extra(p)' = 0 /\ ~Waiting(p)'
  BY <1>1, <1>2 DEF ProcOK, Extra, Waiting
<1>8. ASSUME p = Client PROVE RxOK(p)'
  <2>1. Waiting(p) /\ CutShort(p)'
    BY <1>2, <1>8 DEF Waiting, CutShort
  <2>2. ~Matched(p)
    BY <1>5, <1>8, ClientFirst, ProcsAssumption DEF Matched
  <2>3. posted[p] = 1 /\ rxcq[p] = <<>>
    BY <1>7, <2>1, <2>2 DEF RxOK
  <2>4. posted'[p] = 1 + Extra(p)'
    BY <1>7, <2>3
  <2>. QED
    BY <1>7, <2>1, <2>3, <2>4 DEF RxOK
<1>9. ASSUME p = Server PROVE RxOK(p)'
  <2>1. ~Waiting(p) /\ ~CutShort(p) /\ ~CutShort(p)'
    BY <1>9, ProcsAssumption DEF Waiting, CutShort
  <2>2. Matched(p)' <=> Matched(p)
    BY <1>2 DEF Matched, Sent, Early
  <2>. QED
    BY <1>7, <2>1, <2>2, RxKept
<1>10. \A q \in Procs \ {p} : pc'[q] = pc[q] /\ swallowed'[q] = swallowed[q]
  BY <1>2
<1>. QED
  BY <1>3, <1>4, <1>5, <1>6, <1>8, <1>9, <1>10 DEF ProcOK

LEMMA AvInsertStep ==
  ASSUME IInv, NEW p \in Procs, AvInsert(p)
  PROVE  IInv'
<1>. PICK o \in Procs : /\ o = Peer(p) /\ o # p /\ Peer(o) = p /\ Procs = {p, o}
                        /\ (p = Client /\ o = Server) \/ (p = Server /\ o = Client)
  BY Pair
<1>1. TypeOK /\ ProcOK(p) /\ ProcOK(o)
  BY DEF IInv
<1>2. /\ UNCHANGED <<rfa, posted, rx_buf, rxcq, txcq, sending, inflight>>
      /\ pc[p] = "av_insert"
  BY DEF AvInsert, At, receive, transmit
<1>3. ReceiveOK' /\ TransmitOK'
  BY <1>1, <1>2 DEF TypeOK, ReceiveOK, TransmitOK
<1>4. remote_fi_addr' \in [Procs -> {"junk", "peer"}]
  <2>1. \E left \in {"junk", "peer"} :
          remote_fi_addr' = [remote_fi_addr EXCEPT ![p] = left]
    BY <1>1 DEF AvInsert, TypeOK, AddressOK
  <2>. QED
    BY <1>1, <2>1 DEF TypeOK, AddressOK
<1>5. CASE /\ av' = [av EXCEPT ![p] = {Peer(p)}]
           /\ Goto(p, IF p = Client THEN "getname" ELSE "send")
           /\ UNCHANGED <<swallowed, trouble>>
  <2>1. /\ pc'[p] = (IF p = Client THEN "getname" ELSE "send")
        /\ pc'[o] = pc[o] /\ av'[o] = av[o] /\ av'[p] = {o}
    BY <1>1, <1>5 DEF Goto, TypeOK, LocalOK, AddressOK
  <2>2. LocalOK' /\ FaultsOK'
    BY <1>1, <1>5, GotoOK DEF TypeOK, FaultsOK, Labels
  <2>3. AddressOK'
    BY <1>1, <1>2, <1>4, <1>5 DEF TypeOK, AddressOK
  <2>4. Early(p) /\ Early(p)' /\ ~Sent(p) /\ ~Sent(p)'
    BY <1>2, <2>1 DEF Sent, Early
  <2>5. RoleOK(p)' /\ TxOK(p)' /\ KnowOK(p)'
    BY <1>1, <1>2, <1>5, <2>1, <2>4 DEF ProcOK, RoleOK, TxOK, KnowOK
  <2>6. RxOK(p)'
    <3>1. /\ Waiting(p)' <=> Waiting(p)
          /\ CutShort(p)' <=> CutShort(p)
          /\ Extra(p)' = Extra(p)
      BY <1>2, <1>5, <2>1 DEF Waiting, CutShort, Extra
    <3>2. Matched(p)' <=> Matched(p)
      BY <1>2, <1>5, <2>1 DEF Matched, Sent, Early
    <3>. QED
      BY <1>1, <1>2, <3>1, <3>2, RxKept DEF ProcOK
  <2>7. ProcOK(o)'
    <3>1. Unmoved(o) /\ NothingSent(o) /\ (Sent(p)' <=> Sent(p))
      BY <1>2, <1>5, <2>1, <2>4 DEF Unmoved, NothingSent
    <3>. QED
      BY <1>1, <3>1, OtherKept
  <2>. QED
    BY <1>3, <2>2, <2>3, <2>5, <2>6, <2>7 DEF IInv, TypeOK, ProcOK
<1>6. CASE GivesUp(p) /\ UNCHANGED av
  <2>1. /\ ProcOK(p)' /\ LocalOK' /\ FaultsOK' /\ (Sent(p)' <=> Sent(p))
        /\ pc'[o] = pc[o] /\ swallowed'[o] = swallowed[o]
    BY <1>2, <1>6, GivesUpKeeps
  <2>2. AddressOK'
    BY <1>1, <1>2, <1>4, <1>6 DEF TypeOK, AddressOK
  <2>3. Unmoved(o) /\ NothingSent(o)
    BY <1>2, <1>6, <2>1 DEF Unmoved, NothingSent
  <2>4. ProcOK(o)'
    BY <1>1, <2>1, <2>3, OtherKept
  <2>. QED
    BY <1>3, <2>1, <2>2, <2>4 DEF IInv, TypeOK
<1>. QED
  BY <1>5, <1>6 DEF AvInsert

LEMMA GetnameStep ==
  ASSUME IInv, NEW p \in Procs, Getname(p)
  PROVE  IInv'
<1>. PICK o \in Procs : /\ o = Peer(p) /\ o # p /\ Peer(o) = p /\ Procs = {p, o}
                        /\ (p = Client /\ o = Server) \/ (p = Server /\ o = Client)
  BY Pair
<1>1. TypeOK /\ ProcOK(p) /\ ProcOK(o)
  BY DEF IInv
<1>2. /\ UNCHANGED <<remote_fi_addr, rfa, av, posted, rx_buf, rxcq, txcq, sending, inflight>>
      /\ pc[p] = "getname"
  BY DEF Getname, At, receive, transmit, address
<1>3. p = Client
  BY <1>1, <1>2 DEF ProcOK, RoleOK
<1>4. AddressOK' /\ ReceiveOK' /\ TransmitOK'
  BY <1>1, <1>2 DEF TypeOK, AddressOK, ReceiveOK, TransmitOK
<1>5. CASE Goto(p, "send") /\ UNCHANGED <<swallowed, trouble>>
  <2>1. pc'[p] = "send" /\ pc'[o] = pc[o]
    BY <1>1, <1>5 DEF Goto, TypeOK, LocalOK
  <2>2. LocalOK' /\ FaultsOK'
    BY <1>1, <1>5, GotoOK DEF TypeOK, FaultsOK, Labels
  <2>3. Early(p) /\ Early(p)' /\ ~Sent(p) /\ ~Sent(p)'
    BY <1>2, <1>3, <2>1 DEF Sent, Early
  <2>4. RoleOK(p)' /\ TxOK(p)' /\ KnowOK(p)'
    BY <1>1, <1>2, <1>5, <2>1, <2>3 DEF ProcOK, RoleOK, TxOK, KnowOK
  <2>5. RxOK(p)'
    <3>1. /\ Waiting(p)' <=> Waiting(p)
          /\ CutShort(p)' <=> CutShort(p)
          /\ Extra(p)' = Extra(p)
      BY <1>2, <1>3, <1>5, <2>1 DEF Waiting, CutShort, Extra
    <3>2. Matched(p)' <=> Matched(p)
      BY <1>2, <1>5, <2>1 DEF Matched, Sent, Early
    <3>. QED
      BY <1>1, <1>2, <3>1, <3>2, RxKept DEF ProcOK
  <2>6. ProcOK(o)'
    <3>1. Unmoved(o) /\ NothingSent(o) /\ (Sent(p)' <=> Sent(p))
      BY <1>2, <1>5, <2>1, <2>3 DEF Unmoved, NothingSent
    <3>. QED
      BY <1>1, <3>1, OtherKept
  <2>. QED
    BY <1>4, <2>2, <2>4, <2>5, <2>6 DEF IInv, TypeOK, ProcOK
<1>6. CASE GivesUp(p)
  <2>1. /\ ProcOK(p)' /\ LocalOK' /\ FaultsOK' /\ (Sent(p)' <=> Sent(p))
        /\ pc'[o] = pc[o] /\ swallowed'[o] = swallowed[o]
    BY <1>2, <1>6, GivesUpKeeps
  <2>2. Unmoved(o) /\ NothingSent(o)
    BY <1>2, <2>1 DEF Unmoved, NothingSent
  <2>3. ProcOK(o)'
    BY <1>1, <2>1, <2>2, OtherKept
  <2>. QED
    BY <1>4, <2>1, <2>3 DEF IInv, TypeOK
<1>. QED
  BY <1>5, <1>6 DEF Getname

\* A send that was accepted, whether its message travels or is lost.
LEMMA Accepted ==
  ASSUME IInv, NEW p \in Procs, pc[p] = "send",
         Goto(p, AfterSend(p)), sending' = [sending EXCEPT ![p] = @ + 1],
         \/ inflight' = [inflight EXCEPT ![Peer(p)] = Append(@, Message(p))]
         \/ inflight' = inflight,
         UNCHANGED <<av, posted, rxcq, txcq, swallowed>>
  PROVE  /\ ProcOK(p)' /\ ProcOK(Peer(p))' /\ LocalOK'
         /\ sending' \in [Procs -> 0 .. 1] /\ inflight' \in [Procs -> Wires]
<1>. PICK o \in Procs : /\ o = Peer(p) /\ o # p /\ Peer(o) = p /\ Procs = {p, o}
                        /\ (p = Client /\ o = Server) \/ (p = Server /\ o = Client)
  BY Pair
<1>1. TypeOK /\ ProcOK(p) /\ ProcOK(o)
  BY DEF IInv
<1>2. ~Sent(p) /\ Early(p) /\ swallowed[p] = {}
  BY <1>1 DEF ProcOK, RoleOK, Sent, Early
<1>3. sending[p] = 0 /\ txcq[p] = <<>> /\ inflight[o] = <<>>
  BY <1>1, <1>2 DEF ProcOK, TxOK
<1>4. inflight'[p] = inflight[p] /\ inflight' \in [Procs -> Wires]
  <2>1. Append(<<>>, Message(p)) \in Wires
    BY DEF Wires, Message
  <2>. QED
    BY <1>1, <1>3, <2>1 DEF TypeOK, TransmitOK
<1>5. /\ sending' \in [Procs -> 0 .. 1] /\ sending'[p] = 1 /\ sending'[o] = sending[o]
  BY <1>1, <1>3 DEF TypeOK, TransmitOK
<1>6. LocalOK'
  BY <1>1, GotoOK DEF TypeOK, AfterSend, Labels
<1>7. pc'[p] = (IF p = Client THEN "wait rx" ELSE "recv") /\ pc'[o] = pc[o]
  BY <1>1 DEF Goto, AfterSend, TypeOK, LocalOK
<1>8. /\ Sent(p)' /\ (Sent(o)' <=> Sent(o))
  BY <1>2, <1>7 DEF Sent, Early
<1>9. RoleOK(p)' /\ KnowOK(p)' /\ TxOK(p)'
  BY <1>1, <1>2, <1>3, <1>7, <1>8 DEF ProcOK, RoleOK, KnowOK, TxOK
<1>10. RxOK(p)'
  <2>1. /\ Waiting(p)' <=> Waiting(p)
        /\ CutShort(p)' <=> CutShort(p)
        /\ Extra(p)' = Extra(p)
    BY <1>7 DEF Waiting, CutShort, Extra
  <2>2. Matched(p)' <=> Matched(p)
    BY <1>4, <1>8 DEF Matched
  <2>. QED
    BY <1>1, <2>1, <2>2, RxKept DEF ProcOK
<1>11. RoleOK(o)' /\ KnowOK(o)' /\ TxOK(o)'
  BY <1>1, <1>4, <1>5, <1>7, <1>8 DEF ProcOK, RoleOK, KnowOK, TxOK
<1>12. RxOK(o)'
  <2>1. /\ Waiting(o)' <=> Waiting(o)
        /\ CutShort(o)' <=> CutShort(o)
        /\ Extra(o)' = Extra(o)
    BY <1>7 DEF Waiting, CutShort, Extra
  <2>2. ~Matched(o)
    BY <1>2 DEF Matched
  <2>. QED
    BY <1>1, <2>1, <2>2, RxKept DEF ProcOK
<1>. QED
  BY <1>4, <1>5, <1>6, <1>9, <1>10, <1>11, <1>12 DEF ProcOK

LEMMA SendStep ==
  ASSUME IInv, NEW p \in Procs, Send(p)
  PROVE  IInv'
<1>. PICK o \in Procs : /\ o = Peer(p) /\ o # p /\ Peer(o) = p /\ Procs = {p, o}
                        /\ (p = Client /\ o = Server) \/ (p = Server /\ o = Client)
  BY Pair
<1>1. TypeOK /\ ProcOK(p) /\ ProcOK(o)
  BY DEF IInv
<1>2. /\ UNCHANGED <<remote_fi_addr, rfa, av, posted, rx_buf, rxcq, txcq>>
      /\ pc[p] = "send" /\ status[p] = "running"
  BY DEF Send, At, receive, transmit, address
<1>3. AddressOK' /\ ReceiveOK' /\ txcq' \in [Procs -> Cqs]
  BY <1>1, <1>2 DEF TypeOK, AddressOK, ReceiveOK, TransmitOK
<1>4. CASE /\ Goto(p, AfterSend(p)) /\ sending' = [sending EXCEPT ![p] = @ + 1]
           /\ \/ inflight' = [inflight EXCEPT ![Peer(p)] = Append(@, Message(p))]
              \/ inflight' = inflight
           /\ UNCHANGED swallowed /\ trouble' \in BOOLEAN
  <2>1. /\ ProcOK(p)' /\ ProcOK(o)' /\ LocalOK'
        /\ sending' \in [Procs -> 0 .. 1] /\ inflight' \in [Procs -> Wires]
    BY <1>2, <1>4, Accepted
  <2>2. FaultsOK'
    BY <1>1, <1>4 DEF TypeOK, FaultsOK
  <2>. QED
    BY <1>3, <2>1, <2>2 DEF IInv, TypeOK, TransmitOK
<1>5. CASE GivesUp(p) /\ UNCHANGED <<inflight, sending>>
  <2>1. /\ ProcOK(p)' /\ LocalOK' /\ FaultsOK' /\ (Sent(p)' <=> Sent(p))
        /\ pc'[o] = pc[o] /\ swallowed'[o] = swallowed[o]
    BY <1>2, <1>5, GivesUpKeeps
  <2>2. Unmoved(o) /\ NothingSent(o)
    BY <1>2, <1>5, <2>1 DEF Unmoved, NothingSent
  <2>3. ProcOK(o)'
    BY <1>1, <2>1, <2>2, OtherKept
  <2>4. TransmitOK'
    BY <1>1, <1>3, <1>5 DEF TypeOK, TransmitOK
  <2>. QED
    BY <1>3, <2>1, <2>3, <2>4 DEF IInv, TypeOK
<1>6. CASE Crash(p) /\ trouble' = TRUE /\ UNCHANGED <<inflight, sending, swallowed>>
  <2>1. /\ Unmoved(p) /\ NothingSent(p) /\ (Sent(o)' <=> Sent(o))
        /\ Unmoved(o) /\ NothingSent(o) /\ (Sent(p)' <=> Sent(p))
    BY <1>2, <1>6 DEF Unmoved, NothingSent, Sent, Early, Crash
  <2>2. ProcOK(p)' /\ ProcOK(o)'
    BY <1>1, <2>1, OtherKept
  <2>3. LocalOK' /\ FaultsOK' /\ TransmitOK'
    BY <1>1, <1>3, <1>6, CrashOK DEF TypeOK, FaultsOK, TransmitOK
  <2>. QED
    BY <1>3, <2>2, <2>3 DEF IInv, TypeOK
<1>7. trouble \in BOOLEAN
  BY <1>1 DEF TypeOK, FaultsOK
<1>. QED
  BY <1>4, <1>5, <1>6, <1>7 DEF Send

LEMMA WaitRxStep ==
  ASSUME IInv, NEW p \in Procs, WaitRx(p)
  PROVE  IInv'
<1>. PICK o \in Procs : /\ o = Peer(p) /\ o # p /\ Peer(o) = p /\ Procs = {p, o}
                        /\ (p = Client /\ o = Server) \/ (p = Server /\ o = Client)
  BY Pair
<1>1. TypeOK /\ ProcOK(p) /\ ProcOK(o)
  BY DEF IInv
<1>2. /\ UNCHANGED <<av, posted, rx_buf, txcq, sending, inflight, swallowed>>
      /\ UNCHANGED <<remote_fi_addr, rfa, trouble>> /\ pc[p] = "wait rx"
  BY DEF WaitRx, At, transmit, address
<1> DEFINE next == IF p = Client THEN "recv" ELSE "av_insert"
<1>3. rxcq[p] \in Cqs
  BY <1>1 DEF TypeOK, ReceiveOK
<1>4. rxcq[p] = <<"done">> /\ Goto(p, next) /\ rxcq' = [rxcq EXCEPT ![p] = <<>>]
  BY <1>3, WaitsOnDone DEF WaitRx, Waits
<1>5. /\ pc'[p] = next /\ pc'[o] = pc[o] /\ rxcq'[p] = <<>> /\ rxcq'[o] = rxcq[o]
  BY <1>1, <1>4 DEF Goto, TypeOK, LocalOK, ReceiveOK
<1>6. TypeOK'
  <2>1. rxcq' \in [Procs -> Cqs]
    BY <1>1, <1>4, EmptyOnes DEF TypeOK, ReceiveOK
  <2>2. LocalOK'
    BY <1>1, <1>4, GotoOK DEF TypeOK, Labels
  <2>. QED
    BY <1>1, <1>2, <2>1, <2>2
       DEF TypeOK, FaultsOK, AddressOK, ReceiveOK, TransmitOK
<1>7. /\ Waiting(p) /\ ~Waiting(p)' /\ Extra(p)' = 0 /\ swallowed[p] = {}
      /\ Sent(p)' <=> Sent(p)
      /\ Sent(o)' <=> Sent(o)
  BY <1>1, <1>2, <1>5 DEF Waiting, Extra, Sent, Early, ProcOK, RoleOK
<1>8. posted[p] = 0 /\ Matched(p)
  <2>1. rxcq[p] # <<>>
    BY <1>4
  <2>. QED
    BY <1>1, <1>7, <2>1 DEF ProcOK, RxOK
<1>9. ProcOK(p)'
  <2>1. RoleOK(p)' /\ TxOK(p)'
    BY <1>1, <1>2, <1>5, <1>7 DEF ProcOK, RoleOK, TxOK
  <2>2. KnowOK(p)'
    BY <1>1, <1>2, <1>5, <1>7 DEF ProcOK, KnowOK
  <2>3. Matched(p)' /\ ~CutShort(p)'
    BY <1>2, <1>7, <1>8 DEF Matched, CutShort
  <2>4. RxOK(p)'
    BY <1>2, <1>5, <1>7, <1>8, <2>3 DEF RxOK
  <2>. QED
    BY <2>1, <2>2, <2>4 DEF ProcOK
<1>10. ProcOK(o)'
  <2>1. Unmoved(o) /\ NothingSent(o)
    BY <1>2, <1>5 DEF Unmoved, NothingSent
  <2>. QED
    BY <1>1, <1>7, <2>1, OtherKept
<1>. QED
  BY <1>6, <1>9, <1>10 DEF IInv

LEMMA WaitTxStep ==
  ASSUME IInv, NEW p \in Procs, WaitTx(p)
  PROVE  IInv'
<1>. PICK o \in Procs : /\ o = Peer(p) /\ o # p /\ Peer(o) = p /\ Procs = {p, o}
                        /\ (p = Client /\ o = Server) \/ (p = Server /\ o = Client)
  BY Pair
<1>1. TypeOK /\ ProcOK(p) /\ ProcOK(o)
  BY DEF IInv
<1>2. /\ UNCHANGED <<av, posted, rx_buf, rxcq, sending, inflight, swallowed>>
      /\ UNCHANGED <<remote_fi_addr, rfa, trouble>> /\ pc[p] = "wait tx"
  BY DEF WaitTx, At, receive, address
<1>3. txcq[p] \in Cqs
  BY <1>1 DEF TypeOK, TransmitOK
<1>4. /\ txcq[p] = <<"done">> /\ Goto(p, "run_test")
      /\ txcq' = [txcq EXCEPT ![p] = <<>>]
  BY <1>3, WaitsOnDone DEF WaitTx, Waits
<1>5. /\ pc'[p] = "run_test" /\ pc'[o] = pc[o] /\ txcq'[p] = <<>> /\ txcq'[o] = txcq[o]
  BY <1>1, <1>4 DEF Goto, TypeOK, LocalOK, TransmitOK
<1>6. TypeOK'
  <2>1. txcq' \in [Procs -> Cqs]
    BY <1>1, <1>4, EmptyOnes DEF TypeOK, TransmitOK
  <2>2. LocalOK'
    BY <1>1, <1>4, GotoOK DEF TypeOK, Labels
  <2>. QED
    BY <1>1, <1>2, <2>1, <2>2
       DEF TypeOK, FaultsOK, AddressOK, ReceiveOK, TransmitOK
<1>7. Sent(p) /\ sending[p] = 0
  <2>1. txcq[p] # <<>>
    BY <1>4
  <2>2. sending[p] = 0 \/ sending[p] = 1
    BY <1>1 DEF TypeOK, TransmitOK
  <2>. QED
    BY <1>1, <2>1, <2>2 DEF ProcOK, TxOK
<1>8. swallowed[p] = {} /\ Sent(p)' /\ (Sent(o)' <=> Sent(o))
  BY <1>2, <1>5, <1>7 DEF Sent, Early
<1>9. ProcOK(p)'
  <2>1. RoleOK(p)' /\ TxOK(p)' /\ KnowOK(p)'
    BY <1>1, <1>2, <1>5, <1>7, <1>8 DEF ProcOK, RoleOK, TxOK, KnowOK
  <2>2. /\ Waiting(p)' <=> Waiting(p)
        /\ CutShort(p)' <=> CutShort(p)
        /\ Extra(p)' = Extra(p)
    BY <1>2, <1>5 DEF Waiting, CutShort, Extra
  <2>3. Matched(p)' <=> Matched(p)
    BY <1>2, <1>8 DEF Matched
  <2>4. RxOK(p)'
    BY <1>1, <1>2, <2>2, <2>3, RxKept DEF ProcOK
  <2>. QED
    BY <2>1, <2>4 DEF ProcOK
<1>10. ProcOK(o)'
  <2>1. Unmoved(o) /\ NothingSent(o) /\ (Sent(p)' <=> Sent(p))
    BY <1>2, <1>5, <1>7, <1>8 DEF Unmoved, NothingSent
  <2>. QED
    BY <1>1, <2>1, OtherKept
<1>. QED
  BY <1>6, <1>9, <1>10 DEF IInv

\* run_test ends at once; what it returns with changes nothing else.
LEMMA RunTestStep ==
  ASSUME IInv, NEW p \in Procs, RunTest(p)
  PROVE  IInv'
<1>1. TypeOK /\ Return(p, 0)
  BY DEF IInv, RunTest
<1>2. UNCHANGED <<pc, address, receive, transmit, inflight, swallowed, trouble>>
  BY DEF RunTest, Return
<1>3. TypeOK'
  <2>1. LocalOK'
    BY <1>1, ReturnOK DEF TypeOK
  <2>. QED
    BY <1>1, <1>2, <2>1 DEF TypeOK, FaultsOK, AddressOK, ReceiveOK, TransmitOK,
                            address, receive, transmit
<1>4. ASSUME NEW q \in Procs PROVE ProcOK(q)'
  <2>1. ProcOK(q)
    BY DEF IInv
  <2>2. Unmoved(q) /\ NothingSent(q) /\ (Sent(Peer(q))' <=> Sent(Peer(q)))
    BY <1>2 DEF Unmoved, NothingSent, Sent, Early, address, receive, transmit
  <2>. QED
    BY <2>1, <2>2, OtherKept
<1>. QED
  BY <1>3, <1>4 DEF IInv

LEMMA StutterStep == IInv /\ UNCHANGED vars => IInv'
<1> SUFFICES ASSUME IInv, UNCHANGED vars PROVE IInv'
  OBVIOUS
<1>1. UNCHANGED <<pc, status, result, address, receive, transmit, inflight, swallowed, trouble>>
  BY DEF vars, local
<1>2. TypeOK'
  BY <1>1 DEF IInv, TypeOK, LocalOK, FaultsOK, AddressOK, ReceiveOK, TransmitOK,
              address, receive, transmit
<1>3. ASSUME NEW q \in Procs PROVE ProcOK(q)'
  <2>1. ProcOK(q)
    BY DEF IInv
  <2>2. Unmoved(q) /\ NothingSent(q) /\ (Sent(Peer(q))' <=> Sent(Peer(q)))
    BY <1>1 DEF Unmoved, NothingSent, Sent, Early, address, receive, transmit
  <2>. QED
    BY <2>1, <2>2, OtherKept
<1>. QED
  BY <1>2, <1>3 DEF IInv

\* A message meets a receive only in a process that is still to wait for it.
LEMMA DeliverStep ==
  ASSUME IInv, NEW p \in Procs, Deliver(p)
  PROVE  IInv'
<1>. PICK o \in Procs : /\ o = Peer(p) /\ o # p /\ Peer(o) = p /\ Procs = {p, o}
                        /\ (p = Client /\ o = Server) \/ (p = Server /\ o = Client)
  BY Pair
<1>1. TypeOK /\ ProcOK(p) /\ ProcOK(o)
  BY DEF IInv
<1>2. /\ UNCHANGED <<pc, status, result, remote_fi_addr, rfa, av, txcq, sending, swallowed>>
      /\ inflight[p] # <<>> /\ posted[p] > 0
      /\ inflight' = [inflight EXCEPT ![p] = Tail(@)]
      /\ posted' = [posted EXCEPT ![p] = @ - 1]
  BY DEF Deliver, local, address, transmit
<1>3. PICK e \in Entry : /\ rxcq' = [rxcq EXCEPT ![p] = Append(@, e)]
                         /\ \/ rx_buf' = [rx_buf EXCEPT ![p] = Head(inflight[p])]
                            \/ rx_buf' = rx_buf
                         /\ trouble' \in BOOLEAN
  BY <1>1 DEF Deliver, Entry, TypeOK, FaultsOK
<1>4. Sent(o) /\ ~Matched(p) /\ ~CutShort(p)
  <2>1. Sent(o)
    BY <1>1, <1>2 DEF ProcOK, TxOK
  <2>2. p = Client => Sent(p)
    BY <2>1, ClientFirst
  <2>. QED
    BY <1>2, <2>1, <2>2 DEF Matched, CutShort, Sent
<1>5. Waiting(p) /\ posted[p] = 1 /\ rxcq[p] = <<>>
  BY <1>1, <1>4 DEF ProcOK, RxOK
<1>6. Tail(inflight[p]) = <<>> /\ Head(inflight[p]) \in {"name", "byte"}
  <2>1. inflight[p] \in {<<"name">>, <<"byte">>}
    BY <1>1, <1>2 DEF TypeOK, TransmitOK, Wires
  <2>2. Tail(<<"name">>) = <<>> /\ Head(<<"name">>) = "name"
    OBVIOUS
  <2>3. Tail(<<"byte">>) = <<>> /\ Head(<<"byte">>) = "byte"
    OBVIOUS
  <2>. QED
    BY <2>1, <2>2, <2>3
<1>7. inflight' = [inflight EXCEPT ![p] = <<>>] /\ posted' = [posted EXCEPT ![p] = 0]
  <2>1. posted[p] - 1 = 0
    BY <1>5
  <2>. QED
    BY <1>2, <1>6, <2>1
<1>8. rxcq' = [rxcq EXCEPT ![p] = <<e>>]
  <2>1. Append(<<>>, e) = <<e>>
    OBVIOUS
  <2>. QED
    BY <1>3, <1>5, <2>1
<1>9. <<e>> \in Cqs /\ <<e>> # <<>>
  BY DEF Cqs
<1>10. /\ inflight'[p] = <<>> /\ inflight'[o] = inflight[o]
       /\ posted'[p] = 0 /\ posted'[o] = posted[o]
       /\ rxcq'[p] = <<e>> /\ rxcq'[o] = rxcq[o]
  BY <1>1, <1>7, <1>8 DEF TypeOK, ReceiveOK, TransmitOK
<1>11. TypeOK'
  <2>1. rxcq' \in [Procs -> Cqs] /\ inflight' \in [Procs -> Wires]
    BY <1>1, <1>7, <1>8, <1>9, EmptyOnes DEF TypeOK, ReceiveOK, TransmitOK
  <2>2. posted' \in [Procs -> 0 .. 2]
    BY <1>1, <1>7 DEF TypeOK, ReceiveOK
  <2>3. rx_buf' \in [Procs -> {"nothing", "name", "byte"}]
    BY <1>1, <1>3, <1>6 DEF TypeOK, ReceiveOK
  <2>4. LocalOK' /\ FaultsOK' /\ AddressOK'
    BY <1>1, <1>2, <1>3 DEF TypeOK, LocalOK, FaultsOK, AddressOK
  <2>5. TransmitOK'
    BY <1>1, <1>2, <2>1 DEF TypeOK, TransmitOK
  <2>. QED
    BY <2>1, <2>2, <2>3, <2>4, <2>5 DEF TypeOK, ReceiveOK
<1>12. /\ Sent(p)' <=> Sent(p)
       /\ Sent(o)' <=> Sent(o)
  BY <1>2 DEF Sent, Early
<1>13. ProcOK(p)'
  <2>1. RoleOK(p)' /\ KnowOK(p)'
    BY <1>1, <1>2, <1>12 DEF ProcOK, RoleOK, KnowOK
  <2>2. TxOK(p)'
    BY <1>1, <1>2, <1>10, <1>12 DEF ProcOK, TxOK
  <2>3. Waiting(p)' /\ Matched(p)'
    BY <1>2, <1>4, <1>5, <1>10, <1>12 DEF Waiting, Matched
  <2>4. RxOK(p)'
    BY <1>9, <1>10, <2>3 DEF RxOK
  <2>. QED
    BY <2>1, <2>2, <2>4 DEF ProcOK
<1>14. ProcOK(o)'
  <2>1. Unmoved(o) /\ NothingSent(o)
    BY <1>2, <1>10 DEF Unmoved, NothingSent
  <2>. QED
    BY <1>1, <1>12, <2>1, OtherKept
<1>. QED
  BY <1>11, <1>13, <1>14 DEF IInv

\* A send completes, with success or in error.
LEMMA SendEndsStep ==
  ASSUME IInv, NEW p \in Procs, CompleteSend(p) \/ FailSend(p)
  PROVE  IInv'
<1>. PICK o \in Procs : /\ o = Peer(p) /\ o # p /\ Peer(o) = p /\ Procs = {p, o}
                        /\ (p = Client /\ o = Server) \/ (p = Server /\ o = Client)
  BY Pair
<1>1. TypeOK /\ ProcOK(p) /\ ProcOK(o)
  BY DEF IInv
<1>2. /\ UNCHANGED <<pc, status, result, remote_fi_addr, rfa, av, posted, rx_buf,
                     rxcq, swallowed>>
      /\ sending[p] > 0 /\ sending' = [sending EXCEPT ![p] = @ - 1]
  BY DEF CompleteSend, FailSend, local, address, receive
<1>3. PICK e \in Entry : txcq' = [txcq EXCEPT ![p] = Append(@, e)]
  BY DEF CompleteSend, FailSend, Entry
<1>4. /\ inflight' = inflight \/ inflight' = [inflight EXCEPT ![o] = <<>>]
      /\ trouble' \in BOOLEAN
  BY <1>1 DEF CompleteSend, FailSend, TypeOK, FaultsOK
<1>5. sending[p] = 1
  BY <1>1, <1>2 DEF TypeOK, TransmitOK
<1>6. Sent(p) /\ txcq[p] = <<>> /\ pc[p] # "run_test"
  BY <1>1, <1>5 DEF ProcOK, TxOK
<1>7. txcq' = [txcq EXCEPT ![p] = <<e>>] /\ sending' = [sending EXCEPT ![p] = 0]
  <2>1. Append(<<>>, e) = <<e>>
    OBVIOUS
  <2>. QED
    BY <1>2, <1>3, <1>5, <1>6, <2>1
<1>8. /\ sending'[p] = 0 /\ sending'[o] = sending[o] /\ txcq'[o] = txcq[o]
      /\ inflight'[p] = inflight[p]
      /\ inflight'[o] = inflight[o] \/ inflight'[o] = <<>>
  BY <1>1, <1>4, <1>7 DEF TypeOK, TransmitOK
<1>9. TypeOK'
  <2>1. <<e>> \in Cqs
    BY DEF Cqs
  <2>2. TransmitOK'
    BY <1>1, <1>4, <1>7, <2>1, EmptyOnes DEF TypeOK, TransmitOK
  <2>. QED
    BY <1>1, <1>2, <1>4, <2>2 DEF TypeOK, LocalOK, FaultsOK, AddressOK, ReceiveOK
<1>10. /\ Sent(p)' <=> Sent(p)
       /\ Sent(o)' <=> Sent(o)
  BY <1>2 DEF Sent, Early
<1>11. ProcOK(p)'
  <2>1. RoleOK(p)' /\ KnowOK(p)' /\ TxOK(p)'
    <3>1. RoleOK(p)' /\ KnowOK(p)'
      BY <1>1, <1>2, <1>10 DEF ProcOK, RoleOK, KnowOK
    <3>2. Sent(p)' /\ sending'[p] # 1 /\ pc'[p] # "run_test"
      BY <1>2, <1>6, <1>8, <1>10
    <3>3. TxOK(p)'
      BY <3>2 DEF TxOK
    <3>. QED
      BY <3>1, <3>3
  <2>2. /\ Waiting(p)' <=> Waiting(p)
        /\ CutShort(p)' <=> CutShort(p)
        /\ Extra(p)' = Extra(p)
    BY <1>2 DEF Waiting, CutShort, Extra
  <2>3. Matched(p)' <=> Matched(p)
    BY <1>8, <1>10 DEF Matched
  <2>4. RxOK(p)'
    BY <1>1, <1>2, <2>2, <2>3, RxKept DEF ProcOK
  <2>. QED
    BY <2>1, <2>4 DEF ProcOK
<1>12. ProcOK(o)'
  <2>1. Unmoved(o) /\ NothingSent(o)
    BY <1>2, <1>8 DEF Unmoved, NothingSent
  <2>. QED
    BY <1>1, <1>10, <2>1, OtherKept
<1>. QED
  BY <1>9, <1>11, <1>12 DEF IInv

-----------------------------------------------------------------------------
\* What each point of init_av says about the sends and receives behind it holds
\* throughout, for any interleaving of the processes with the provider.
THEOREM Invariance == Spec => []IInv
<1>1. ASSUME IInv, [Next]_vars PROVE IInv'
  <2>1. ASSUME NEW p \in Procs, Step(p) PROVE IInv'
    BY <1>1, <2>1, AvInsertStep, GetnameStep, SendStep, WaitRxStep, RecvStep,
       WaitTxStep, RunTestStep DEF Step
  <2>2. ASSUME NEW p \in Procs, Provider(p) PROVE IInv'
    BY <1>1, <2>2, DeliverStep, SendEndsStep DEF Provider
  <2>3. CASE UNCHANGED vars
    BY <1>1, <2>3, StutterStep
  <2>. QED
    BY <1>1, <2>1, <2>2, <2>3 DEF Next, Idle
<1>. QED
  BY <1>1, InitIInv, PTL DEF Spec

\* Every variable keeps a value of its kind, and no completion queue ever holds
\* more than one entry.
THEOREM TypeCorrect == Spec => []TypeOK
<1>1. IInv => TypeOK
  BY DEF IInv
<1>. QED
  BY <1>1, Invariance, PTL

\* A process enters run_test with one receive posted and no completion left
\* over from the address exchange.
THEOREM ReadyOnEntry == Spec => []ReadyForTest
<1>1. ASSUME IInv PROVE ReadyForTest
  <2> SUFFICES ASSUME NEW p \in Procs, At(p, "run_test")
               PROVE  /\ posted[p] = 1 /\ sending[p] = 0
                      /\ rxcq[p] = <<>> /\ txcq[p] = <<>>
    BY DEF ReadyForTest
  <2>1. pc[p] = "run_test" /\ ProcOK(p)
    BY <1>1 DEF At, IInv
  <2>2. ~Waiting(p) /\ ~CutShort(p) /\ Extra(p) = 1
    BY <2>1 DEF ProcOK, RoleOK, Waiting, CutShort, Extra
  <2>. QED
    BY <2>1, <2>2 DEF ProcOK, TxOK, RxOK
<1>. QED
  BY <1>1, Invariance, PTL

-----------------------------------------------------------------------------
\* The variables of Rendezvous as AvExchange has them.
Knows == {p \in Procs : av[p] # {}}
Good == {p \in Procs : Succeeded(p)}
Bad == {p \in Procs : \/ status[p] = "crashed"
                      \/ /\ status[p] = "returned"
                         /\ result[p] # 0}

\* A process that reaches run_test knows the other, and is known to it.
LEMMA EnoughKnown ==
  ASSUME IInv, NEW p \in Procs, pc[p] = "run_test"
  PROVE  Knows = Procs
<1>1. ProcOK(p) /\ ProcOK(Peer(p)) /\ Procs = {p, Peer(p)}
  BY Pair DEF IInv
<1>2. Sent(p) /\ ~Waiting(p) /\ ~CutShort(p)
  BY <1>1 DEF ProcOK, RoleOK, Sent, Early, Waiting, CutShort
<1>3. Sent(Peer(p))
  BY <1>1, <1>2 DEF ProcOK, RxOK, Matched
<1>. QED
  BY <1>1, <1>2, <1>3 DEF ProcOK, KnowOK, Knows

\* A step that changes no status and no address vector is none of Rendezvous.
LEMMA Unseen ==
  ASSUME UNCHANGED <<status, result, av>>
  PROVE  Knows' = Knows /\ Good' = Good /\ Bad' = Bad
BY DEF Knows, Good, Bad, Succeeded

LEMMA FailSeen ==
  ASSUME IInv, NEW p \in Procs, status[p] = "running", UNCHANGED av,
         \/ Crash(p)
         \/ \E code \in Codes : Return(p, code)
  PROVE  /\ p \notin Good \cup Bad /\ Knows' = Knows
         /\ Good' = Good /\ Bad' = Bad \cup {p}
<1>1. /\ status \in [Procs -> {"running", "returned", "crashed"}]
      /\ result \in [Procs -> Codes \cup {0}]
  BY DEF IInv, TypeOK, LocalOK
<1>2. /\ status'[p] = "crashed" \/ (status'[p] = "returned" /\ result'[p] # 0)
      /\ \A q \in Procs \ {p} : status'[q] = status[q] /\ result'[q] = result[q]
  BY <1>1, CodesAssumption DEF Crash, Return
<1>. QED
  BY <1>2 DEF Knows, Good, Bad, Succeeded

LEMMA MeetingStep ==
  ASSUME IInv, [Next]_vars
  PROVE  [Meeting!RendezvousNext]_<<Knows, Good, Bad>>
<1>1. ASSUME NEW p \in Procs, AvInsert(p)
      PROVE  \/ Knows' = Knows /\ Good' = Good /\ Bad' = Bad
             \/ /\ p \notin Knows \cup Good \cup Bad
                /\ p = Server => Client \in Knows
                /\ Knows' = Knows \cup {p} /\ Good' = Good /\ Bad' = Bad
  <2>1. /\ pc[p] = "av_insert" /\ status[p] = "running"
        /\ UNCHANGED <<status, result>>
    BY <1>1 DEF AvInsert, At, Goto, GivesUp
  <2>2. CASE UNCHANGED av
    BY <2>1, <2>2, Unseen
  <2>3. CASE av' = [av EXCEPT ![p] = {Peer(p)}]
    <3>1. ProcOK(p) /\ av \in [Procs -> SUBSET Procs]
      BY DEF IInv, TypeOK, AddressOK
    <3>2. p \notin Knows \cup Good \cup Bad
      BY <2>1, <3>1 DEF Knows, Good, Bad, Succeeded, ProcOK, KnowOK
    <3>3. ASSUME p = Server PROVE Client \in Knows
      <4>1. ~Waiting(Server)
        BY <2>1, <3>3, ProcsAssumption DEF Waiting
      <4>2. Sent(Client) /\ Client \in Procs
        BY <4>1, ClientFirst DEF Procs
      <4>3. ProcOK(Client)
        BY <4>2 DEF IInv
      <4>. QED
        BY <4>2, <4>3 DEF ProcOK, KnowOK, Knows
    <3>4. Knows' = Knows \cup {p}
      BY <2>3, <3>1 DEF Knows
    <3>5. Good' = Good /\ Bad' = Bad
      BY <2>1 DEF Good, Bad, Succeeded
    <3>. QED
      BY <3>2, <3>3, <3>4, <3>5
  <2>. QED
    BY <1>1, <2>2, <2>3 DEF AvInsert
<1>2. ASSUME NEW p \in Procs, RunTest(p)
      PROVE  /\ p \notin Good \cup Bad /\ Knows = Procs
             /\ Knows' = Knows /\ Good' = Good \cup {p} /\ Bad' = Bad
  <2>1. pc[p] = "run_test" /\ status[p] = "running" /\ Return(p, 0) /\ av' = av
    BY <1>2 DEF RunTest, At, address
  <2>2. /\ status \in [Procs -> {"running", "returned", "crashed"}]
        /\ result \in [Procs -> Codes \cup {0}]
    BY DEF IInv, TypeOK, LocalOK
  <2>3. /\ status'[p] = "returned" /\ result'[p] = 0
        /\ \A q \in Procs \ {p} : status'[q] = status[q] /\ result'[q] = result[q]
    BY <2>1, <2>2 DEF Return
  <2>4. Knows = Procs
    BY <2>1, EnoughKnown
  <2>. QED
    BY <2>1, <2>3, <2>4 DEF Knows, Good, Bad, Succeeded
<1>3. ASSUME NEW p \in Procs, Send(p) \/ Recv(p)
      PROVE  \/ Knows' = Knows /\ Good' = Good /\ Bad' = Bad
             \/ /\ p \notin Good \cup Bad /\ Knows' = Knows
                /\ Good' = Good /\ Bad' = Bad \cup {p}
  <2>1. /\ status[p] = "running" /\ UNCHANGED av
        /\ \/ UNCHANGED <<status, result>>
           \/ Crash(p)
           \/ \E code \in Codes : Return(p, code)
    BY <1>3 DEF Send, Recv, At, address, Goto, GivesUp
  <2>. QED
    BY <2>1, Unseen, FailSeen
<1>4. ASSUME NEW p \in Procs, Getname(p) \/ WaitRx(p) \/ WaitTx(p) \/ Provider(p)
      PROVE  Knows' = Knows /\ Good' = Good /\ Bad' = Bad
  <2>1. rxcq[p] \in Cqs /\ txcq[p] \in Cqs
    BY DEF IInv, TypeOK, ReceiveOK, TransmitOK
  <2>2. UNCHANGED <<status, result, av>>
    BY <1>4, <2>1, WaitsOnDone
       DEF Getname, WaitRx, WaitTx, Waits, Provider, Deliver, CompleteSend, FailSend,
           Goto, GivesUp, address, local
  <2>. QED
    BY <2>2, Unseen
<1>5. ASSUME UNCHANGED vars
      PROVE  Knows' = Knows /\ Good' = Good /\ Bad' = Bad
  BY <1>5, Unseen DEF vars, local, address
<1>6. \/ Knows' = Knows /\ Good' = Good /\ Bad' = Bad
      \/ \E p \in Procs : Meeting!Learn(p) \/ Meeting!Succeed(p) \/ Meeting!Fail(p)
  <2>1. Meeting!Parties = Procs
    BY DEF Meeting!Parties, Procs
  <2>. QED
    BY <1>1, <1>2, <1>3, <1>4, <1>5, <2>1
       DEF Next, Idle, Step, Meeting!Learn, Meeting!Succeed, Meeting!Fail,
           Knows, Good, Bad
<1>. QED
  BY <1>6 DEF Meeting!RendezvousNext, Meeting!Parties, Procs

\* The exchange keeps the promise of Rendezvous: although init_av drops the
\* codes of init_av_a and init_av_b, whoever gets 0 from run has met the other.
THEOREM ImplementsMeeting == Spec => ExchangeIsMeeting
<1>1. Init => Meeting!RendezvousInit
  <2> SUFFICES ASSUME Init PROVE Meeting!RendezvousInit
    OBVIOUS
  <2>1. \A p \in Procs : status[p] = "running" /\ av[p] = {}
    BY DEF Init
  <2>. QED
    BY <2>1 DEF Meeting!RendezvousInit, Succeeded
<1>2. IInv /\ [Next]_vars => [Meeting!RendezvousNext]_(Meeting!rendezvousVars)
  BY MeetingStep DEF Meeting!rendezvousVars, Knows, Good, Bad
<1>. QED
  BY <1>1, <1>2, Invariance, PTL
     DEF Spec, ExchangeIsMeeting, Meeting!RendezvousSpec
=============================================================================
