----------------------------- MODULE AvExchange -----------------------------
(***************************************************************************)
(* init_av and run_test of Scalable.hs between two processes: the stages   *)
(* of run behind init_fabric (module FabricSetup).  The client (init_av_a) *)
(* inserts the server's address and sends its own name, the server         *)
(* (init_av_b) inserts the name it receives and replies with one byte, and *)
(* both then post a receive again and wait for their send to complete.     *)
(* Both talk over context 0: one transmit and one receive context, each    *)
(* with its completion queue, and one receive posted by bind_ep_res.       *)
(***************************************************************************)
EXTENDS CompletionQueue

CONSTANTS Client, Server,   \* the two processes
          Codes             \* nonzero codes libfabric calls fail with

ASSUME ProcsAssumption == Client # Server
ASSUME CodesAssumption == Codes \subseteq Int \ {0}

VARIABLES
  pc,               \* the call a process is about to make, or that ended it
  status, result,   \* of run, per process
  remote_fi_addr,   \* cell of Env: "peer" if it denotes the other process
  rfa,              \* that cell as read before the address is inserted
  av,               \* addresses in the process's address vector
  posted,           \* receives posted on rx_ep[0] and not yet matched
  rx_buf,           \* what the process last received
  rxcq, txcq,       \* rxcq_array[0] and txcq_array[0]
  sending,          \* sends not yet completed
  inflight,         \* messages on their way to a process
  swallowed,        \* calls that failed and whose code was dropped
  trouble           \* something has failed somewhere

local == <<pc, status, result>>
address == <<remote_fi_addr, rfa, av>>
receive == <<posted, rx_buf, rxcq>>
transmit == <<txcq, sending>>
vars == <<local, address, receive, transmit, inflight, swallowed, trouble>>

Procs == {Client, Server}
Peer(p) == IF p = Client THEN Server ELSE Client

\* The client's message is its name; the server's reply is a single byte.
Message(p) == IF p = Client THEN "name" ELSE "byte"

-----------------------------------------------------------------------------
\* init_fabric is behind both; init_av_a and init_av_b read remote_fi_addr, in
\* which nothing has been written, before they do anything else.
Init ==
  /\ pc = [p \in Procs |-> IF p = Client THEN "av_insert" ELSE "wait rx"]
  /\ status = [p \in Procs |-> "running"]
  /\ result = [p \in Procs |-> 0]
  /\ remote_fi_addr \in [Procs -> {"junk", "peer"}]
  /\ rfa = remote_fi_addr
  /\ av = [p \in Procs |-> {}]
  /\ posted = [p \in Procs |-> 1]
  /\ rx_buf = [p \in Procs |-> "nothing"]
  /\ rxcq = [p \in Procs |-> <<>>]
  /\ txcq = [p \in Procs |-> <<>>]
  /\ sending = [p \in Procs |-> 0]
  /\ inflight = [p \in Procs |-> <<>>]
  /\ swallowed = [p \in Procs |-> {}]
  /\ trouble = FALSE

At(p, label) == status[p] = "running" /\ pc[p] = label
Goto(p, label) == pc' = [pc EXCEPT ![p] = label] /\ UNCHANGED <<status, result>>
Return(p, code) ==
  /\ status' = [status EXCEPT ![p] = "returned"]
  /\ result' = [result EXCEPT ![p] = code]
  /\ UNCHANGED pc
Crash(p) ==
  /\ status' = [status EXCEPT ![p] = "crashed"]
  /\ UNCHANGED <<pc, result>>

\* A call of init_av_a or init_av_b fails: the rest of that chain is skipped,
\* and init_av drops the code and goes on to its own chain.
GivesUp(p) ==
  /\ Goto(p, "recv")
  /\ swallowed' = [swallowed EXCEPT ![p] = @ \cup {pc[p]}]
  /\ trouble' = TRUE

\* Mutant: the caller goes on whatever the queue had to say.
WaitsNot(p, cq, next) == next

\* wait_for_comp reads an empty or failed queue again and again.
Waits(p, cq, next) ==
  /\ ~ReadsAgain(CqRead(cq))
  /\ IF WaitResult(CqRead(cq)) = 0 THEN next
                                   ELSE Return(p, WaitResult(CqRead(cq)))

-----------------------------------------------------------------------------
\* ft_av_insert of the peer's address; 0 when all of the one address went in.
\* The client takes it from fi->dest_addr, the server from rx_buf.
AvInsert(p) ==
  /\ At(p, "av_insert")
  /\ \/ /\ p = Client \/ rx_buf[p] = "name"
        /\ av' = [av EXCEPT ![p] = {Peer(p)}]
        /\ remote_fi_addr' = [remote_fi_addr EXCEPT ![p] = "peer"]
        /\ Goto(p, IF p = Client THEN "getname" ELSE "send")
        /\ UNCHANGED <<swallowed, trouble>>
     \/ /\ \E left \in {"junk", remote_fi_addr[p]} :
             remote_fi_addr' = [remote_fi_addr EXCEPT ![p] = left]
        /\ GivesUp(p)
        /\ UNCHANGED av
  /\ UNCHANGED <<rfa, receive, transmit, inflight>>

Getname(p) ==
  /\ At(p, "getname")
  /\ \/ Goto(p, "send") /\ UNCHANGED <<swallowed, trouble>>
     \/ GivesUp(p)
  /\ UNCHANGED <<address, receive, transmit, inflight>>

\* Mutant: the server too waits for an answer to its message.
AfterSendWait(p) == "wait rx"

\* Mutant: the client does not wait for the reply to its message.
AfterSendOn(p) == "recv"

\* After a send the client waits for the reply; the server's part is over.
AfterSend(p) == IF p = Client THEN "wait rx" ELSE "recv"

\* fi_send to the address read before the insertion.  A stale address may be
\* refused, reach nobody, or take the process down.
Send(p) ==
  /\ At(p, "send")
  /\ \/ /\ rfa[p] = "peer"
        /\ inflight' = [inflight EXCEPT ![Peer(p)] = Append(@, Message(p))]
        /\ sending' = [sending EXCEPT ![p] = @ + 1]
        /\ Goto(p, AfterSend(p))
        /\ UNCHANGED <<swallowed, trouble>>
     \/ /\ rfa[p] = "junk"
        /\ sending' = [sending EXCEPT ![p] = @ + 1]
        /\ Goto(p, AfterSend(p))
        /\ trouble' = TRUE
        /\ UNCHANGED <<inflight, swallowed>>
     \/ GivesUp(p) /\ UNCHANGED <<inflight, sending>>
     \/ /\ rfa[p] = "junk"
        /\ Crash(p)
        /\ trouble' = TRUE
        /\ UNCHANGED <<inflight, sending, swallowed>>
  /\ UNCHANGED <<address, receive, txcq>>

\* init_av_a ends, and init_av_b starts, with wait_for_comp on rxcq_array[0].
WaitRx(p) ==
  /\ At(p, "wait rx")
  /\ Waits(p, rxcq[p], Goto(p, IF p = Client THEN "recv" ELSE "av_insert"))
  /\ rxcq' = [rxcq EXCEPT ![p] = CqAfterRead(@)]
  /\ UNCHANGED <<address, posted, rx_buf, transmit, inflight, swallowed,
                 trouble>>

\* The chain of init_av itself: post a receive |-> wait for the send.  The
\* addresses fi_rx_addr computes just before are dropped.
Recv(p) ==
  /\ At(p, "recv")
  /\ \/ /\ posted' = [posted EXCEPT ![p] = @ + 1]
        /\ Goto(p, "wait tx")
        /\ UNCHANGED trouble
     \/ /\ \E code \in Codes : Return(p, code)
        /\ trouble' = TRUE
        /\ UNCHANGED posted
  /\ UNCHANGED <<address, rx_buf, rxcq, transmit, inflight, swallowed>>

WaitTx(p) ==
  /\ At(p, "wait tx")
  /\ Waits(p, txcq[p], Goto(p, "run_test"))
  /\ txcq' = [txcq EXCEPT ![p] = CqAfterRead(@)]
  /\ UNCHANGED <<address, receive, sending, inflight, swallowed, trouble>>

\* The first two clauses of run_test_send (the client) and run_test_recv: the
\* transfer is over at context i when the last code was ret.  The third, which
\* sends or receives on context i, is behind them.
TransferOver(p, i, ret) == (i = IF p = Client THEN 2 ELSE 0) \/ ret = 0

\* run_test starts the transfer with context 0 and code 0.
RunTest(p) ==
  /\ At(p, "run_test")
  /\ TransferOver(p, 0, 0)
  /\ Return(p, 0)
  /\ UNCHANGED <<address, receive, transmit, inflight, swallowed, trouble>>

Step(p) == \/ AvInsert(p) \/ Getname(p) \/ Send(p)
           \/ WaitRx(p) \/ Recv(p) \/ WaitTx(p) \/ RunTest(p)

-----------------------------------------------------------------------------
\* The provider matches a message with a posted receive, or fails the receive.
Deliver(p) ==
  /\ inflight[p] # <<>> /\ posted[p] > 0
  /\ inflight' = [inflight EXCEPT ![p] = Tail(@)]
  /\ posted' = [posted EXCEPT ![p] = @ - 1]
  /\ \/ /\ rx_buf' = [rx_buf EXCEPT ![p] = Head(inflight[p])]
        /\ rxcq' = [rxcq EXCEPT ![p] = Append(@, "done")]
        /\ UNCHANGED trouble
     \/ /\ rxcq' = [rxcq EXCEPT ![p] = Append(@, "error")]
        /\ trouble' = TRUE
        /\ UNCHANGED rx_buf
  /\ UNCHANGED <<local, address, transmit, swallowed>>

\* The provider completes a send, before or after its message is delivered.
CompleteSend(p) ==
  /\ sending[p] > 0
  /\ sending' = [sending EXCEPT ![p] = @ - 1]
  /\ txcq' = [txcq EXCEPT ![p] = Append(@, "done")]
  /\ UNCHANGED <<local, address, receive, inflight, swallowed, trouble>>

\* A send fails after it was accepted: its message, if it was not delivered
\* yet, never will be.
FailSend(p) ==
  /\ sending[p] > 0
  /\ sending' = [sending EXCEPT ![p] = @ - 1]
  /\ txcq' = [txcq EXCEPT ![p] = Append(@, "error")]
  /\ inflight' = [inflight EXCEPT ![Peer(p)] = <<>>]
  /\ trouble' = TRUE
  /\ UNCHANGED <<local, address, receive, swallowed>>

Provider(p) == Deliver(p) \/ CompleteSend(p) \/ FailSend(p)

Ended(p) ==
  \/ status[p] # "running"
  \/ At(p, "wait rx") /\ ReadsAgain(CqRead(rxcq[p]))
  \/ At(p, "wait tx") /\ ReadsAgain(CqRead(txcq[p]))

\* Processes that have ended, or only poll, leave the state as it is.
Idle == (\A p \in Procs : Ended(p)) /\ UNCHANGED vars

Next == (\E p \in Procs : Step(p) \/ Provider(p)) \/ Idle

Spec == Init /\ [][Next]_vars

\* Each process keeps running, and the provider keeps delivering messages for
\* which there is a receive and completing sends.
FairSpec ==
  /\ Spec
  /\ \A p \in Procs :
       /\ WF_vars(Step(p))
       /\ WF_vars(Deliver(p))
       /\ WF_vars(CompleteSend(p) \/ FailSend(p))

-----------------------------------------------------------------------------
Labels ==
  {"av_insert", "getname", "send", "wait rx", "recv", "wait tx", "run_test"}

LocalOK ==
  /\ pc \in [Procs -> Labels]
  /\ status \in [Procs -> {"running", "returned", "crashed"}]
  /\ result \in [Procs -> Codes \cup {0}]
FaultsOK ==
  /\ swallowed \in [Procs -> SUBSET Labels]
  /\ trouble \in BOOLEAN
AddressOK ==
  /\ remote_fi_addr \in [Procs -> {"junk", "peer"}]
  /\ rfa \in [Procs -> {"junk", "peer"}]
  /\ av \in [Procs -> SUBSET Procs]
Cqs == {<<>>} \cup {<<e>> : e \in Entry}
ReceiveOK ==
  /\ posted \in [Procs -> 0 .. 2]
  /\ rx_buf \in [Procs -> {"nothing", "name", "byte"}]
  /\ rxcq \in [Procs -> Cqs]
Wires == {<<>>, <<"name">>, <<"byte">>}
TransmitOK ==
  /\ txcq \in [Procs -> Cqs]
  /\ sending \in [Procs -> 0 .. 1]
  /\ inflight \in [Procs -> Wires]

\* Every variable has a value of its kind, and no queue ever holds more than
\* the one completion that the exchange can produce on it.
TypeOK == LocalOK /\ FaultsOK /\ AddressOK /\ ReceiveOK /\ TransmitOK

Succeeded(p) == status[p] = "returned" /\ result[p] = 0

\* A process whose init_av returned 0 enters run_test with exactly one receive
\* posted on context 0 and both its queues empty: no completion of the
\* exchange is left to be taken for one of the test messages.
ReadyForTest ==
  \A p \in Procs : At(p, "run_test") =>
    /\ posted[p] = 1 /\ sending[p] = 0
    /\ rxcq[p] = <<>> /\ txcq[p] = <<>>

\* Although init_av drops the codes of init_av_a and init_av_b, 0 from run in
\* either process means that both have each other's address: the wait for its
\* own send cannot end in a process whose chain was cut short.
Meeting == INSTANCE Rendezvous
             WITH knows <- {p \in Procs : av[p] # {}},
                  succeeded <- {p \in Procs : Succeeded(p)},
                  failed <- {p \in Procs : \/ status[p] = "crashed"
                                           \/ /\ status[p] = "returned"
                                              /\ result[p] # 0}
ExchangeIsMeeting == Meeting!RendezvousSpec

\* When no call fails, the two processes find each other and both return 0:
\* neither waits for a message that the other sends only later.
BothReturn ==
  [](~trouble) => <>(\A p \in Procs : Succeeded(p))

-----------------------------------------------------------------------------
\* The C reference leaves the loop of wait_for_comp on an error
\* (Scalable.hs:418-427); here the wait never ends.
ErrorEndsWait ==
  \A p \in Procs :
    (At(p, "wait tx") /\ txcq[p] = <<"error">>) ~> (status[p] # "running")

\* The C reference of run_test sends a message on every context and returns 0
\* once the server has received them (Scalable.hs:463-499); here 0 from both
\* leaves the server with what the exchange sent it.
DataReceived ==
  (\A p \in Procs : Succeeded(p)) => rx_buf[Server] \notin {"name", "byte"}
=============================================================================
