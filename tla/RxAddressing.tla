---------------------------- MODULE RxAddressing ----------------------------
(***************************************************************************)
(* How the receive contexts of a peer get their addresses: alloc_ep_res    *)
(* reserves the top rx_ctx_bits bits of an fi_addr_t for the context       *)
(* (ctxShiftR), and init_av puts each context's index there (fi_rx_addr).  *)
(* An fi_addr_t has Width bits, 64 in fabric.h.                            *)
(***************************************************************************)
EXTENDS Integers

CONSTANTS Width,     \* bits of an fi_addr_t
          CtxCounts, \* values of Env.ctx_cnt
          Addrs      \* addresses the provider may hand out for the peer

\* 2 to the n
Pow2[n \in Nat] == IF n = 0 THEN 1 ELSE 2 * Pow2[n - 1]

\* An fi_addr_t is the set of the bits that are 1 in it.
Positions == 0 .. Width - 1

ASSUME WidthAssumption == Width \in Nat \ {0}
\* Env.ctx_cnt is a CInt, which has 31 bits for the number and not 63.
ASSUME CtxCountsAssumption ==
  CtxCounts \subseteq Nat /\ \A n \in CtxCounts : n < Pow2[Width - 1]
ASSUME AddrsAssumption == Addrs \subseteq SUBSET Positions

VARIABLES
  ctx_cnt,         \* Env.ctx_cnt
  remote_fi_addr,  \* what fi_av_insert stored for the peer
  r,               \* the second argument of ctxShiftR
  av_bits,         \* av_attr.rx_ctx_bits once it is poked, -1 before
  x,               \* the context init_av is at
  rx_addr,         \* what fi_rx_addr returned for the one before
  phase            \* "bits", "addresses" or "done"

vars == <<ctx_cnt, remote_fi_addr, r, av_bits, x, rx_addr, phase>>

\* Env.rx_ctx_bits is 0 and nothing changes it.
rx_ctx_bits == 0

\* The right shift of a number that is not negative.
ShiftR(n, bits) == n \div Pow2[bits]

\* A context's index as a uint64_t, and the left shift of one.
BitsOf(n) == {k \in Positions : ShiftR(n, k) % 2 = 1}
ShiftL(a, bits) == {k \in Positions : k - bits \in a}

\* fi_rx_addr of fi_domain.h, a 64-bit shift and an or.  A shift by all Width
\* bits is undefined in C: the hardware shifts by 0, the compiler may fold the
\* term to 0.
RxAddrs(addr, index, bits) ==
  LET shifted == IF bits = 0 THEN {BitsOf(index), {}}
                             ELSE {ShiftL(BitsOf(index), Width - bits)}
  IN {s \cup addr : s \in shifted}

-----------------------------------------------------------------------------
Init ==
  /\ ctx_cnt \in CtxCounts
  /\ remote_fi_addr \in Addrs
  /\ r = rx_ctx_bits
  /\ av_bits = -1
  /\ x = 0 /\ rx_addr = {} /\ phase = "bits"

\* Mutant: the recursion stops one bit early, and returns that many.
ShiftDoneEarly ==
  /\ phase = "bits" /\ ShiftR(ctx_cnt, r) <= 1
  /\ av_bits' = r
  /\ phase' = "addresses"
  /\ UNCHANGED <<ctx_cnt, remote_fi_addr, r, x, rx_addr>>

\* ctxShiftR calls itself while ctx_cnt has bits left above r.
ShiftAgain ==
  /\ phase = "bits" /\ ShiftR(ctx_cnt, r) > 0
  /\ r' = r + 1
  /\ UNCHANGED <<ctx_cnt, remote_fi_addr, av_bits, x, rx_addr, phase>>

ShiftDone ==
  /\ phase = "bits" /\ ShiftR(ctx_cnt, r) <= 0
  /\ av_bits' = r + 1
  /\ phase' = "addresses"
  /\ UNCHANGED <<ctx_cnt, remote_fi_addr, r, x, rx_addr>>

\* Mutant: the loop includes the context after the last.
AddressOneMore ==
  /\ phase = "addresses" /\ x <= ctx_cnt
  /\ rx_addr' \in RxAddrs(remote_fi_addr, x, rx_ctx_bits)
  /\ x' = x + 1
  /\ UNCHANGED <<ctx_cnt, remote_fi_addr, r, av_bits, phase>>

\* init_av computes the address of every context with Env.rx_ctx_bits, and
\* drops it: remote_rx_addr is never written.
Address ==
  /\ phase = "addresses" /\ x < ctx_cnt
  /\ rx_addr' \in RxAddrs(remote_fi_addr, x, rx_ctx_bits)
  /\ x' = x + 1
  /\ UNCHANGED <<ctx_cnt, remote_fi_addr, r, av_bits, phase>>

\* Mutant: the loop waits for an index that it never reaches.
AddressesDoneLater ==
  /\ phase = "addresses" /\ x > ctx_cnt
  /\ phase' = "done"
  /\ UNCHANGED <<ctx_cnt, remote_fi_addr, r, av_bits, x, rx_addr>>

AddressesDone ==
  /\ phase = "addresses" /\ x = ctx_cnt
  /\ phase' = "done"
  /\ UNCHANGED <<ctx_cnt, remote_fi_addr, r, av_bits, x, rx_addr>>

Finished == phase = "done" /\ UNCHANGED vars

Next == ShiftAgain \/ ShiftDone \/ Address \/ AddressesDone \/ Finished

\* Neither recursion blocks.
Spec == Init /\ [][Next]_vars /\ WF_vars(Next)

-----------------------------------------------------------------------------
\* Every variable has a value of its kind; init_av computes an address for no
\* context beyond the last, and never more bits are reserved than there are.
TypeOK ==
  /\ ctx_cnt \in CtxCounts /\ remote_fi_addr \in Addrs
  /\ r \in 0 .. Width - 1
  /\ av_bits \in -1 .. Width
  /\ x \in 0 .. ctx_cnt
  /\ rx_addr \subseteq Positions
  /\ phase \in {"bits", "addresses", "done"}

\* What an fi_addr_t says when its top `bits' bits are a context.
Context(a, bits) == {k \in 0 .. bits - 1 : k + (Width - bits) \in a}
Base(a, bits) == {k \in a : k < Width - bits}

\* With the bits that alloc_ep_res reserves, fi_rx_addr gives every context of
\* the peer an address from which the peer can be read back, and the context:
\* that one and no other.  The extra bit ctxShiftR adds costs address space
\* but no context.
EveryContextAddressable ==
  phase # "bits" =>
    \A k \in 0 .. (ctx_cnt - 1) :
      \A a \in RxAddrs(Base(remote_fi_addr, av_bits), k, av_bits) :
        /\ Base(a, av_bits) = Base(remote_fi_addr, av_bits)
        /\ \A l \in 0 .. (ctx_cnt - 1) : Context(a, av_bits) = BitsOf(l) <=> l = k

\* Both the recursion of ctxShiftR and the loop of init_av come to an end.
Terminates == <>(phase = "done")
=============================================================================
