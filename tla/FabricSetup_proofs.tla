------------------------- MODULE FabricSetup_proofs -------------------------
(***************************************************************************)
(* Proofs about FabricSetup, for every number of contexts, every provider  *)
(* and every set of failure codes.  The inductive invariant IInv says at   *)
(* each program counter what the calls behind it have achieved.            *)
(***************************************************************************)
EXTENDS FabricSetup, TLAPS

BindStage == {"fi_scalable_ep_bind", "sep_enable"} \cup TxLoop \cup RxLoop
AllocStage == {"ft_alloc_ep_res"} \cup AllocLoop
FromAlloc == AllocStage \cup BindStage

\* What the chain of open calls has achieved, call by call.
OpenedSoFar ==
  /\ pc \in {"fi_eq_open", "fi_domain", "fi_scalable_ep"} \cup FromAlloc =>
       cell.fab = "new" \/ "fi_fabric" \in wild
  /\ pc \in {"fi_domain", "fi_scalable_ep"} \cup FromAlloc =>
       cell.eq = "new" \/ "fi_eq_open" \in wild
  /\ pc \in {"fi_scalable_ep"} \cup FromAlloc =>
       cell.domain = "new" \/ "fi_domain" \in wild
  /\ pc \in FromAlloc => cell.sep = "new" \/ "fi_scalable_ep" \in wild

\* The event queue and the domain come from the handle read before both.
ParentsFromPeeked ==
  /\ parent.eq \in {"none", peeked.fab}
  /\ parent.domain \in {"none", peeked.fab}
  /\ pc \in {"fi_getinfo", "ctx_count"} =>
       parent.eq = "none" /\ parent.domain = "none"

TxDone(k) == <<"tx_ep", k>> \in enabled
RxDone(k) == <<"rx_ep", k>> \in posted

\* How far the loops of bind_ep_res have come, if no failure was dropped.
BoundSoFar ==
  status = "running" =>
    /\ pc \in TxLoop \cup RxLoop \cup {"sep_enable"} => Sep \in bound
    /\ pc \in TxLoop => \A k \in 0 .. (i - 1) : TxDone(k)
    /\ pc \in RxLoop \cup {"sep_enable"} => \A k \in Ctx : TxDone(k)
    /\ pc \in RxLoop => \A k \in 0 .. (i - 1) : RxDone(k)
    /\ pc = "sep_enable" => \A k \in Ctx : RxDone(k)

\* An endpoint is enabled only when it is bound, a receive endpoint is
\* posted to only when it is enabled, and only receive endpoints are.
InOrder ==
  /\ enabled \subseteq bound
  /\ posted \subseteq enabled
  /\ posted \subseteq {"rx_ep"} \X Ctx
  /\ status = "running" /\ pc \in {"tx_enable"} => <<"tx_ep", i>> \in bound
  /\ status = "running" /\ pc \in {"rx_enable", "rx_recv"} =>
       <<"rx_ep", i>> \in bound
  /\ status = "running" /\ pc = "rx_recv" => <<"rx_ep", i>> \in enabled
  /\ status = "running" /\ pc = "sep_enable" => Sep \in bound
  /\ status = "running" /\ pc \in TxLoop \cup RxLoop => Sep \in bound

\* The loop counter is 0 outside the loops, which are reached only when there
\* is a context; a code is set only by returning.
CounterInv ==
  /\ status = "running" => ret = 0
  /\ status = "running" /\ pc \notin AllocLoop \cup TxLoop \cup RxLoop => i = 0
  /\ pc \notin {"fi_getinfo", "ctx_count"} => ctx_cnt > 0

TypeInv == TypeOK /\ CounterInv

IInv ==
  /\ TypeInv
  /\ OpenedSoFar
  /\ ParentsFromPeeked
  /\ CqsOnOpenedDomain
  /\ InOrder
  /\ swallowed # {} \/ BoundSoFar
  /\ ZeroMeansReady

-----------------------------------------------------------------------------
\* The environment's constants are natural numbers, hence so is a context.
LEMMA CtxNat ==
  ASSUME TypeInv
  PROVE  /\ ctx_cnt \in Nat
         /\ i \in Ctx => i \in Nat
         /\ ctx_cnt > 0 => 0 \in Ctx
BY CtxCountsAssumption DEF TypeInv, TypeOK, MemoryOK, Ctx

\* The end of a loop body moves to a valid context or leaves the loop.
LEMMA LoopStep ==
  ASSUME TypeInv, i \in Ctx, ctx_cnt' = ctx_cnt,
         NEW again, NEW after, NextContext(again, after)
  PROVE  /\ i' \in Ctx' /\ i' \in Nat
         /\ status' = status /\ ret' = ret
         /\ \/ pc' = again /\ i' = i + 1 /\ i + 1 < ctx_cnt
            \/ pc' = after /\ i' = 0 /\ i = ctx_cnt - 1
BY CtxNat DEF Ctx, NextContext, Goto

\* Filling one slot leaves arrays of handles.
LEMMA SlotUpdate ==
  ASSUME MemoryOK, NEW array \in Arrays, NEW k \in Ctx
  PROVE  [slot EXCEPT ![array][k] = "new"] \in [Arrays -> [Ctx -> Content]]
<1>1. slot[array] \in [Ctx -> Content]
  BY DEF MemoryOK
<1>2. [slot[array] EXCEPT ![k] = "new"] \in [Ctx -> Content]
  BY <1>1 DEF Content
<1> QED
  BY <1>2 DEF MemoryOK

\* No step changes Env, and in the loops there is a context to work on.
LEMMA LoopFacts ==
  ASSUME TypeInv, Next
  PROVE  /\ ctx_cnt' = ctx_cnt /\ Ctx' = Ctx /\ Endpoints' = Endpoints
         /\ pc \in AllocLoop \cup TxLoop \cup RxLoop =>
              /\ i \in Ctx /\ ctx_cnt > 0
              /\ <<"tx_ep", i>> \in Endpoints /\ <<"rx_ep", i>> \in Endpoints
<1>1. ctx_cnt' = ctx_cnt
  BY DEF Next, FtGetinfo, ClipContexts, InfoCrashes, FiFabric, FiEqOpen,
         Opens, FiDomain, FiScalableEp, FtAllocEpRes, TxContext,
         TxCqOpen, RxContext, RxCqOpen, FiContext, FiCqOpen, BindSep, TxBind,
         TxEnable, RxBind, RxEnable, RxRecv, EnableSep, Finished, EpBind,
         ContextRefused, Refused, Crashes, env, vars
<1>2. Ctx' = Ctx /\ Endpoints' = Endpoints
  BY <1>1 DEF Ctx, Endpoints
<1>3. ASSUME pc \in AllocLoop \cup TxLoop \cup RxLoop
      PROVE  i \in Ctx /\ ctx_cnt > 0
  BY <1>3 DEF TypeInv, TypeOK, ControlOK, CounterInv, AllocLoop, TxLoop, RxLoop
<1> QED
  BY <1>1, <1>2, <1>3 DEF Endpoints

-----------------------------------------------------------------------------
\* The program counter and the loop counter stay in range.
LEMMA ControlStep ==
  ASSUME TypeInv, Next
  PROVE  ControlOK' /\ CounterInv'
<1> USE CtxNat, LoopFacts, CodesAssumption
<1> USE DEF TypeInv, TypeOK, ControlOK, CounterInv, Labels, AllocLoop, TxLoop,
            RxLoop, At, Goto, Return, Refused, Crashes, env
<1>1. CASE FtGetinfo
  BY <1>1 DEF FtGetinfo
<1>2. CASE ClipContexts
  <2>1. PICK tx \in ProvCounts, rx \in ProvCounts, least \in Int :
          /\ least \in {ctx_cnt, tx, rx} /\ least <= ctx_cnt
          /\ least = 0 => pc' = pc
    BY <1>2, ProvCountsAssumption DEF ClipContexts
  <2>2. pc' = "fi_fabric" => ctx_cnt > 0
    BY <1>2, <2>1, ProvCountsAssumption DEF ClipContexts
  <2> QED
    BY <1>2, <2>2 DEF ClipContexts
<1>3. CASE InfoCrashes
  BY <1>3 DEF InfoCrashes
<1>4. CASE FiFabric
  BY <1>4 DEF FiFabric
<1>5. CASE FiEqOpen
  BY <1>5 DEF FiEqOpen, Opens
<1>6. CASE FiDomain
  BY <1>6 DEF FiDomain, Opens
<1>7. CASE FiScalableEp
  BY <1>7 DEF FiScalableEp, Opens
<1>8. CASE FtAllocEpRes
  BY <1>8 DEF FtAllocEpRes
<1>9. CASE TxContext
  BY <1>9 DEF TxContext, FiContext
<1>10. CASE TxCqOpen
  BY <1>10 DEF TxCqOpen, FiCqOpen
<1>11. CASE RxContext
  BY <1>11 DEF RxContext, FiContext
<1>12. CASE RxCqOpen
  <2>1. CASE NextContext("fi_tx_context", "fi_scalable_ep_bind")
    BY <1>12, <2>1, LoopStep DEF RxCqOpen, FiCqOpen
  <2>2. CASE Crashes(cell.domain)
    BY <1>12, <2>2 DEF RxCqOpen, FiCqOpen
  <2> QED
    BY <1>12, <2>1, <2>2 DEF RxCqOpen, FiCqOpen
<1>13. CASE BindSep
  BY <1>13 DEF BindSep
<1>14. CASE TxBind
  <2>1. ASSUME NextContext("tx_bind", "rx_bind")
        PROVE  ControlOK' /\ CounterInv'
    BY <1>14, <2>1, LoopStep DEF TxBind, EpBind
  <2>2. ASSUME ~NextContext("tx_bind", "rx_bind")
        PROVE  ControlOK' /\ CounterInv'
    BY <1>14, <2>2 DEF TxBind, EpBind, ContextRefused
  <2> QED
    BY <2>1, <2>2
<1>15. CASE TxEnable
  <2>1. ASSUME NextContext("tx_bind", "rx_bind")
        PROVE  ControlOK' /\ CounterInv'
    BY <1>15, <2>1, LoopStep DEF TxEnable
  <2>2. ASSUME ~NextContext("tx_bind", "rx_bind")
        PROVE  ControlOK' /\ CounterInv'
    BY <1>15, <2>2 DEF TxEnable, ContextRefused
  <2> QED
    BY <2>1, <2>2
<1>16. CASE RxBind
  <2>1. ASSUME NextContext("rx_bind", "sep_enable")
        PROVE  ControlOK' /\ CounterInv'
    BY <1>16, <2>1, LoopStep DEF RxBind, EpBind
  <2>2. ASSUME ~NextContext("rx_bind", "sep_enable")
        PROVE  ControlOK' /\ CounterInv'
    BY <1>16, <2>2 DEF RxBind, EpBind, ContextRefused
  <2> QED
    BY <2>1, <2>2
<1>17. CASE RxEnable
  <2>1. ASSUME NextContext("rx_bind", "sep_enable")
        PROVE  ControlOK' /\ CounterInv'
    BY <1>17, <2>1, LoopStep DEF RxEnable
  <2>2. ASSUME ~NextContext("rx_bind", "sep_enable")
        PROVE  ControlOK' /\ CounterInv'
    BY <1>17, <2>2 DEF RxEnable, ContextRefused
  <2> QED
    BY <2>1, <2>2
<1>18. CASE RxRecv
  <2>1. ASSUME NextContext("rx_bind", "sep_enable")
        PROVE  ControlOK' /\ CounterInv'
    BY <1>18, <2>1, LoopStep DEF RxRecv
  <2>2. ASSUME ~NextContext("rx_bind", "sep_enable")
        PROVE  ControlOK' /\ CounterInv'
    BY <1>18, <2>2 DEF RxRecv, ContextRefused
  <2> QED
    BY <2>1, <2>2
<1>19. CASE EnableSep
  BY <1>19 DEF EnableSep
<1>20. CASE Finished
  BY <1>20 DEF Finished, vars, memory
<1> QED
  BY <1>1, <1>2, <1>3, <1>4, <1>5, <1>6, <1>7, <1>8, <1>9, <1>10, <1>11,
     <1>12, <1>13, <1>14, <1>15, <1>16, <1>17, <1>18, <1>19, <1>20 DEF Next

\* The cells and arrays keep holding handles.
LEMMA MemoryStep ==
  ASSUME TypeInv, Next
  PROVE  MemoryOK'
<1> USE CtxNat, LoopFacts
<1> USE DEF TypeInv, TypeOK, MemoryOK, At, Return, Refused, Crashes, env,
            memory
<1>1. CASE FtGetinfo
  BY <1>1 DEF FtGetinfo, Cells, Content
<1>2. CASE ClipContexts
  BY <1>2, ProvCountsAssumption DEF ClipContexts, Cells
<1>3. CASE InfoCrashes
  BY <1>3 DEF InfoCrashes
<1>4. CASE FiFabric
  BY <1>4 DEF FiFabric, Cells, Content
<1>5. CASE FiEqOpen
  BY <1>5 DEF FiEqOpen, Opens, Cells, Content
<1>6. CASE FiDomain
  BY <1>6 DEF FiDomain, Opens, Cells, Content
<1>7. CASE FiScalableEp
  BY <1>7 DEF FiScalableEp, Opens, Cells, Content
<1>8. CASE FtAllocEpRes
  BY <1>8 DEF FtAllocEpRes
<1>9. CASE TxContext
  <2>1. i \in Ctx
    BY <1>9 DEF TxContext, FiContext, AllocLoop
  <2>2. \A array \in Arrays :
          [slot EXCEPT ![array][i] = "new"] \in [Arrays -> [Ctx -> Content]]
    BY <2>1, SlotUpdate
  <2>3. slot' \in [Arrays -> [Ctx -> Content]]
    BY <1>9, <2>2 DEF TxContext, FiContext, FillsSlot, LeavesSlot, Arrays
  <2> QED
    BY <1>9, <2>3 DEF FiContext, TxContext
<1>10. CASE TxCqOpen
  <2>1. i \in Ctx
    BY <1>10 DEF TxCqOpen, FiCqOpen, AllocLoop
  <2>2. \A array \in Arrays :
          [slot EXCEPT ![array][i] = "new"] \in [Arrays -> [Ctx -> Content]]
    BY <2>1, SlotUpdate
  <2>3. slot' \in [Arrays -> [Ctx -> Content]]
    BY <1>10, <2>2 DEF TxCqOpen, FiCqOpen, FillsSlot, LeavesSlot, Arrays
  <2> QED
    BY <1>10, <2>3 DEF FiCqOpen, TxCqOpen
<1>11. CASE RxContext
  <2>1. i \in Ctx
    BY <1>11 DEF RxContext, FiContext, AllocLoop
  <2>2. \A array \in Arrays :
          [slot EXCEPT ![array][i] = "new"] \in [Arrays -> [Ctx -> Content]]
    BY <2>1, SlotUpdate
  <2>3. slot' \in [Arrays -> [Ctx -> Content]]
    BY <1>11, <2>2 DEF RxContext, FiContext, FillsSlot, LeavesSlot, Arrays
  <2> QED
    BY <1>11, <2>3 DEF FiContext, RxContext
<1>12. CASE RxCqOpen
  <2>1. i \in Ctx
    BY <1>12 DEF RxCqOpen, FiCqOpen, AllocLoop
  <2>2. \A array \in Arrays :
          [slot EXCEPT ![array][i] = "new"] \in [Arrays -> [Ctx -> Content]]
    BY <2>1, SlotUpdate
  <2>3. slot' \in [Arrays -> [Ctx -> Content]]
    BY <1>12, <2>2 DEF RxCqOpen, FiCqOpen, FillsSlot, LeavesSlot, Arrays
  <2> QED
    BY <1>12, <2>3 DEF FiCqOpen, RxCqOpen
<1>13. CASE BindSep
  BY <1>13 DEF BindSep
<1>14. CASE TxBind
  BY <1>14 DEF TxBind, EpBind, ContextRefused
<1>15. CASE TxEnable
  BY <1>15 DEF TxEnable, ContextRefused
<1>16. CASE RxBind
  BY <1>16 DEF RxBind, EpBind, ContextRefused
<1>17. CASE RxEnable
  BY <1>17 DEF RxEnable, ContextRefused
<1>18. CASE RxRecv
  BY <1>18 DEF RxRecv, ContextRefused
<1>19. CASE EnableSep
  BY <1>19 DEF EnableSep
<1>20. CASE Finished
  BY <1>20 DEF Finished, vars
<1> QED
  BY <1>1, <1>2, <1>3, <1>4, <1>5, <1>6, <1>7, <1>8, <1>9, <1>10, <1>11,
     <1>12, <1>13, <1>14, <1>15, <1>16, <1>17, <1>18, <1>19, <1>20 DEF Next

\* An open call records the handle it went through, and nothing else.
LEMMA OpensObjects ==
  ASSUME ObjectsOK, NEW object \in {"eq", "domain", "sep"},
         NEW h \in Content, NEW info, NEW next, Opens(object, h, info, next)
  PROVE  /\ parent' \in [{"eq", "domain", "sep"} -> Content \cup {"none"}]
         /\ UNCHANGED <<cq_domains, contexts>>
<1>1. parent' \in {parent, [parent EXCEPT ![object] = h]}
  BY DEF Opens, Refused, Crashes, opened
<1>2. [parent EXCEPT ![object] = h]
        \in [{"eq", "domain", "sep"} -> Content \cup {"none"}]
  BY DEF ObjectsOK
<1>3. UNCHANGED <<cq_domains, contexts>>
  BY DEF Opens, Refused, Crashes, opened
<1> QED
  BY <1>1, <1>2, <1>3 DEF ObjectsOK

\* Only endpoints of Env are bound, enabled and posted to.
LEMMA ObjectsStep ==
  ASSUME TypeInv, Next
  PROVE  ObjectsOK'
<1>p. /\ ObjectsOK /\ Endpoints' = Endpoints
      /\ peeked.fab \in Content /\ peeked.domain \in Content
  BY LoopFacts DEF TypeInv, TypeOK, MemoryOK
<1>5. CASE FiEqOpen
  <2>1. Opens("eq", peeked.fab, "new", "fi_domain")
    BY <1>5 DEF FiEqOpen
  <2> QED
    BY <1>p, <2>1, OpensObjects DEF ObjectsOK, contexts
<1>6. CASE FiDomain
  <2>1. Opens("domain", peeked.fab, cell.fi, "fi_scalable_ep")
    BY <1>6 DEF FiDomain
  <2> QED
    BY <1>p, <2>1, OpensObjects DEF ObjectsOK, contexts
<1>7. CASE FiScalableEp
  <2>1. Opens("sep", peeked.domain, cell.fi, "ft_alloc_ep_res")
    BY <1>7 DEF FiScalableEp
  <2> QED
    BY <1>p, <2>1, OpensObjects DEF ObjectsOK, contexts
<1> USE LoopFacts
<1> USE DEF TypeInv, TypeOK, MemoryOK, ObjectsOK, Cells, Content, At, Return,
            Refused, Crashes, opened, contexts
<1>1. CASE FtGetinfo
  BY <1>1 DEF FtGetinfo
<1>2. CASE ClipContexts
  BY <1>2 DEF ClipContexts
<1>3. CASE InfoCrashes
  BY <1>3 DEF InfoCrashes
<1>4. CASE FiFabric
  BY <1>4 DEF FiFabric
<1>8. CASE FtAllocEpRes
  BY <1>8 DEF FtAllocEpRes
<1>9. CASE TxContext
  BY <1>9 DEF TxContext, FiContext, FillsSlot, LeavesSlot
<1>10. CASE TxCqOpen
  BY <1>10 DEF TxCqOpen, FiCqOpen, FillsSlot, LeavesSlot
<1>11. CASE RxContext
  BY <1>11 DEF RxContext, FiContext, FillsSlot, LeavesSlot
<1>12. CASE RxCqOpen
  BY <1>12 DEF RxCqOpen, FiCqOpen, FillsSlot, LeavesSlot
<1>13. CASE BindSep
  BY <1>13 DEF BindSep, Endpoints
<1>14. CASE TxBind
  BY <1>14 DEF TxBind, EpBind, ContextRefused, TxLoop, RxLoop
<1>15. CASE TxEnable
  BY <1>15 DEF TxEnable, ContextRefused, TxLoop, RxLoop
<1>16. CASE RxBind
  BY <1>16 DEF RxBind, EpBind, ContextRefused, TxLoop, RxLoop
<1>17. CASE RxEnable
  BY <1>17 DEF RxEnable, ContextRefused, TxLoop, RxLoop
<1>18. CASE RxRecv
  BY <1>18 DEF RxRecv, ContextRefused, TxLoop, RxLoop
<1>19. CASE EnableSep
  BY <1>19 DEF EnableSep, Endpoints
<1>20. CASE Finished
  BY <1>20 DEF Finished, vars
<1> QED
  BY <1>1, <1>2, <1>3, <1>4, <1>5, <1>6, <1>7, <1>8, <1>9, <1>10, <1>11,
     <1>12, <1>13, <1>14, <1>15, <1>16, <1>17, <1>18, <1>19, <1>20 DEF Next

\* Only calls of init_fabric are recorded as failed or made astray.
LEMMA GhostsStep ==
  ASSUME TypeInv, Next
  PROVE  GhostsOK'
<1> USE DEF TypeInv, TypeOK, ControlOK, GhostsOK, Used, Swallows, Return,
            Refused, Crashes, ghosts
<1>1. CASE FtGetinfo
  BY <1>1 DEF FtGetinfo
<1>2. CASE ClipContexts
  BY <1>2 DEF ClipContexts
<1>3. CASE InfoCrashes
  BY <1>3 DEF InfoCrashes
<1>4. CASE FiFabric
  BY <1>4 DEF FiFabric
<1>5. CASE FiEqOpen
  BY <1>5 DEF FiEqOpen, Opens
<1>6. CASE FiDomain
  BY <1>6 DEF FiDomain, Opens
<1>7. CASE FiScalableEp
  BY <1>7 DEF FiScalableEp, Opens
<1>8. CASE FtAllocEpRes
  BY <1>8 DEF FtAllocEpRes
<1>9. CASE TxContext
  BY <1>9 DEF TxContext, FiContext, FillsSlot, LeavesSlot
<1>10. CASE TxCqOpen
  BY <1>10 DEF TxCqOpen, FiCqOpen, FillsSlot, LeavesSlot
<1>11. CASE RxContext
  BY <1>11 DEF RxContext, FiContext, FillsSlot, LeavesSlot
<1>12. CASE RxCqOpen
  BY <1>12 DEF RxCqOpen, FiCqOpen, FillsSlot, LeavesSlot
<1>13. CASE BindSep
  BY <1>13 DEF BindSep
<1>14. CASE TxBind
  BY <1>14 DEF TxBind, EpBind, ContextRefused
<1>15. CASE TxEnable
  BY <1>15 DEF TxEnable, ContextRefused
<1>16. CASE RxBind
  BY <1>16 DEF RxBind, EpBind, ContextRefused
<1>17. CASE RxEnable
  BY <1>17 DEF RxEnable, ContextRefused
<1>18. CASE RxRecv
  BY <1>18 DEF RxRecv, ContextRefused
<1>19. CASE EnableSep
  BY <1>19 DEF EnableSep
<1>20. CASE Finished
  BY <1>20 DEF Finished, vars
<1> QED
  BY <1>1, <1>2, <1>3, <1>4, <1>5, <1>6, <1>7, <1>8, <1>9, <1>10, <1>11,
     <1>12, <1>13, <1>14, <1>15, <1>16, <1>17, <1>18, <1>19, <1>20 DEF Next

LEMMA TypeInvInit == Init => TypeInv
BY CtxCountsAssumption
DEF Init, TypeInv, TypeOK, ControlOK, MemoryOK, ObjectsOK, GhostsOK, CounterInv,
    Ctx, Cells, Arrays, Content, Labels, AllocLoop, TxLoop, RxLoop

LEMMA TypeInvStep == TypeInv /\ [Next]_vars => TypeInv'
<1>1. ASSUME TypeInv, Next PROVE TypeInv'
  BY <1>1, ControlStep, MemoryStep, ObjectsStep, GhostsStep DEF TypeInv, TypeOK
<1>2. ASSUME TypeInv, UNCHANGED vars PROVE TypeInv'
  BY <1>2 DEF TypeInv, TypeOK, ControlOK, MemoryOK, ObjectsOK, GhostsOK,
     CounterInv, Ctx, Endpoints, vars, env, memory, opened, contexts, ghosts
<1> QED
  BY <1>1, <1>2

\* Type correctness: in particular no loop of init_fabric ever indexes a
\* context outside 0 .. ctx_cnt - 1.
THEOREM TypeCorrect == Spec => []TypeOK
<1>1. Spec => []TypeInv
  BY TypeInvInit, TypeInvStep, PTL DEF Spec
<1>2. TypeInv => TypeOK
  BY DEF TypeInv
<1> QED
  BY <1>1, <1>2, PTL

-----------------------------------------------------------------------------
\* A call of the chain is behind init_fabric only if it opened its object or was
\* made through a bad handle.
LEMMA OpenedStep ==
  ASSUME TypeInv, OpenedSoFar, Next
  PROVE  OpenedSoFar'
<1> USE DEF OpenedSoFar, FromAlloc, AllocStage, BindStage, TypeInv, TypeOK,
            MemoryOK, Cells, Used, Swallows, memory, ghosts, At, Goto, Return,
            Refused, Crashes, NextContext, AllocLoop, TxLoop, RxLoop
<1>1. CASE FtGetinfo
  BY <1>1 DEF FtGetinfo
<1>2. CASE ClipContexts
  BY <1>2 DEF ClipContexts
<1>3. CASE InfoCrashes
  BY <1>3 DEF InfoCrashes
<1>4. CASE FiFabric
  BY <1>4 DEF FiFabric
<1>5. CASE FiEqOpen
  BY <1>5 DEF FiEqOpen, Opens
<1>6. CASE FiDomain
  BY <1>6 DEF FiDomain, Opens
<1>7. CASE FiScalableEp
  BY <1>7 DEF FiScalableEp, Opens
<1>8. CASE FtAllocEpRes
  BY <1>8 DEF FtAllocEpRes
<1>9. CASE TxContext
  BY <1>9 DEF TxContext, FiContext, FillsSlot, LeavesSlot
<1>10. CASE TxCqOpen
  BY <1>10 DEF TxCqOpen, FiCqOpen, FillsSlot, LeavesSlot
<1>11. CASE RxContext
  BY <1>11 DEF RxContext, FiContext, FillsSlot, LeavesSlot
<1>12. CASE RxCqOpen
  BY <1>12 DEF RxCqOpen, FiCqOpen, FillsSlot, LeavesSlot
<1>13. CASE BindSep
  BY <1>13 DEF BindSep
<1>14. CASE TxBind
  BY <1>14 DEF TxBind, EpBind, ContextRefused
<1>15. CASE TxEnable
  BY <1>15 DEF TxEnable, ContextRefused
<1>16. CASE RxBind
  BY <1>16 DEF RxBind, EpBind, ContextRefused
<1>17. CASE RxEnable
  BY <1>17 DEF RxEnable, ContextRefused
<1>18. CASE RxRecv
  BY <1>18 DEF RxRecv, ContextRefused
<1>19. CASE EnableSep
  BY <1>19 DEF EnableSep
<1>20. CASE Finished
  BY <1>20 DEF Finished, vars
<1> QED
  BY <1>1, <1>2, <1>3, <1>4, <1>5, <1>6, <1>7, <1>8, <1>9, <1>10, <1>11,
     <1>12, <1>13, <1>14, <1>15, <1>16, <1>17, <1>18, <1>19, <1>20 DEF Next

\* init_fabric reads the fabric handle once, before it opens anything on it.
LEMMA ParentsStep ==
  ASSUME TypeInv, ParentsFromPeeked, Next
  PROVE  ParentsFromPeeked'
<1> USE DEF ParentsFromPeeked, TypeInv, TypeOK, ObjectsOK, memory, opened, At,
            Goto, Return, Refused, Crashes, NextContext, AllocLoop, TxLoop,
            RxLoop
<1>1. CASE FtGetinfo
  BY <1>1 DEF FtGetinfo
<1>2. CASE ClipContexts
  BY <1>2 DEF ClipContexts
<1>3. CASE InfoCrashes
  BY <1>3 DEF InfoCrashes
<1>4. CASE FiFabric
  BY <1>4 DEF FiFabric
<1>5. CASE FiEqOpen
  BY <1>5 DEF FiEqOpen, Opens
<1>6. CASE FiDomain
  BY <1>6 DEF FiDomain, Opens
<1>7. CASE FiScalableEp
  BY <1>7 DEF FiScalableEp, Opens
<1>8. CASE FtAllocEpRes
  BY <1>8 DEF FtAllocEpRes
<1>9. CASE TxContext
  BY <1>9 DEF TxContext, FiContext, FillsSlot, LeavesSlot
<1>10. CASE TxCqOpen
  BY <1>10 DEF TxCqOpen, FiCqOpen, FillsSlot, LeavesSlot
<1>11. CASE RxContext
  BY <1>11 DEF RxContext, FiContext, FillsSlot, LeavesSlot
<1>12. CASE RxCqOpen
  BY <1>12 DEF RxCqOpen, FiCqOpen, FillsSlot, LeavesSlot
<1>13. CASE BindSep
  BY <1>13 DEF BindSep
<1>14. CASE TxBind
  BY <1>14 DEF TxBind, EpBind, ContextRefused
<1>15. CASE TxEnable
  BY <1>15 DEF TxEnable, ContextRefused
<1>16. CASE RxBind
  BY <1>16 DEF RxBind, EpBind, ContextRefused
<1>17. CASE RxEnable
  BY <1>17 DEF RxEnable, ContextRefused
<1>18. CASE RxRecv
  BY <1>18 DEF RxRecv, ContextRefused
<1>19. CASE EnableSep
  BY <1>19 DEF EnableSep
<1>20. CASE Finished
  BY <1>20 DEF Finished, vars
<1> QED
  BY <1>1, <1>2, <1>3, <1>4, <1>5, <1>6, <1>7, <1>8, <1>9, <1>10, <1>11,
     <1>12, <1>13, <1>14, <1>15, <1>16, <1>17, <1>18, <1>19, <1>20 DEF Next

\* alloc_ep_res finds in the domain cell what fi_domain put there.
LEMMA CqDomainsStep ==
  ASSUME TypeInv, OpenedSoFar, CqsOnOpenedDomain, Next
  PROVE  CqsOnOpenedDomain'
<1> USE DEF CqsOnOpenedDomain, OpenedSoFar, FromAlloc, AllocStage, AllocLoop,
            At, Goto, Return, Refused, Crashes, Used, Swallows, opened, ghosts
<1>1. CASE FtGetinfo
  BY <1>1 DEF FtGetinfo
<1>2. CASE ClipContexts
  BY <1>2 DEF ClipContexts
<1>3. CASE InfoCrashes
  BY <1>3 DEF InfoCrashes
<1>4. CASE FiFabric
  BY <1>4 DEF FiFabric
<1>5. CASE FiEqOpen
  BY <1>5 DEF FiEqOpen, Opens
<1>6. CASE FiDomain
  BY <1>6 DEF FiDomain, Opens
<1>7. CASE FiScalableEp
  BY <1>7 DEF FiScalableEp, Opens
<1>8. CASE FtAllocEpRes
  BY <1>8 DEF FtAllocEpRes
<1>9. CASE TxContext
  BY <1>9 DEF TxContext, FiContext, FillsSlot, LeavesSlot
<1>10. CASE TxCqOpen
  BY <1>10 DEF TxCqOpen, FiCqOpen, FillsSlot, LeavesSlot
<1>11. CASE RxContext
  BY <1>11 DEF RxContext, FiContext, FillsSlot, LeavesSlot
<1>12. CASE RxCqOpen
  BY <1>12 DEF RxCqOpen, FiCqOpen, FillsSlot, LeavesSlot
<1>13. CASE BindSep
  BY <1>13 DEF BindSep
<1>14. CASE TxBind
  BY <1>14 DEF TxBind, EpBind, ContextRefused
<1>15. CASE TxEnable
  BY <1>15 DEF TxEnable, ContextRefused
<1>16. CASE RxBind
  BY <1>16 DEF RxBind, EpBind, ContextRefused
<1>17. CASE RxEnable
  BY <1>17 DEF RxEnable, ContextRefused
<1>18. CASE RxRecv
  BY <1>18 DEF RxRecv, ContextRefused
<1>19. CASE EnableSep
  BY <1>19 DEF EnableSep
<1>20. CASE Finished
  BY <1>20 DEF Finished, vars
<1> QED
  BY <1>1, <1>2, <1>3, <1>4, <1>5, <1>6, <1>7, <1>8, <1>9, <1>10, <1>11,
     <1>12, <1>13, <1>14, <1>15, <1>16, <1>17, <1>18, <1>19, <1>20 DEF Next

\* Binding, enabling and posting keep their order, context by context.
LEMMA InOrderStep ==
  ASSUME TypeInv, InOrder, Next
  PROVE  InOrder'
<1> USE CtxNat, LoopFacts
<1> USE DEF InOrder, contexts, TypeInv, TypeOK, ControlOK, At, Goto, Return,
            Refused, Crashes, NextContext, AllocLoop, TxLoop, RxLoop
<1>1. CASE FtGetinfo
  BY <1>1 DEF FtGetinfo
<1>2. CASE ClipContexts
  BY <1>2 DEF ClipContexts
<1>3. CASE InfoCrashes
  BY <1>3 DEF InfoCrashes
<1>4. CASE FiFabric
  BY <1>4 DEF FiFabric
<1>5. CASE FiEqOpen
  BY <1>5 DEF FiEqOpen, Opens
<1>6. CASE FiDomain
  BY <1>6 DEF FiDomain, Opens
<1>7. CASE FiScalableEp
  BY <1>7 DEF FiScalableEp, Opens
<1>8. CASE FtAllocEpRes
  BY <1>8 DEF FtAllocEpRes
<1>9. CASE TxContext
  BY <1>9 DEF TxContext, FiContext, FillsSlot, LeavesSlot
<1>10. CASE TxCqOpen
  BY <1>10 DEF TxCqOpen, FiCqOpen, FillsSlot, LeavesSlot
<1>11. CASE RxContext
  BY <1>11 DEF RxContext, FiContext, FillsSlot, LeavesSlot
<1>12. CASE RxCqOpen
  BY <1>12 DEF RxCqOpen, FiCqOpen, FillsSlot, LeavesSlot
<1>13. CASE BindSep
  BY <1>13 DEF BindSep
<1>14. CASE TxBind
  BY <1>14 DEF TxBind, EpBind, ContextRefused
<1>15. CASE TxEnable
  BY <1>15 DEF TxEnable, ContextRefused
<1>16. CASE RxBind
  BY <1>16 DEF RxBind, EpBind, ContextRefused
<1>17. CASE RxEnable
  BY <1>17 DEF RxEnable, ContextRefused
<1>18. CASE RxRecv
  <2>1. i \in Ctx /\ Ctx' = Ctx
    BY <1>18 DEF RxRecv
  <2>2. posted' \subseteq posted \cup {<<"rx_ep", i>>}
    BY <1>18 DEF RxRecv, ContextRefused
  <2>3. <<"rx_ep", i>> \in {"rx_ep"} \X Ctx
    BY <2>1
  <2>4. posted' \subseteq {"rx_ep"} \X Ctx'
    BY <2>1, <2>2, <2>3
  <2>5. enabled' \subseteq bound' /\ posted' \subseteq enabled'
    BY <1>18 DEF RxRecv, ContextRefused
  <2>6. status' = "running" =>
          /\ pc' \in {"rx_bind", "sep_enable"}
          /\ Sep \in bound'
    BY <1>18 DEF RxRecv, ContextRefused
  <2> QED
    BY <2>4, <2>5, <2>6
<1>19. CASE EnableSep
  BY <1>19 DEF EnableSep
<1>20. CASE Finished
  BY <1>20 DEF Finished, vars
<1> QED
  BY <1>1, <1>2, <1>3, <1>4, <1>5, <1>6, <1>7, <1>8, <1>9, <1>10, <1>11,
     <1>12, <1>13, <1>14, <1>15, <1>16, <1>17, <1>18, <1>19, <1>20 DEF Next

\* A loop that is at context 0 has passed none.
LEMMA EmptyRange == 0 .. (0 - 1) = {}
OBVIOUS

\* A set that has every pair has the product.
LEMMA PairsIn ==
  ASSUME NEW A, NEW D
  PROVE  \A S : (\A a \in A, d \in D : <<a, d>> \in S) => A \X D \subseteq S
OBVIOUS

\* Passing through the body of a loop over the contexts adds the context it is
\* at to those it has passed; leaving the loop, it has passed them all.
LEMMA LoopPassed ==
  ASSUME TypeInv, i \in Ctx, ctx_cnt' = ctx_cnt,
         NEW again, NEW after, NextContext(again, after), NEW a
  PROVE  \A S : (\A k \in 0 .. (i - 1) : <<a, k>> \in S) =>
           \/ /\ pc' = again
              /\ \A k \in 0 .. (i' - 1) : <<a, k>> \in S \cup {<<a, i>>}
           \/ /\ pc' = after /\ i' = 0
              /\ \A k \in Ctx' : <<a, k>> \in S \cup {<<a, i>>}
<1> SUFFICES ASSUME NEW S, \A k \in 0 .. (i - 1) : <<a, k>> \in S
             PROVE  \/ /\ pc' = again
                       /\ \A k \in 0 .. (i' - 1) :
                            <<a, k>> \in S \cup {<<a, i>>}
                    \/ /\ pc' = after /\ i' = 0
                       /\ \A k \in Ctx' : <<a, k>> \in S \cup {<<a, i>>}
  OBVIOUS
<1>1. i \in Nat /\ ctx_cnt \in Nat
  BY CtxNat
<1>2. \A k \in 0 .. i : k \in 0 .. (i - 1) \/ k = i
  BY <1>1
<1>3. \A k \in 0 .. i : <<a, k>> \in S \cup {<<a, i>>}
  BY <1>2
<1>4. CASE pc' = again /\ i' = i + 1
  <2>1. 0 .. (i' - 1) = 0 .. i
    BY <1>1, <1>4
  <2> QED
    BY <1>3, <1>4, <2>1
<1>5. CASE pc' = after /\ i' = 0 /\ i = ctx_cnt - 1
  <2>1. Ctx' = 0 .. i
    BY <1>1, <1>5 DEF Ctx
  <2> QED
    BY <1>3, <1>5, <2>1
<1> QED
  BY <1>4, <1>5, LoopStep

\* As long as no failure is dropped, each loop of bind_ep_res leaves every
\* context it has passed enabled, and posted to.
LEMMA BoundSoFarStep ==
  ASSUME TypeInv, InOrder, swallowed # {} \/ BoundSoFar, Next
  PROVE  (swallowed # {} \/ BoundSoFar)'
<1> USE CtxNat, LoopFacts
<1> USE DEF BoundSoFar, TxDone, RxDone, Swallows, contexts, ghosts, At, Goto,
            Return, Refused, Crashes, AllocLoop, TxLoop, RxLoop
<1>1. CASE FtGetinfo
  BY <1>1 DEF FtGetinfo
<1>2. CASE ClipContexts
  BY <1>2 DEF ClipContexts
<1>3. CASE InfoCrashes
  BY <1>3 DEF InfoCrashes
<1>4. CASE FiFabric
  BY <1>4 DEF FiFabric
<1>5. CASE FiEqOpen
  BY <1>5 DEF FiEqOpen, Opens
<1>6. CASE FiDomain
  BY <1>6 DEF FiDomain, Opens
<1>7. CASE FiScalableEp
  BY <1>7 DEF FiScalableEp, Opens
<1>8. CASE FtAllocEpRes
  BY <1>8 DEF FtAllocEpRes
<1>9. CASE TxContext
  BY <1>9 DEF TxContext, FiContext, FillsSlot, LeavesSlot
<1>10. CASE TxCqOpen
  BY <1>10 DEF TxCqOpen, FiCqOpen, FillsSlot, LeavesSlot
<1>11. CASE RxContext
  BY <1>11 DEF RxContext, FiContext, FillsSlot, LeavesSlot
<1>12. CASE RxCqOpen
  BY <1>12 DEF RxCqOpen, FiCqOpen, FillsSlot, LeavesSlot, NextContext
<1>13. CASE BindSep
  <2>1. i = 0
    BY <1>13 DEF BindSep, TypeInv, CounterInv
  <2> QED
    BY <1>13, <2>1, EmptyRange DEF BindSep
<1>14. CASE TxBind
  BY <1>14 DEF TxBind, EpBind, ContextRefused
<1>15. CASE TxEnable
  <2>1. status = "running" /\ pc = "tx_enable" /\ i \in Ctx
    BY <1>15 DEF TxEnable
  <2>2. ASSUME NextContext("tx_bind", "rx_bind"),
               UNCHANGED <<bound, swallowed, posted>>,
               enabled' = enabled \cup {<<"tx_ep", i>>}
        PROVE  (swallowed # {} \/ BoundSoFar)'
    <3>1. CASE swallowed # {}
      BY <2>2, <3>1
    <3>2. CASE BoundSoFar
      <4>1. /\ Sep \in bound
            /\ \A k \in 0 .. (i - 1) : <<"tx_ep", k>> \in enabled
        BY <2>1, <3>2
      <4>2. \/ /\ pc' = "tx_bind"
               /\ \A k \in 0 .. (i' - 1) : <<"tx_ep", k>> \in enabled'
            \/ /\ pc' = "rx_bind" /\ i' = 0
               /\ \A k \in Ctx' : <<"tx_ep", k>> \in enabled'
        BY <2>1, <2>2, <4>1, LoopPassed
      <4>3. pc' = "rx_bind" => i' = 0
        BY <4>2
      <4>4. pc' = "rx_bind" => 0 .. (i' - 1) = {}
        BY <4>3, EmptyRange
      <4> QED
        BY <2>1, <2>2, <3>2, <4>1, <4>2, <4>3, <4>4
    <3> QED
      BY <3>1, <3>2
  <2>3. ASSUME swallowed' # {} \/ status' # "running"
        PROVE  (swallowed # {} \/ BoundSoFar)'
    BY <2>3
  <2> QED
    BY <1>15, <2>2, <2>3 DEF TxEnable, ContextRefused
<1>16. CASE RxBind
  BY <1>16 DEF RxBind, EpBind, ContextRefused
<1>17. CASE RxEnable
  BY <1>17 DEF RxEnable, ContextRefused
<1>18. CASE RxRecv
  <2>1. status = "running" /\ pc = "rx_recv" /\ i \in Ctx
    BY <1>18 DEF RxRecv
  <2>2. ASSUME NextContext("rx_bind", "sep_enable"),
               UNCHANGED <<bound, swallowed, enabled>>,
               posted' = posted \cup {<<"rx_ep", i>>}
        PROVE  (swallowed # {} \/ BoundSoFar)'
    <3>1. CASE swallowed # {}
      BY <2>2, <3>1
    <3>2. CASE BoundSoFar
      <4>1. /\ Sep \in bound
            /\ \A k \in 0 .. (i - 1) : <<"rx_ep", k>> \in posted
        BY <2>1, <3>2
      <4>2. \/ /\ pc' = "rx_bind"
               /\ \A k \in 0 .. (i' - 1) : <<"rx_ep", k>> \in posted'
            \/ /\ pc' = "sep_enable"
               /\ \A k \in Ctx' : <<"rx_ep", k>> \in posted'
        BY <2>1, <2>2, <4>1, LoopPassed
      <4> QED
        BY <2>1, <2>2, <3>2, <4>1, <4>2, LoopStep
    <3> QED
      BY <3>1, <3>2
  <2>3. ASSUME swallowed' # {} \/ status' # "running"
        PROVE  (swallowed # {} \/ BoundSoFar)'
    BY <2>3
  <2> QED
    BY <1>18, <2>2, <2>3 DEF RxRecv, ContextRefused
<1>19. CASE EnableSep
  BY <1>19 DEF EnableSep
<1>20. CASE Finished
  BY <1>20 DEF Finished, vars
<1> QED
  BY <1>1, <1>2, <1>3, <1>4, <1>5, <1>6, <1>7, <1>8, <1>9, <1>10, <1>11,
     <1>12, <1>13, <1>14, <1>15, <1>16, <1>17, <1>18, <1>19, <1>20 DEF Next

\* init_fabric returns 0 only from bind_ep_res, with a dropped failure or with
\* every context ready.
LEMMA ZeroStep ==
  ASSUME TypeInv, InOrder, swallowed # {} \/ BoundSoFar, ZeroMeansReady, Next
  PROVE  ZeroMeansReady'
<1> USE LoopFacts, CodesAssumption
<1> USE DEF ZeroMeansReady, AllEndpointsReady, Swallows, contexts, ghosts, At,
            Goto, Return, Refused, Crashes, NextContext
<1>1. CASE FtGetinfo
  BY <1>1 DEF FtGetinfo
<1>2. CASE ClipContexts
  BY <1>2 DEF ClipContexts
<1>3. CASE InfoCrashes
  BY <1>3 DEF InfoCrashes
<1>4. CASE FiFabric
  BY <1>4 DEF FiFabric
<1>5. CASE FiEqOpen
  BY <1>5 DEF FiEqOpen, Opens
<1>6. CASE FiDomain
  BY <1>6 DEF FiDomain, Opens
<1>7. CASE FiScalableEp
  BY <1>7 DEF FiScalableEp, Opens
<1>8. CASE FtAllocEpRes
  BY <1>8 DEF FtAllocEpRes
<1>9. CASE TxContext
  BY <1>9 DEF TxContext, FiContext, FillsSlot, LeavesSlot
<1>10. CASE TxCqOpen
  BY <1>10 DEF TxCqOpen, FiCqOpen, FillsSlot, LeavesSlot
<1>11. CASE RxContext
  BY <1>11 DEF RxContext, FiContext, FillsSlot, LeavesSlot
<1>12. CASE RxCqOpen
  BY <1>12 DEF RxCqOpen, FiCqOpen, FillsSlot, LeavesSlot
<1>13. CASE BindSep
  BY <1>13 DEF BindSep
<1>14. CASE TxBind
  BY <1>14 DEF TxBind, EpBind, ContextRefused
<1>15. CASE TxEnable
  BY <1>15 DEF TxEnable, ContextRefused
<1>16. CASE RxBind
  BY <1>16 DEF RxBind, EpBind, ContextRefused
<1>17. CASE RxEnable
  BY <1>17 DEF RxEnable, ContextRefused
<1>18. CASE RxRecv
  BY <1>18 DEF RxRecv, ContextRefused
<1>19. CASE EnableSep
  <2>1. CASE swallowed' # {} \/ status' # "returned"
    BY <2>1
  <2>2. CASE swallowed' = {} /\ status' = "returned"
    <3>1. /\ enabled' = enabled \cup {Sep} /\ UNCHANGED <<bound, posted>>
          /\ swallowed = {}
      BY <1>19, <2>2 DEF EnableSep
    <3>2. /\ Sep \in bound
          /\ \A k \in Ctx : TxDone(k) /\ RxDone(k)
      BY <1>19, <3>1 DEF EnableSep, BoundSoFar, RxLoop, TxLoop
    <3>3. \A k \in Ctx : /\ <<"tx_ep", k>> \in enabled
                         /\ <<"rx_ep", k>> \in posted
      BY <3>2 DEF TxDone, RxDone
    <3>4. \A k \in Ctx : /\ <<"tx_ep", k>> \in enabled
                         /\ <<"rx_ep", k>> \in enabled
      BY <3>3 DEF InOrder
    <3>5. /\ \A a \in {"tx_ep", "rx_ep"}, k \in Ctx : <<a, k>> \in enabled
          /\ \A a \in {"rx_ep"}, k \in Ctx : <<a, k>> \in posted
      BY <3>3, <3>4
    <3>6. {"tx_ep", "rx_ep"} \X Ctx \subseteq enabled
      BY <3>5, PairsIn
    <3>7. {"rx_ep"} \X Ctx \subseteq posted
      BY <3>5, PairsIn
    <3>8. posted = {"rx_ep"} \X Ctx
      BY <3>7 DEF InOrder
    <3>9. bound \subseteq Endpoints /\ enabled \subseteq Endpoints
      BY DEF TypeInv, TypeOK, ObjectsOK
    <3>10. enabled \cup {Sep} = Endpoints /\ bound = Endpoints
      BY <3>2, <3>6, <3>9 DEF InOrder, Endpoints
    <3> QED
      BY <3>1, <3>8, <3>10
  <2> QED
    BY <2>1, <2>2
<1>20. CASE Finished
  BY <1>20 DEF Finished, vars
<1> QED
  BY <1>1, <1>2, <1>3, <1>4, <1>5, <1>6, <1>7, <1>8, <1>9, <1>10, <1>11,
     <1>12, <1>13, <1>14, <1>15, <1>16, <1>17, <1>18, <1>19, <1>20 DEF Next

-----------------------------------------------------------------------------
LEMMA IInvInit == Init => IInv
<1> SUFFICES ASSUME Init PROVE IInv
  OBVIOUS
<1>1. TypeInv
  BY TypeInvInit
<1>2. OpenedSoFar /\ ParentsFromPeeked /\ CqsOnOpenedDomain /\ ZeroMeansReady
  BY DEF Init, OpenedSoFar, ParentsFromPeeked, CqsOnOpenedDomain,
     ZeroMeansReady, FromAlloc, AllocStage, BindStage, AllocLoop, TxLoop, RxLoop
<1>3. InOrder /\ BoundSoFar
  BY DEF Init, InOrder, BoundSoFar, TxLoop, RxLoop
<1> QED
  BY <1>1, <1>2, <1>3 DEF IInv

LEMMA IInvStep == IInv /\ [Next]_vars => IInv'
<1>1. ASSUME IInv, Next PROVE IInv'
  <2> USE <1>1
  <2>1. /\ TypeInv /\ OpenedSoFar /\ ParentsFromPeeked /\ CqsOnOpenedDomain
        /\ InOrder /\ (swallowed # {} \/ BoundSoFar) /\ ZeroMeansReady
    BY DEF IInv
  <2>2. TypeInv'
    BY <2>1, TypeInvStep
  <2>3. OpenedSoFar' /\ ParentsFromPeeked' /\ CqsOnOpenedDomain'
    BY <2>1, OpenedStep, ParentsStep, CqDomainsStep
  <2>4. InOrder' /\ (swallowed # {} \/ BoundSoFar)' /\ ZeroMeansReady'
    BY <2>1, InOrderStep, BoundSoFarStep, ZeroStep
  <2> QED
    BY <2>2, <2>3, <2>4 DEF IInv
<1>2. ASSUME IInv, UNCHANGED vars PROVE IInv'
  <2>1. TypeInv'
    BY <1>2, TypeInvStep DEF IInv
  <2>2. OpenedSoFar' /\ ParentsFromPeeked' /\ CqsOnOpenedDomain'
    BY <1>2 DEF IInv, OpenedSoFar, ParentsFromPeeked, CqsOnOpenedDomain, vars,
       env, memory, opened, contexts, ghosts
  <2>3. InOrder' /\ (swallowed # {} \/ BoundSoFar)' /\ ZeroMeansReady'
    BY <1>2 DEF IInv, InOrder, BoundSoFar, ZeroMeansReady, AllEndpointsReady,
       Endpoints, Ctx, TxDone, RxDone, vars, env, memory, opened, contexts,
       ghosts
  <2> QED
    BY <2>1, <2>2, <2>3 DEF IInv
<1> QED
  BY <1>1, <1>2

THEOREM Inductive == Spec => []IInv
BY IInvInit, IInvStep, PTL DEF Spec

\* Whatever calls fail and in whatever contexts, no endpoint is enabled before
\* it is bound and no receive is posted before its endpoint is enabled.
THEOREM BoundBeforeEnabled == Spec => []EnabledAfterBound
<1>1. IInv => EnabledAfterBound
  BY DEF IInv, InOrder, EnabledAfterBound
<1> QED
  BY <1>1, Inductive, PTL

\* The event queue and the domain share a fabric handle, opened by this call
\* or not.
THEOREM OneFabric == Spec => []EqAndDomainShareFabric
<1>1. IInv => EqAndDomainShareFabric
  BY DEF IInv, ParentsFromPeeked, EqAndDomainShareFabric
<1> QED
  BY <1>1, Inductive, PTL

\* Completion queues are opened on the domain of this call, unless the domain
\* itself was asked for through a bad handle.
THEOREM QueuesOnDomain == Spec => []CqsOnOpenedDomain
<1>1. IInv => CqsOnOpenedDomain
  BY DEF IInv
<1> QED
  BY <1>1, Inductive, PTL

\* alloc_ep_res and bind_ep_res run only behind calls that opened their
\* objects or were made through a bad handle.
THEOREM StagesDone == Spec => []StagesBehind
<1>1. IInv => StagesBehind
  BY DEF IInv, OpenedSoFar, StagesBehind, FromAlloc, AllocStage, BindStage
<1> QED
  BY <1>1, Inductive, PTL

\* For any number of contexts, 0 from init_fabric means that every one is
\* bound, enabled and has a receive, or that a failure was dropped.
THEOREM ReadyOnZero == Spec => []ZeroMeansReady
<1>1. IInv => ZeroMeansReady
  BY DEF IInv
<1> QED
  BY <1>1, Inductive, PTL

-----------------------------------------------------------------------------
\* The stage that each program counter belongs to.
StageTable ==
  /\ pc \in {"fi_getinfo", "ctx_count"} => StageOf = 1
  /\ pc = "fi_fabric" => StageOf = 2
  /\ pc = "fi_eq_open" => StageOf = 3
  /\ pc = "fi_domain" => StageOf = 4
  /\ pc = "fi_scalable_ep" => StageOf = 5
  /\ pc \in AllocStage => StageOf = 6
  /\ pc \in BindStage => StageOf = 7

LEMMA StageValue == StageTable /\ StageTable'
BY DEF StageTable, StageOf, AllocStage, BindStage, AllocLoop, TxLoop, RxLoop

\* The program counters at which one stage hands over to the next.
LEMMA StageHandsOver ==
  (\/ pc \in {"fi_getinfo", "ctx_count"} /\ pc' = "fi_fabric"
   \/ pc = "fi_fabric" /\ pc' = "fi_eq_open"
   \/ pc = "fi_eq_open" /\ pc' = "fi_domain"
   \/ pc = "fi_domain" /\ pc' = "fi_scalable_ep"
   \/ pc = "fi_scalable_ep" /\ pc' \in AllocStage
   \/ pc \in AllocStage /\ pc' \in BindStage)
  => StageOf < 7 /\ StageOf' = StageOf + 1
BY StageValue DEF StageTable

LEMMA ChainInitial == Init => Chain!ChainInit
BY StageValue DEF StageTable, Init, Chain!ChainInit

\* Every step of init_fabric is a step of the chain, or leaves the stage, the
\* status and the code alone.
LEMMA ChainStep ==
  ASSUME TypeInv, Next
  PROVE  Chain!ChainNext \/ UNCHANGED Chain!chainVars
<1> USE StageValue, StageHandsOver
<1> USE DEF TypeInv, TypeOK, ControlOK, CounterInv, StageTable, AllocStage,
            BindStage, Labels, Chain!ChainNext, Chain!StageSucceeds,
            Chain!ChainSucceeds, Chain!StageFails, Chain!StageCrashes,
            Chain!chainVars, At, Goto, Return, Refused, Crashes, NextContext,
            AllocLoop, TxLoop, RxLoop
<1>1. CASE FtGetinfo
  BY <1>1 DEF FtGetinfo
<1>2. CASE ClipContexts
  BY <1>2 DEF ClipContexts
<1>3. CASE InfoCrashes
  BY <1>3 DEF InfoCrashes
<1>4. CASE FiFabric
  BY <1>4 DEF FiFabric
<1>5. CASE FiEqOpen
  BY <1>5 DEF FiEqOpen, Opens
<1>6. CASE FiDomain
  BY <1>6 DEF FiDomain, Opens
<1>7. CASE FiScalableEp
  BY <1>7 DEF FiScalableEp, Opens
<1>8. CASE FtAllocEpRes
  BY <1>8 DEF FtAllocEpRes
<1>9. CASE TxContext
  BY <1>9 DEF TxContext, FiContext, FillsSlot, LeavesSlot
<1>10. CASE TxCqOpen
  BY <1>10 DEF TxCqOpen, FiCqOpen, FillsSlot, LeavesSlot
<1>11. CASE RxContext
  BY <1>11 DEF RxContext, FiContext, FillsSlot, LeavesSlot
<1>12. CASE RxCqOpen
  BY <1>12 DEF RxCqOpen, FiCqOpen, FillsSlot, LeavesSlot
<1>13. CASE BindSep
  BY <1>13 DEF BindSep
<1>14. CASE TxBind
  BY <1>14 DEF TxBind, EpBind, ContextRefused
<1>15. CASE TxEnable
  BY <1>15 DEF TxEnable, ContextRefused
<1>16. CASE RxBind
  BY <1>16 DEF RxBind, EpBind, ContextRefused
<1>17. CASE RxEnable
  BY <1>17 DEF RxEnable, ContextRefused
<1>18. CASE RxRecv
  BY <1>18 DEF RxRecv, ContextRefused
<1>19. CASE EnableSep
  BY <1>19 DEF EnableSep
<1>20. CASE Finished
  BY <1>20 DEF Finished, vars
<1> QED
  BY <1>1, <1>2, <1>3, <1>4, <1>5, <1>6, <1>7, <1>8, <1>9, <1>10, <1>11,
     <1>12, <1>13, <1>14, <1>15, <1>16, <1>17, <1>18, <1>19, <1>20 DEF Next

\* init_fabric implements its top-level |-> chain: the first stage that returns
\* nonzero decides the code and no later stage runs.
THEOREM ImplementsChain == Spec => ChainOfStages
<1>1. TypeInv /\ [Next]_vars => [Chain!ChainNext]_(Chain!chainVars)
  <2>1. ASSUME UNCHANGED vars PROVE UNCHANGED Chain!chainVars
    BY <2>1 DEF vars, Chain!chainVars, StageOf
  <2> QED
    BY <2>1, ChainStep
<1>2. Spec => []TypeInv
  BY TypeInvInit, TypeInvStep, PTL DEF Spec
<1> QED
  BY <1>1, <1>2, ChainInitial, PTL DEF Spec, ChainOfStages, Chain!ChainSpec

-----------------------------------------------------------------------------
\* How many calls init_fabric still makes at most, the one at `at' included,
\* when it has n contexts and is at context k.
OpensLeft(at) ==
  IF at = "ft_alloc_ep_res" THEN 0 ELSE
  IF at = "fi_scalable_ep" THEN 1 ELSE
  IF at = "fi_domain" THEN 2 ELSE
  IF at = "fi_eq_open" THEN 3 ELSE
  IF at = "fi_fabric" THEN 4 ELSE
  IF at = "ctx_count" THEN 5 ELSE 6
MadeInContext(at) ==
  IF at \in {"fi_cq_open_tx", "tx_enable", "rx_enable"} THEN 1 ELSE
  IF at \in {"fi_rx_context", "rx_recv"} THEN 2 ELSE
  IF at = "fi_cq_open_rx" THEN 3 ELSE 0
CallsLeft(at, k, n) ==
  IF at = "sep_enable" THEN 1 ELSE
  IF at \in RxLoop THEN 1 + 3 * (n - k) - MadeInContext(at) ELSE
  IF at \in TxLoop THEN 1 + 3 * n + 2 * (n - k) - MadeInContext(at) ELSE
  IF at = "fi_scalable_ep_bind" THEN 2 + 5 * n ELSE
  IF at \in AllocLoop THEN 2 + 5 * n + 4 * (n - k) - MadeInContext(at)
                     ELSE 3 + 9 * n + OpensLeft(at)
Measure == IF status = "running" THEN CallsLeft(pc, i, ctx_cnt) ELSE 0

\* The counter is a number, within the loops one of a context.
LEMMA Counters ==
  TypeInv =>
    /\ ctx_cnt \in Nat /\ i \in Nat /\ pc \in Labels
    /\ pc \in AllocLoop \cup TxLoop \cup RxLoop => i < ctx_cnt
    /\ status = "running" /\ pc \notin AllocLoop \cup TxLoop \cup RxLoop => i = 0
BY CtxCountsAssumption
DEF TypeInv, CounterInv, TypeOK, ControlOK, MemoryOK, Ctx

LEMMA CallsAreLeft ==
  TypeInv => CallsLeft(pc, i, ctx_cnt) \in Nat /\ CallsLeft(pc, i, ctx_cnt) > 0
<1>. SUFFICES ASSUME TypeInv
              PROVE  /\ CallsLeft(pc, i, ctx_cnt) \in Nat
                     /\ CallsLeft(pc, i, ctx_cnt) > 0
  OBVIOUS
<1>. USE Counters DEF CallsLeft, MadeInContext, AllocLoop, TxLoop, RxLoop
<1>1. CASE pc \in AllocLoop
  BY <1>1
<1>2. CASE pc \in TxLoop
  BY <1>2
<1>3. CASE pc \in RxLoop
  BY <1>3
<1>4. CASE pc \in {"fi_scalable_ep_bind", "sep_enable"}
  BY <1>4
<1>5. CASE pc \notin AllocLoop \cup TxLoop \cup RxLoop
                   \cup {"fi_scalable_ep_bind", "sep_enable"}
  BY <1>5 DEF OpensLeft
<1>. QED
  BY <1>1, <1>2, <1>3, <1>4, <1>5

LEMMA ReturnCounts ==
  TypeInv /\ status = "running" /\ status' \in {"returned", "crashed"}
    => Measure' < Measure
BY CallsAreLeft DEF Measure

\* One call on, in the same context.
LEMMA GotoCounts ==
  ASSUME TypeInv, status = "running", status' = "running", ctx_cnt' = ctx_cnt,
         i' = i,
         <<pc, pc'>> \in
           {<<"fi_getinfo", "ctx_count">>, <<"ctx_count", "fi_fabric">>,
            <<"fi_fabric", "fi_eq_open">>, <<"fi_eq_open", "fi_domain">>,
            <<"fi_domain", "fi_scalable_ep">>,
            <<"fi_scalable_ep", "ft_alloc_ep_res">>,
            <<"ft_alloc_ep_res", "fi_tx_context">>,
            <<"fi_tx_context", "fi_cq_open_tx">>,
            <<"fi_cq_open_tx", "fi_rx_context">>,
            <<"fi_rx_context", "fi_cq_open_rx">>,
            <<"fi_scalable_ep_bind", "tx_bind">>, <<"tx_bind", "tx_enable">>,
            <<"rx_bind", "rx_enable">>, <<"rx_enable", "rx_recv">>}
  PROVE  Measure' < Measure
<1>1. ctx_cnt \in Nat /\ i \in Nat
  BY Counters
<1>2. pc = "ft_alloc_ep_res" => i = 0
  BY Counters DEF AllocLoop, TxLoop, RxLoop
<1>3. pc = "fi_scalable_ep_bind" => i = 0
  BY Counters DEF AllocLoop, TxLoop, RxLoop
<1>4. CallsLeft(pc', i, ctx_cnt) < CallsLeft(pc, i, ctx_cnt)
  <2>. USE <1>1, <1>2, <1>3 DEF CallsLeft, MadeInContext, AllocLoop, TxLoop, RxLoop
  <2>1. CASE pc \in {"fi_getinfo", "ctx_count", "fi_fabric", "fi_eq_open",
                     "fi_domain", "fi_scalable_ep"}
    BY <2>1 DEF OpensLeft
  <2>2. CASE pc \in {"ft_alloc_ep_res", "fi_scalable_ep_bind"}
    BY <2>2 DEF OpensLeft
  <2>3. CASE pc \in {"fi_tx_context", "fi_cq_open_tx", "fi_rx_context"}
    BY <2>3
  <2>4. CASE pc \in {"tx_bind", "rx_bind", "rx_enable"}
    BY <2>4
  <2>. QED
    BY <2>1, <2>2, <2>3, <2>4
<1>. QED
  BY <1>4 DEF Measure

\* On to the next context, or out of the loop.
LEMMA NextContextCounts ==
  ASSUME TypeInv, status = "running", ctx_cnt' = ctx_cnt,
         \/ /\ pc = "fi_cq_open_rx"
            /\ NextContext("fi_tx_context", "fi_scalable_ep_bind")
         \/ pc \in TxLoop /\ NextContext("tx_bind", "rx_bind")
         \/ pc \in RxLoop /\ NextContext("rx_bind", "sep_enable")
  PROVE  Measure' < Measure
<1>1. ctx_cnt \in Nat /\ i \in Nat /\ i < ctx_cnt
  BY Counters DEF AllocLoop
<1>2. status' = "running" /\ ((i' = i + 1 /\ i' < ctx_cnt) \/ i' = 0)
  BY <1>1 DEF NextContext, Goto
<1>3. CallsLeft(pc', i', ctx_cnt) < CallsLeft(pc, i, ctx_cnt)
  <2>. USE DEF NextContext, Goto, CallsLeft, MadeInContext, AllocLoop, TxLoop, RxLoop
  <2>1. CASE pc = "fi_cq_open_rx"
    BY <1>1, <2>1
  <2>2. CASE pc \in TxLoop
    BY <1>1, <2>2
  <2>3. CASE pc \in RxLoop
    BY <1>1, <2>3
  <2>. QED
    BY <2>1, <2>2, <2>3
<1>. QED
  BY <1>2, <1>3 DEF Measure

\* Neither init_fabric nor a loop of it goes on for ever: every step leaves
\* fewer calls to make.  With the fairness of FairSpec this is Terminates.
THEOREM EveryCallCounts == Spec => [][Measure' < Measure /\ Measure \in Nat]_vars
<1>. USE DEF At, env
<1>1. TypeInv /\ [Next]_vars => [Measure' < Measure /\ Measure \in Nat]_vars
  <2>. SUFFICES ASSUME TypeInv, Next, vars' # vars
                PROVE  Measure' < Measure
    BY CallsAreLeft DEF Measure
  <2>1. CASE FtGetinfo
    BY <2>1, GotoCounts DEF FtGetinfo, Goto
  <2>2. CASE ClipContexts
    BY <2>2, GotoCounts, ReturnCounts DEF ClipContexts, Goto, Return
  <2>3. CASE InfoCrashes
    BY <2>3, ReturnCounts DEF InfoCrashes, Crashes
  <2>4. CASE FiFabric
    BY <2>4, GotoCounts, ReturnCounts DEF FiFabric, Goto, Refused, Return, Crashes
  <2>5. CASE FiEqOpen
    BY <2>5, GotoCounts, ReturnCounts
    DEF FiEqOpen, Opens, Goto, Refused, Return, Crashes
  <2>6. CASE FiDomain
    BY <2>6, GotoCounts, ReturnCounts
    DEF FiDomain, Opens, Goto, Refused, Return, Crashes
  <2>7. CASE FiScalableEp
    BY <2>7, GotoCounts, ReturnCounts
    DEF FiScalableEp, Opens, Goto, Refused, Return, Crashes
  <2>8. CASE FtAllocEpRes
    BY <2>8, GotoCounts, ReturnCounts DEF FtAllocEpRes, Goto, Crashes
  <2>9. CASE TxContext
    BY <2>9, GotoCounts, ReturnCounts DEF TxContext, FiContext, Goto, Crashes
  <2>10. CASE TxCqOpen
    BY <2>10, GotoCounts, ReturnCounts DEF TxCqOpen, FiCqOpen, Goto, Crashes
  <2>11. CASE RxContext
    BY <2>11, GotoCounts, ReturnCounts DEF RxContext, FiContext, Goto, Crashes
  <2>12. CASE RxCqOpen
    BY <2>12, NextContextCounts, ReturnCounts DEF RxCqOpen, FiCqOpen, Crashes
  <2>13. CASE BindSep
    BY <2>13, GotoCounts, ReturnCounts DEF BindSep, Goto, Return, Crashes
  <2>14. CASE TxBind
    BY <2>14, GotoCounts, NextContextCounts, ReturnCounts
    DEF TxBind, EpBind, ContextRefused, Goto, Crashes, TxLoop
  <2>15. CASE TxEnable
    BY <2>15, NextContextCounts, ReturnCounts
    DEF TxEnable, ContextRefused, Crashes, TxLoop
  <2>16. CASE RxBind
    BY <2>16, GotoCounts, NextContextCounts, ReturnCounts
    DEF RxBind, EpBind, ContextRefused, Goto, Crashes, RxLoop
  <2>17. CASE RxEnable
    BY <2>17, GotoCounts, NextContextCounts, ReturnCounts
    DEF RxEnable, ContextRefused, Goto, Crashes, RxLoop
  <2>18. CASE RxRecv
    BY <2>18, NextContextCounts, ReturnCounts
    DEF RxRecv, ContextRefused, Crashes, RxLoop
  <2>19. CASE EnableSep
    BY <2>19, ReturnCounts DEF EnableSep, Return, Crashes
  <2>. QED
    BY <2>1, <2>2, <2>3, <2>4, <2>5, <2>6, <2>7, <2>8, <2>9, <2>10, <2>11, <2>12,
       <2>13, <2>14, <2>15, <2>16, <2>17, <2>18, <2>19 DEF Next, Finished
<1>. QED
  BY <1>1, TypeInvInit, TypeInvStep, PTL DEF Spec
=============================================================================
