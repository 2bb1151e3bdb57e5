--------------------------- MODULE Dispatch_proofs ---------------------------
(***************************************************************************)
(* Dispatch for any number of threads, any calls and any objects: if every *)
(* call fits every object it may be made on (HeadersFit, a statement about *)
(* one call and one object, which the run `calls' settles for the headers), *)
(* then no interleaving of calls with replacements of the tables faults or  *)
(* enters a table the object no longer has.                                 *)
(***************************************************************************)
EXTENDS Dispatch, TLAPS

(* Nothing runs beside a call that modifies the object, ...                  *)
Serialized ==
    \A t, u \in Threads : t # u /\ Busy(t) /\ Busy(u) => ~call[t].modifies

(* ... so what a thread found out about the object still holds: that it is    *)
(* open, that the call applies to it, that the entry is there, and which      *)
(* table holds it.                                                            *)
Found(t) ==
    /\ object # GONE
    /\ Applies(object, call[t])
    /\ pc[t] = "load" => Callable(TableOf(object, call[t]), call[t].off)
    /\ pc[t] = "jump" => /\ table[t] = TableOf(object, call[t])
                         /\ Callable(table[t], call[t].off)
StillTrue == \A t \in Threads : Busy(t) => Found(t)

TypeInv == TypeOK /\ table \in [Threads -> {table[t] : t \in Threads}]
IInv == TypeInv /\ Serialized /\ StillTrue /\ NeverFaults

(* FI_CHECK_OP says yes only to what can be called.                           *)
LEMMA CheckIsSound ==
    ASSUME NEW ops, NEW off, TRUE \in FI_CHECK_OP(ops, off)
    PROVE  Callable(ops, off)
  BY DEF FI_CHECK_OP, Entries, Callable

(* And no only to what cannot.                                                *)
LEMMA CheckIsComplete ==
    ASSUME NEW ops, NEW off, FALSE \in FI_CHECK_OP(ops, off)
    PROVE  ~Callable(ops, off)
  BY DEF FI_CHECK_OP, Entries, Callable

LEMMA InitIInv == Init => IInv
  BY DispatchAssumption DEF Init, IInv, TypeInv, TypeOK, Serialized, StillTrue,
       NeverFaults, Busy, Places, NoCall

LEMMA NextType == TypeInv /\ [Next]_vars => TypeInv'
<1> SUFFICES ASSUME TypeInv, [Next]_vars PROVE TypeInv'
  OBVIOUS
<1> USE DispatchAssumption DEF TypeInv, TypeOK, Busy, Places, NoCall
<1>1. CASE Reopen
  BY <1>1 DEF Reopen
<1>2. ASSUME NEW t \in Threads, NEW c \in Calls, Begin(t, c) PROVE TypeInv'
  BY <1>2 DEF Begin, Goto
<1>3. ASSUME NEW t \in Threads, Check(t) PROVE TypeInv'
  BY <1>3 DEF Check, Goto, Leave
<1>4. ASSUME NEW t \in Threads, Load(t) PROVE TypeInv'
  BY <1>4 DEF Load, Goto
<1>5. ASSUME NEW t \in Threads, Jump(t) PROVE TypeInv'
  BY <1>5 DEF Jump, Goto
<1>6. ASSUME NEW t \in Threads, Return(t) PROVE TypeInv'
  <2>1. object' \in Objects \cup {GONE}
    BY <1>6 DEF Return, After
  <2>. QED
    BY <1>6, <2>1 DEF Return, Goto, Leave
<1>7. CASE UNCHANGED vars
  BY <1>7 DEF vars
<1>. QED
  BY <1>1, <1>2, <1>3, <1>4, <1>5, <1>6, <1>7 DEF Next, Step

LEMMA NextSerialized == IInv /\ [Next]_vars => Serialized'
<1> SUFFICES ASSUME TypeOK, Serialized, [Next]_vars PROVE Serialized'
  BY DEF IInv, TypeInv
<1> USE DEF TypeOK, Serialized, Busy, Places, NoCall
<1>1. CASE Reopen
  BY <1>1 DEF Reopen
<1>2. ASSUME NEW t \in Threads, NEW c \in Calls, Begin(t, c) PROVE Serialized'
  BY <1>2 DEF Begin, Goto, MayStart
<1>3. ASSUME NEW t \in Threads, Check(t) PROVE Serialized'
  BY <1>3 DEF Check, Goto, Leave
<1>4. ASSUME NEW t \in Threads, Load(t) PROVE Serialized'
  BY <1>4 DEF Load, Goto
<1>5. ASSUME NEW t \in Threads, Jump(t) PROVE Serialized'
  BY <1>5 DEF Jump, Goto
<1>6. ASSUME NEW t \in Threads, Return(t) PROVE Serialized'
  BY <1>6 DEF Return, Goto, Leave
<1>7. CASE UNCHANGED vars
  BY <1>7 DEF vars
<1>. QED
  BY <1>1, <1>2, <1>3, <1>4, <1>5, <1>6, <1>7 DEF Next, Step

(* A step of one thread that leaves the object alone leaves what the others  *)
(* have found.                                                               *)
LEMMA OthersKeep ==
    ASSUME IInv, NEW t \in Threads, NEW u \in Threads, t # u,
           object' = object, pc'[u] = pc[u], call'[u] = call[u],
           table'[u] = table[u], Busy(u)'
    PROVE  Found(u)'
  BY DEF IInv, StillTrue, Found, Busy, Applies, Callable, TableOf

LEMMA NextStillTrue ==
    HeadersFit /\ IInv /\ [Next]_vars => StillTrue' /\ NeverFaults'
<1> SUFFICES ASSUME HeadersFit, IInv, [Next]_vars
             PROVE  StillTrue' /\ NeverFaults'
  OBVIOUS
<1> DEFINE Kept(u) == object' = object /\ pc'[u] = pc[u] /\ call'[u] = call[u]
                      /\ table'[u] = table[u]
<1>others. ASSUME NEW t \in Threads, \A u \in Threads \ {t} : Kept(u),
                  Busy(t)' => Found(t)', pc'[t] # "fault"
           PROVE  StillTrue' /\ NeverFaults'
  <2>1. \A u \in Threads \ {t} : Busy(u)' => Found(u)'
    BY <1>others, OthersKeep
  <2>. QED
    BY <1>others, <2>1 DEF StillTrue, NeverFaults, IInv
<1>1. CASE Reopen
  BY <1>1 DEF Reopen, StillTrue, NeverFaults, IInv, Found, Busy
<1>2. ASSUME NEW t \in Threads, NEW c \in Calls, Begin(t, c)
      PROVE  StillTrue' /\ NeverFaults'
  <2>1. /\ call'[t] = c /\ object' = object /\ object \in Objects
        /\ pc'[t] = (IF c.check THEN "check" ELSE "load")
        /\ \A u \in Threads \ {t} : Kept(u)
    BY <1>2 DEF Begin, Goto, IInv, TypeInv, TypeOK
  <2>2. Applies(object, c) /\ object # GONE
    BY <1>2 DEF Begin
  <2>3. pc'[t] = "load" => Callable(TableOf(object, c), c.off)
    BY <2>1, <2>2 DEF HeadersFit
  <2>4. Found(t)' /\ pc'[t] # "fault"
    BY <2>1, <2>2, <2>3 DEF Found, Applies, Callable, TableOf
  <2>. QED
    BY <2>1, <2>4, <1>others
<1> DEFINE c(t) == call[t]
<1>fits. ASSUME NEW t \in Threads, Busy(t) PROVE Fits(object, call[t])
  BY <1>fits DEF IInv, TypeInv, TypeOK, StillTrue, Found, HeadersFit
<1>3. ASSUME NEW t \in Threads, Check(t) PROVE StillTrue' /\ NeverFaults'
  <2>1. Busy(t) /\ Fits(object, call[t]) /\ Found(t)
    BY <1>3, <1>fits DEF Check, Busy, IInv, StillTrue
  <2>2. \A u \in Threads \ {t} : Kept(u)
    BY <1>3 DEF Check, Goto, Leave, IInv, TypeInv, TypeOK
  <2>3. PICK there \in FI_CHECK_OP(TableOf(object, call[t]), call[t].off) :
          IF there THEN Goto(t, "load") /\ UNCHANGED <<call, table>> ELSE Leave(t)
    BY <1>3, <2>1 DEF Check
  <2>4. there \in BOOLEAN
    BY <2>3 DEF FI_CHECK_OP, Entries
  <2>5. CASE there = TRUE
    <3>1. Callable(TableOf(object, call[t]), call[t].off)
      BY <2>3, <2>5, CheckIsSound
    <3>2. pc'[t] = "load" /\ call' = call /\ object' = object
      BY <1>3, <2>3, <2>5 DEF Check, Goto, IInv, TypeInv, TypeOK
    <3>. QED
      BY <2>1, <2>2, <3>1, <3>2, <1>others DEF Found, Applies, Callable, TableOf
  <2>6. CASE there = FALSE
    <3>1. pc'[t] = "idle"
      BY <2>3, <2>6 DEF Leave, Goto, IInv, TypeInv, TypeOK
    <3>. QED
      BY <2>2, <3>1, <1>others DEF Busy
  <2>. QED
    BY <2>4, <2>5, <2>6
<1>4. ASSUME NEW t \in Threads, Load(t) PROVE StillTrue' /\ NeverFaults'
  <2>1. Busy(t) /\ Fits(object, call[t]) /\ Found(t)
    BY <1>4, <1>fits DEF Load, Busy, IInv, StillTrue
  <2>2. /\ pc'[t] = "jump" /\ table'[t] = TableOf(object, call[t])
        /\ call' = call /\ object' = object
        /\ \A u \in Threads \ {t} : Kept(u)
    BY <1>4, <2>1 DEF Load, Goto, IInv, TypeInv, TypeOK
  <2>. QED
    BY <1>4, <2>1, <2>2, <1>others DEF Load, Found, Applies, Callable, TableOf
<1>5. ASSUME NEW t \in Threads, Jump(t) PROVE StillTrue' /\ NeverFaults'
  <2>1. Found(t)
    BY <1>5 DEF Jump, Busy, IInv, StillTrue
  <2>2. /\ pc'[t] = "inside" /\ call' = call /\ object' = object
        /\ \A u \in Threads \ {t} : Kept(u)
    BY <1>5, <2>1 DEF Jump, Found, Goto, IInv, TypeInv, TypeOK
  <2>. QED
    BY <2>1, <2>2, <1>others DEF Found, Applies
<1>6. ASSUME NEW t \in Threads, Return(t) PROVE StillTrue' /\ NeverFaults'
  <2>1. Busy(t) /\ pc'[t] = "idle" /\ \A u \in Threads \ {t} : pc'[u] = pc[u]
    BY <1>6 DEF Return, Leave, Goto, Busy, IInv, TypeInv, TypeOK
  <2>2. CASE call[t].modifies
    <3>1. \A u \in Threads \ {t} : ~Busy(u)
      BY <2>1, <2>2 DEF IInv, Serialized
    <3>. QED
      BY <2>1, <3>1 DEF Busy, StillTrue, NeverFaults
  <2>3. CASE ~call[t].modifies
    <3>1. \A u \in Threads \ {t} : Kept(u)
      BY <1>6, <2>3 DEF Return, After, Leave, Goto, IInv, TypeInv, TypeOK
    <3>. QED
      BY <2>1, <3>1, <1>others DEF Busy
  <2>. QED
    BY <2>2, <2>3
<1>7. CASE UNCHANGED vars
  BY <1>7 DEF vars, StillTrue, NeverFaults, IInv, Found, Busy, Applies, Callable,
       TableOf
<1>. QED
  BY <1>1, <1>2, <1>3, <1>4, <1>5, <1>6, <1>7 DEF Next, Step

(* The inductive invariant, for headers whose calls fit their objects.        *)
THEOREM Invariance ==
    ASSUME HeadersFit
    PROVE  Spec => []IInv
<1>1. IInv /\ [Next]_vars => IInv'
  BY HeadersFit, NextType, NextSerialized, NextStillTrue DEF IInv
<1>. QED
  BY <1>1, InitIInv, PTL DEF Spec

(* Type correctness, whatever the headers are.                                *)
THEOREM TypeCorrect == Spec => []TypeOK
<1>1. Init => TypeInv
  BY InitIInv DEF IInv
<1>2. TypeInv => TypeOK
  BY DEF TypeInv
<1>. QED
  BY <1>1, <1>2, NextType, PTL DEF Spec

(* No call reads past an object or a table or enters nothing, however many    *)
(* threads call and however often the provider replaces the tables.           *)
THEOREM NoCallFaults ==
    ASSUME HeadersFit
    PROVE  Spec => []NeverFaults
<1>1. IInv => NeverFaults
  BY DEF IInv
<1>. QED
  BY <1>1, Invariance, HeadersFit, PTL

(* The table pointer that was read a step before is still the object's when   *)
(* it is used.                                                                *)
THEOREM CurrentTable ==
    ASSUME HeadersFit
    PROVE  Spec => EntersCurrentTable
<1>1. IInv => \A t \in Threads : pc[t] = "jump"
                => object # GONE /\ table[t] = TableOf(object, call[t])
  BY DEF IInv, StillTrue, Found, Busy
<1>2. IInv /\ [Next]_vars
        => [\A t \in Threads : pc[t] = "jump" /\ pc'[t] = "inside"
                => object # GONE /\ table[t] = TableOf(object, call[t])]_vars
  BY <1>1
<1>. QED
  BY <1>2, Invariance, HeadersFit, PTL DEF Spec, EntersCurrentTable

(* A thread that is told -FI_ENOSYS was told so by FI_CHECK_OP of the table   *)
(* the object has.                                                            *)
LEMMA EnosysStep ==
    ASSUME HeadersFit, IInv, [Next]_vars, NEW t \in Threads,
           pc[t] = "check", pc'[t] = "idle"
    PROVE  ~Callable(TableOf(object, call[t]), call[t].off)
<1>1. Fits(object, call[t])
  BY DEF IInv, TypeInv, TypeOK, StillTrue, Found, HeadersFit, Busy
<1>2. Check(t)
  <2>1. ASSUME NEW u \in Threads, u # t, Step(u) PROVE pc'[t] = pc[t]
    <3>. USE DEF IInv, TypeInv, TypeOK
    <3>1. ASSUME NEW c \in Calls, Begin(u, c) PROVE pc'[t] = pc[t]
      BY <2>1, <3>1 DEF Begin, Goto
    <3>2. CASE Check(u)
      BY <2>1, <3>2 DEF Check, Goto, Leave
    <3>3. CASE Load(u)
      BY <2>1, <3>3 DEF Load, Goto
    <3>4. CASE Jump(u)
      BY <2>1, <3>4 DEF Jump, Goto
    <3>5. CASE Return(u)
      BY <2>1, <3>5 DEF Return, Goto, Leave
    <3>. QED
      BY <2>1, <3>1, <3>2, <3>3, <3>4, <3>5 DEF Step
  <2>2. Step(t)
    BY <2>1 DEF Next, Reopen, vars
  <2>. QED
    BY <2>2 DEF Step, Begin, Load, Jump, Return
<1>3. PICK there \in FI_CHECK_OP(TableOf(object, call[t]), call[t].off) :
        IF there THEN Goto(t, "load") /\ UNCHANGED <<call, table>> ELSE Leave(t)
  BY <1>1, <1>2 DEF Check
<1>4. there \in BOOLEAN
  BY <1>3 DEF FI_CHECK_OP, Entries
<1>5. there = FALSE
  BY <1>3, <1>4 DEF Goto, IInv, TypeInv, TypeOK
<1>. QED
  BY <1>3, <1>5, CheckIsComplete

(* -FI_ENOSYS is never said of an operation that is there.                    *)
THEOREM HonestEnosys ==
    ASSUME HeadersFit
    PROVE  Spec => EnosysMeansAbsent
<1>1. IInv /\ [Next]_vars
        => [\A t \in Threads :
              pc[t] = "check" /\ pc'[t] = "idle"
                => ~Callable(TableOf(object, call[t]), call[t].off)]_vars
  BY HeadersFit, EnosysStep
<1>. QED
  BY <1>1, Invariance, HeadersFit, PTL DEF Spec, EnosysMeansAbsent
=============================================================================
