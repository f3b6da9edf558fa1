-------------------------- MODULE ServiceIpcProofs ---------------------------
(* Theorems about ServiceIpc, for every heap, every set of applications    *)
(* and every set of messages, and proofs that TLAPS checks.                *)
EXTENDS ServiceIpc, SequenceTheorems, TLAPS

IInv == TypeOK /\ MessagesHaveMemory

LEMMA SpecInit == Init => IInv
BY ServiceIpcAssumption
   DEF Init, InitWith, IInv, TypeOK, MessagesHaveMemory, IpcEvent

(* What an append does while the head of the list is being received. *)
LEMMA AppendFacts ==
  ASSUME NEW S, NEW q \in Seq(S), NEW x \in S
  PROVE  /\ Append(q, x) \in Seq(S)
         /\ Len(Append(q, x)) = Len(q) + 1
         /\ Append(q, x) # <<>>
         /\ q # <<>> => /\ Head(Append(q, x)) = Head(q)
                        /\ Tail(Append(q, x)) = Append(Tail(q), x)
<1>1. /\ Append(q, x) \in Seq(S)
      /\ Len(Append(q, x)) = Len(q) + 1
      /\ Append(q, x) # <<>>
  BY AppendProperties
<1>2. ASSUME q # <<>>
      PROVE  /\ Head(Append(q, x)) = Head(q)
             /\ Tail(Append(q, x)) = Append(Tail(q), x)
  <2>1. Len(q) \in Nat \ {0} /\ Tail(q) \in Seq(S) /\ Len(Tail(q)) = Len(q) - 1
    BY <1>2, EmptySeq, HeadTailProperties
  <2>2. Head(Append(q, x)) = Head(q)
    BY <2>1, AppendProperties
  <2>3. Tail(Append(q, x)) = Append(Tail(q), x)
    <3> DEFINE s == Tail(Append(q, x))
               t == Append(Tail(q), x)
    <3>1. s \in Seq(S) /\ Len(s) = Len(q)
      BY <1>1, HeadTailProperties
    <3>2. t \in Seq(S) /\ Len(t) = Len(q)
      BY <2>1, AppendProperties
    <3>3. ASSUME NEW i \in 1 .. Len(q)
          PROVE  s[i] = t[i]
      <4>1. s[i] = Append(q, x)[i + 1]
        BY <1>1, HeadTailProperties
      <4>2. CASE i = Len(q)
        <5>1. Append(q, x)[i + 1] = x
          BY <4>2, AppendProperties
        <5>2. t[i] = x
          BY <2>1, <4>2, AppendProperties
        <5>3. QED
          BY <4>1, <5>1, <5>2
      <4>3. CASE i < Len(q)
        <5>1. Append(q, x)[i + 1] = q[i + 1]
          BY <4>3, AppendProperties
        <5>2. t[i] = Tail(q)[i]
          <6>1. i \in 1 .. Len(Tail(q))
            BY <2>1, <4>3
          <6>2. QED
            BY <2>1, <6>1, AppendProperties
        <5>3. Tail(q)[i] = q[i + 1]
          BY <1>2, <2>1, <4>3, HeadTailProperties
        <5>4. QED
          BY <4>1, <5>1, <5>2, <5>3
      <4>4. i = Len(q) \/ i < Len(q)
        <5>1. Len(q) \in Int
          BY <2>1
        <5>2. QED
          BY <5>1
      <4>5. QED
        BY <4>2, <4>3, <4>4
    <3>4. QED
      BY <3>1, <3>2, <3>3, SeqEqual
  <2>4. QED
    BY <2>2, <2>3
<1>3. QED
  BY <1>1, <1>2

LEMMA NextKeepsIInv == IInv /\ [Next]_vars => IInv'
<1> SUFFICES ASSUME IInv, [Next]_vars
             PROVE  IInv'
  OBVIOUS
<1> USE ServiceIpcAssumption
<1>1. ASSUME NEW type \in {"APP_TO_CORE", "CORE_TO_APP"}, NEW app \in App,
             NEW data \in Data, Send(type, app, data)
      PROVE  IInv'
  <2> DEFINE x == [type |-> type, app |-> app, data |-> data]
  <2>1. x \in IpcEvent
    BY DEF IpcEvent
  <2>2. ipc_event_queue \in Seq(IpcEvent) /\ Len(ipc_event_queue) \in Nat
    BY DEF IInv, TypeOK
  <2>3. CASE Allocate(2) /\ ipc_event_queue' = Append(ipc_event_queue, x)
    <3>1. UNCHANGED event
      BY <1>1 DEF Send
    <3>2. TypeOK'
      BY <2>1, <2>2, <2>3, <3>1, AppendFacts DEF IInv, TypeOK, Allocate
    <3>3. MessagesHaveMemory'
      BY <2>1, <2>2, <2>3, <3>1, AppendFacts
         DEF IInv, TypeOK, MessagesHaveMemory, Allocate
    <3>4. QED
      BY <3>2, <3>3 DEF IInv
  <2>4. CASE (Allocate(1) \/ Allocate(0)) /\ UNCHANGED ipc_event_queue
    BY <1>1, <2>2, <2>4 DEF Send, IInv, TypeOK, MessagesHaveMemory, Allocate
  <2>5. QED
    BY <1>1, <2>3, <2>4 DEF Send
<1>2. CASE TaskCalls
  BY <1>2, HeadTailProperties DEF TaskCalls, IInv, TypeOK, MessagesHaveMemory
<1>3. CASE TaskReturns
  <2>1. /\ ipc_event_queue \in Seq(IpcEvent)
        /\ ipc_event_queue # <<>>
    BY <1>3 DEF TaskReturns, IInv, TypeOK, MessagesHaveMemory
  <2>2. /\ ipc_event_queue' \in Seq(IpcEvent)
        /\ Len(ipc_event_queue') = Len(ipc_event_queue) - 1
        /\ Len(ipc_event_queue) \in Nat \ {0}
    BY <1>3, <2>1, HeadTailProperties, EmptySeq DEF TaskReturns
  <2>3. QED
    BY <1>3, <2>2 DEF TaskReturns, IInv, TypeOK, MessagesHaveMemory
<1>4. CASE UNCHANGED vars
  BY <1>4 DEF vars, IInv, TypeOK, MessagesHaveMemory
<1>5. QED
  BY <1>1, <1>2, <1>3, <1>4 DEF Next, send_app_to_core, send_core_to_app

(* Every message in the list, the one being received included, has both    *)
(* its blocks, and the heap never hands out more than it has.              *)
THEOREM MemoryInvariant == Spec => [](TypeOK /\ MessagesHaveMemory)
<1>1. Spec => []IInv
  BY SpecInit, NextKeepsIInv, PTL DEF Spec
<1>2. QED
  BY <1>1, PTL DEF IInv

(* The list's variables keep their types, and its memory is never more     *)
(* than the heap (port_service_ipc.c:84-108).                              *)
THEOREM TypeCorrect == Spec => []TypeOK
BY MemoryInvariant, PTL

LEMMA StepIsFifo ==
  ASSUME IInv, [Next]_vars
  PROVE  [Fifo!Next]_(Fifo!vars)
<1> USE ServiceIpcAssumption DEF Fifo!vars
<1>1. ASSUME NEW type \in {"APP_TO_CORE", "CORE_TO_APP"}, NEW app \in App,
             NEW data \in Data, Send(type, app, data)
      PROVE  [Fifo!Next]_(Fifo!vars)
  <2> DEFINE x == [type |-> type, app |-> app, data |-> data]
  <2>1. /\ x \in IpcEvent
        /\ ipc_event_queue \in Seq(IpcEvent)
        /\ event # NULL => ipc_event_queue # <<>>
        /\ UNCHANGED event
    BY <1>1 DEF IInv, TypeOK, IpcEvent, MessagesHaveMemory, Send
  <2>2. CASE ipc_event_queue' = Append(ipc_event_queue, x)
    <3>1. Fifo!Raise(x)
      BY <2>1, <2>2, AppendFacts DEF Fifo!Raise
    <3>2. QED
      BY <2>1, <3>1 DEF Fifo!Next
  <2>3. CASE UNCHANGED ipc_event_queue
    BY <2>1, <2>3
  <2>4. QED
    BY <1>1, <2>2, <2>3 DEF Send
<1>2. CASE TaskCalls
  <2>1. ipc_event_queue \in Seq(IpcEvent) /\ ipc_event_queue # <<>>
    BY <1>2 DEF IInv, TypeOK, TaskCalls
  <2>2. event' # NULL
    BY <1>2, <2>1, HeadTailProperties DEF TaskCalls, IpcEvent
  <2>3. Fifo!Serve
    BY <1>2, <2>1, <2>2 DEF TaskCalls, Fifo!Serve
  <2>4. QED
    BY <2>3 DEF Fifo!Next
<1>3. CASE TaskReturns
  BY <1>3 DEF TaskReturns, Fifo!Next, Fifo!Done
<1>4. CASE UNCHANGED vars
  BY <1>4 DEF vars
<1>5. QED
  BY <1>1, <1>2, <1>3, <1>4 DEF Next, send_app_to_core, send_core_to_app

(* The list implements EventFifo: what is not dropped is received once, in *)
(* the order in which it was sent.                                         *)
THEOREM ListImplementsFifo == Spec => QueueIsFifo
<1>1. Spec => []IInv
  BY SpecInit, NextKeepsIInv, PTL DEF Spec
<1>2. Init => Fifo!Init
  BY DEF Init, InitWith, Fifo!Init
<1>3. IInv /\ [Next]_vars => [Fifo!Next]_(Fifo!vars)
  BY StepIsFifo
<1>4. QED
  BY <1>1, <1>2, <1>3, PTL DEF Spec, QueueIsFifo, Fifo!Spec
=============================================================================
