------------------------ MODULE UserWorkerPoolProofs ------------------------
(***************************************************************************)
(* Proofs about the user worker pool actor (UserWorkerPool.tla) for every  *)
(* set of keys and callers.                                                *)
(***************************************************************************)
EXTENDS UserWorkerPool, FiniteSetTheorems, TLAPS

-----------------------------------------------------------------------------
(* Type correctness.                                                       *)

\* The head and the tail of a non-empty channel of messages.
LEMMA HeadTailType ==
    ASSUME NEW q \in Seq(Msgs), q # <<>>
    PROVE  Head(q) \in Msgs /\ Tail(q) \in Seq(Msgs)
  OBVIOUS

\* The fields of a message.
LEMMA MsgFields ==
    ASSUME NEW m \in Msgs
    PROVE  /\ m.key \in Keys
           /\ m.kind \in {"create", "send", "shutdown"}
           /\ m.kind # "shutdown" => m.from \in Callers
           /\ m.kind = "shutdown" => m.origin \in Callers \cup {External}
  BY DEF Msgs

LEMMA TypeInit == Init => TypeOK
  BY PoolAssumption DEF Init, TypeOK, InstStates

LEMMA TypeStep == TypeOK /\ [Next]_vars => TypeOK'
<1> SUFFICES ASSUME TypeOK, [Next]_vars PROVE TypeOK'
  OBVIOUS
<1>1. ASSUME NEW c \in Callers, NEW k \in Keys,
             CallCreate(c, k) \/ CallSend(c, k) \/ CallShutdown(c, k)
      PROVE  TypeOK'
  <2>1. /\ [kind |-> "create", key |-> k, from |-> c] \in Msgs
        /\ [kind |-> "send", key |-> k, from |-> c] \in Msgs
        /\ [kind |-> "shutdown", key |-> k, origin |-> External] \in Msgs
    BY DEF Msgs
  <2>2. CASE CallCreate(c, k)
    BY <2>1, <2>2 DEF CallCreate, TypeOK
  <2>3. CASE CallSend(c, k)
    BY <2>1, <2>3 DEF CallSend, TypeOK
  <2>4. CASE CallShutdown(c, k)
    BY <2>1, <2>4 DEF CallShutdown, TypeOK
  <2>5. QED
    BY <1>1, <2>2, <2>3, <2>4
<1>2. CASE RecvCreate
  <2>1. Head(msgs) \in Msgs /\ Tail(msgs) \in Seq(Msgs)
    BY <1>2, HeadTailType DEF RecvCreate, Received, TypeOK
  <2>2. Head(msgs).key \in Keys /\ Head(msgs).from \in Callers
    BY <1>2, <2>1, MsgFields DEF RecvCreate, Received
  <2>3. CASE table[Head(msgs).key] # NoCaller
    BY <1>2, <2>1, <2>2, <2>3 DEF RecvCreate, Received, TypeOK
  <2>4. CASE table[Head(msgs).key] = NoCaller
    BY <1>2, <2>1, <2>2, <2>4 DEF RecvCreate, Received, TypeOK, InstStates
  <2>5. QED
    BY <2>3, <2>4
<1>3. CASE RecvSend
  <2>1. Head(msgs) \in Msgs /\ Tail(msgs) \in Seq(Msgs)
    BY <1>3, HeadTailType DEF RecvSend, Received, TypeOK
  <2>2. Head(msgs).key \in Keys /\ Head(msgs).from \in Callers
    BY <1>3, <2>1, MsgFields DEF RecvSend, Received
  <2>3. QED
    BY <1>3, <2>1, <2>2 DEF RecvSend, Received, TypeOK
<1>4. CASE RecvShutdown
  <2>1. Head(msgs) \in Msgs /\ Tail(msgs) \in Seq(Msgs)
    BY <1>4, HeadTailType DEF RecvShutdown, Received, TypeOK
  <2>2. Head(msgs).key \in Keys
    BY <2>1, MsgFields
  <2>3. QED
    BY <1>4, <2>1, <2>2 DEF RecvShutdown, Received, TypeOK, InstStates
<1>5. ASSUME NEW i \in Callers, BootResolves(i) PROVE TypeOK'
  <2>1. actor' \in [pc : {"recv", "creating"}, from : Callers \cup {NoCaller}]
    BY <1>5 DEF BootResolves, TypeOK
  <2>2. instSt' \in [Callers -> InstStates] /\ table' \in [Keys -> Callers \cup {NoCaller}]
    BY <1>5 DEF BootResolves, TypeOK, InstStates
  <2>3. callers' \in [Callers -> {"idle", "waiting", "ok", "err", "sent"}]
    BY <1>5 DEF BootResolves, TypeOK
  <2>4. QED
    BY <1>5, <2>1, <2>2, <2>3 DEF BootResolves, TypeOK
<1>6. ASSUME NEW i \in Callers, Serve(i) \/ FailDead(i) PROVE TypeOK'
  BY <1>6 DEF Serve, FailDead, TypeOK
<1>7. ASSUME NEW i \in Callers, SupervisorEnds(i) PROVE TypeOK'
  BY <1>7 DEF SupervisorEnds, TypeOK, Msgs, InstStates
<1>8. CASE UNCHANGED vars
  BY <1>8 DEF vars, TypeOK
<1>9. QED
  BY <1>1, <1>2, <1>3, <1>4, <1>5, <1>6, <1>7, <1>8 DEF Next

\* Every step of the callers, the loop and the workers keeps each variable
\* in its type.
THEOREM TypeCorrect == Spec => []TypeOK
  BY TypeInit, TypeStep, PTL DEF Spec

-----------------------------------------------------------------------------
(* The inductive invariant behind AtMostOneInstance.                       *)

\* Each caller's message is in the channel at most once, and only after
\* the caller left "idle"; a Create in the channel names an unused instance.
UniqueIn(q) ==
    \A j1, j2 \in DOMAIN q :
        /\ q[j1].kind # "shutdown"
        /\ q[j2].kind # "shutdown"
        /\ q[j1].from = q[j2].from
        => j1 = j2

UniqueSenders == UniqueIn(msgs)

CreatesUnused ==
    \A j \in DOMAIN msgs :
        msgs[j].kind = "create" => instSt[msgs[j].from] = "unused"

IdleUnsent ==
    \A c \in Callers : callers[c] = "idle" =>
        /\ instSt[c] = "unused"
        /\ \A j \in DOMAIN msgs : msgs[j].kind # "shutdown" => msgs[j].from # c

\* A booting instance is the one the loop awaits, and its key has no entry;
\* a ready instance is the entry of its key.
BootAwaited ==
    \A i \in Callers : instSt[i] = "booting" =>
        /\ actor = [pc |-> "creating", from |-> i]
        /\ table[instKey[i]] = NoCaller

ReadyInTable ==
    \A i \in Callers : instSt[i] = "ready" => table[instKey[i]] = i

IInv == TypeOK /\ UniqueSenders /\ CreatesUnused /\ IdleUnsent /\ BootAwaited /\ ReadyInTable


\* Taking the head of a channel keeps its senders distinct.
LEMMA TailUnique ==
    ASSUME NEW q \in Seq(Msgs), q # <<>>, UniqueIn(q)
    PROVE  UniqueIn(Tail(q))
<1> SUFFICES ASSUME NEW j1 \in DOMAIN Tail(q), NEW j2 \in DOMAIN Tail(q),
                    Tail(q)[j1].kind # "shutdown", Tail(q)[j2].kind # "shutdown",
                    Tail(q)[j1].from = Tail(q)[j2].from
             PROVE  j1 = j2
  BY DEF UniqueIn
<1>1. j1 + 1 \in DOMAIN q /\ j2 + 1 \in DOMAIN q
      /\ Tail(q)[j1] = q[j1 + 1] /\ Tail(q)[j2] = q[j2 + 1]
  OBVIOUS
<1>2. j1 + 1 = j2 + 1
  BY <1>1 DEF UniqueIn
<1>3. QED
  BY <1>1, <1>2

\* The indices of the tail of a channel.
LEMMA TailIndex ==
    ASSUME NEW q \in Seq(Msgs), q # <<>>
    PROVE  \A j \in DOMAIN Tail(q) : Tail(q)[j] = q[j + 1] /\ j + 1 \in DOMAIN q
  OBVIOUS

\* Appending a message whose sender has none in the channel keeps the
\* senders distinct.
LEMMA AppendUnique ==
    ASSUME NEW q \in Seq(Msgs), NEW e \in Msgs, UniqueIn(q),
           e.kind # "shutdown" =>
               \A j \in DOMAIN q : q[j].kind # "shutdown" => q[j].from # e.from
    PROVE  UniqueIn(Append(q, e))
<1> SUFFICES ASSUME NEW j1 \in DOMAIN Append(q, e), NEW j2 \in DOMAIN Append(q, e),
                    Append(q, e)[j1].kind # "shutdown",
                    Append(q, e)[j2].kind # "shutdown",
                    Append(q, e)[j1].from = Append(q, e)[j2].from
             PROVE  j1 = j2
  BY DEF UniqueIn
<1>1. CASE j1 \in DOMAIN q /\ j2 \in DOMAIN q
  BY <1>1 DEF UniqueIn
<1>2. CASE j1 = Len(q) + 1 /\ j2 = Len(q) + 1
  BY <1>2
<1>3. CASE j1 \in DOMAIN q /\ j2 = Len(q) + 1
  BY <1>3
<1>4. CASE j2 \in DOMAIN q /\ j1 = Len(q) + 1
  BY <1>4
<1>5. QED
  BY <1>1, <1>2, <1>3, <1>4

LEMMA IInvInit == Init => IInv
  BY TypeInit
  DEF Init, IInv, UniqueSenders, UniqueIn, CreatesUnused, IdleUnsent, BootAwaited, ReadyInTable

\* Appending a message that no caller in `idle` sent keeps the channel's
\* invariants about senders.
LEMMA IInvStep == IInv /\ [Next]_vars => IInv'
<1> SUFFICES ASSUME IInv, [Next]_vars PROVE IInv'
  OBVIOUS
<1> USE DEF IInv
<1>0. TypeOK'
  BY TypeStep
<1>1. ASSUME NEW c \in Callers, NEW k \in Keys,
             CallCreate(c, k) \/ CallSend(c, k) \/ CallShutdown(c, k)
      PROVE  IInv'
  <2> DEFINE m == msgs'[Len(msgs')]
  <2>1. /\ callers[c] = "idle"
        /\ msgs' = Append(msgs, m)
        /\ m.kind # "shutdown" => m.from = c
        /\ m.kind = "create" => m.from = c
        /\ callers'[c] # "idle"
        /\ \A d \in Callers \ {c} : callers'[d] = callers[d]
        /\ UNCHANGED <<actor, table, instKey, instSt, routed>>
    BY <1>1 DEF CallCreate, CallSend, CallShutdown, TypeOK
  <2>2. UniqueSenders'
    <3>1. m \in Msgs
      BY <1>0, <2>1 DEF TypeOK
    <3>2. m.kind # "shutdown" =>
            \A j \in DOMAIN msgs : msgs[j].kind # "shutdown" => msgs[j].from # m.from
      BY <2>1 DEF IdleUnsent
    <3>3. QED
      BY <2>1, <3>1, <3>2, AppendUnique DEF UniqueSenders, TypeOK
  <2>3. CreatesUnused'
    <3> SUFFICES ASSUME NEW j \in DOMAIN msgs', msgs'[j].kind = "create"
                 PROVE  instSt'[msgs'[j].from] = "unused"
      BY DEF CreatesUnused
    <3>1. CASE j \in DOMAIN msgs
      BY <2>1, <3>1 DEF CreatesUnused, TypeOK
    <3>2. CASE j = Len(msgs) + 1
      BY <2>1, <3>2 DEF IdleUnsent, TypeOK
    <3>3. QED
      BY <2>1, <3>1, <3>2 DEF TypeOK
  <2>4. IdleUnsent'
    <3> SUFFICES ASSUME NEW d \in Callers, callers'[d] = "idle"
                 PROVE  /\ instSt'[d] = "unused"
                        /\ \A j \in DOMAIN msgs' : msgs'[j].kind # "shutdown" => msgs'[j].from # d
      BY DEF IdleUnsent
    <3>1. d # c /\ callers[d] = "idle"
      BY <2>1
    <3>2. instSt'[d] = "unused"
      BY <2>1, <3>1 DEF IdleUnsent
    <3>3. ASSUME NEW j \in DOMAIN msgs', msgs'[j].kind # "shutdown"
          PROVE  msgs'[j].from # d
      <4>1. CASE j \in DOMAIN msgs
        BY <2>1, <3>1, <3>3, <4>1 DEF IdleUnsent, TypeOK
      <4>2. CASE j = Len(msgs) + 1
        BY <2>1, <3>1, <3>3, <4>2 DEF TypeOK
      <4>3. QED
        BY <2>1, <4>1, <4>2 DEF TypeOK
    <3>4. QED
      BY <3>2, <3>3
  <2>5. BootAwaited' /\ ReadyInTable'
    BY <2>1 DEF BootAwaited, ReadyInTable
  <2>6. QED
    BY <1>0, <2>2, <2>3, <2>4, <2>5
<1>2. CASE RecvCreate
  <2> DEFINE m == Head(msgs)
  <2>1. /\ actor.pc = "recv"
        /\ msgs # <<>>
        /\ m.kind = "create"
        /\ msgs' = Tail(msgs)
        /\ m \in Msgs
        /\ m.key \in Keys /\ m.from \in Callers
    BY <1>2, HeadTailType, MsgFields DEF RecvCreate, Received, TypeOK
  <2>2. instSt[m.from] = "unused"
    BY <2>1 DEF CreatesUnused, TypeOK
  <2>3. \A i \in Callers : instSt[i] # "booting"
    BY <2>1 DEF BootAwaited
  <2>13. callers[m.from] # "idle" /\ m = msgs[1] /\ 1 \in DOMAIN msgs
    BY <2>1 DEF IdleUnsent, TypeOK
  <2>4. /\ \A i \in Callers \ {m.from} : instSt'[i] = instSt[i] /\ instKey'[i] = instKey[i]
        /\ instSt'[m.from] \in {"unused", "booting"}
        /\ UNCHANGED <<table, routed>>
        /\ \A d \in Callers \ {m.from} : callers'[d] = callers[d]
        /\ callers'[m.from] # "idle"
    <3>1. CASE table[m.key] # NoCaller
      BY <1>2, <2>1, <2>2, <2>13, <3>1 DEF RecvCreate, TypeOK
    <3>2. CASE table[m.key] = NoCaller
      BY <1>2, <2>1, <2>13, <3>2 DEF RecvCreate, TypeOK
    <3>3. QED
      BY <3>1, <3>2
  <2>5. \A j \in DOMAIN msgs' : msgs'[j] = msgs[j + 1] /\ j + 1 \in DOMAIN msgs
    BY <2>1 DEF TypeOK
  <2>6. \A j \in DOMAIN msgs' : msgs'[j].kind # "shutdown" => msgs'[j].from # m.from
    <3> SUFFICES ASSUME NEW j \in DOMAIN msgs', msgs'[j].kind # "shutdown"
                 PROVE  msgs'[j].from # m.from
      OBVIOUS
    <3>1. msgs'[j] = msgs[j + 1] /\ j + 1 \in DOMAIN msgs /\ j + 1 # 1
      BY <2>1, <2>5 DEF TypeOK
    <3>2. QED
      BY <2>1, <2>13, <3>1 DEF UniqueSenders, UniqueIn
  <2>7. UniqueSenders'
    BY <2>1, TailUnique DEF UniqueSenders, TypeOK
  <2>8. CreatesUnused'
    <3> SUFFICES ASSUME NEW j \in DOMAIN msgs', msgs'[j].kind = "create"
                 PROVE  instSt'[msgs'[j].from] = "unused"
      BY DEF CreatesUnused
    <3>1. msgs'[j] = msgs[j + 1] /\ j + 1 \in DOMAIN msgs
      BY <2>5
    <3>2. msgs[j + 1].from \in Callers \ {m.from}
      BY <2>6, <3>1, MsgFields DEF TypeOK
    <3>3. instSt[msgs[j + 1].from] = "unused"
      BY <3>1 DEF CreatesUnused
    <3>4. QED
      BY <2>4, <3>1, <3>2, <3>3
  <2>9. IdleUnsent'
    <3> SUFFICES ASSUME NEW c \in Callers, callers'[c] = "idle"
                 PROVE  /\ instSt'[c] = "unused"
                        /\ \A j \in DOMAIN msgs' : msgs'[j].kind # "shutdown" => msgs'[j].from # c
      BY DEF IdleUnsent
    <3>2. c # m.from /\ callers[c] = "idle"
      BY <2>4
    <3>3. QED
      BY <2>4, <2>5, <3>2 DEF IdleUnsent
  <2>10. BootAwaited'
    BY <1>2, <2>1, <2>3 DEF RecvCreate, BootAwaited, TypeOK
  <2>11. ReadyInTable'
    BY <2>2, <2>4 DEF ReadyInTable, TypeOK
  <2>12. QED
    BY <1>0, <2>7, <2>8, <2>9, <2>10, <2>11
<1>3. CASE RecvSend
  <2> DEFINE m == Head(msgs)
  <2>1. /\ msgs # <<>>
        /\ m.kind = "send"
        /\ msgs' = Tail(msgs)
        /\ m \in Msgs
        /\ m.from \in Callers
        /\ UNCHANGED <<actor, table, instKey, instSt>>
        /\ \A d \in Callers \ {m.from} : callers'[d] = callers[d]
    BY <1>3, HeadTailType, MsgFields DEF RecvSend, Received, TypeOK
  <2>2. callers[m.from] # "idle" /\ callers'[m.from] # "idle"
    BY <1>3, <2>1 DEF RecvSend, IdleUnsent, TypeOK
  <2>3. UniqueSenders'
    BY <2>1, TailUnique DEF UniqueSenders, TypeOK
  <2>4. CreatesUnused'
    <3> SUFFICES ASSUME NEW j \in DOMAIN msgs', msgs'[j].kind = "create"
                 PROVE  instSt'[msgs'[j].from] = "unused"
      BY DEF CreatesUnused
    <3>1. msgs'[j] = msgs[j + 1] /\ j + 1 \in DOMAIN msgs
      BY <2>1, TailIndex DEF TypeOK
    <3>2. QED
      BY <2>1, <3>1 DEF CreatesUnused
  <2>5. IdleUnsent'
    <3> SUFFICES ASSUME NEW c \in Callers, callers'[c] = "idle"
                 PROVE  /\ instSt'[c] = "unused"
                        /\ \A j \in DOMAIN msgs' : msgs'[j].kind # "shutdown" => msgs'[j].from # c
      BY DEF IdleUnsent
    <3>1. c # m.from /\ callers[c] = "idle"
      BY <2>1, <2>2
    <3>2. QED
      BY <2>1, <3>1, TailIndex DEF IdleUnsent, TypeOK
  <2>6. QED
    BY <1>0, <2>1, <2>3, <2>4, <2>5 DEF BootAwaited, ReadyInTable
<1>4. CASE RecvShutdown
  <2> DEFINE m == Head(msgs)
             i == table[m.key]
  <2>1. /\ actor.pc = "recv"
        /\ msgs # <<>>
        /\ msgs' = Tail(msgs)
        /\ m \in Msgs
        /\ m.key \in Keys
        /\ UNCHANGED <<actor, instKey, routed, callers>>
    BY <1>4, HeadTailType, MsgFields DEF RecvShutdown, Received, TypeOK
  <2>2. /\ \A c \in Callers : instSt[c] \in {"unused", "booting"} => instSt'[c] = instSt[c]
        /\ \A c \in Callers : instSt'[c] \in {"ready", "booting"} => instSt[c] = instSt'[c]
        /\ \A c \in Callers : instSt'[c] = "ready" => c # i
        /\ \A k \in Keys : table'[k] # table[k] => k = m.key /\ table'[k] = NoCaller
    <3>1. CASE i = NoCaller
      BY <1>4, <2>1, <3>1, PoolAssumption DEF RecvShutdown, TypeOK
    <3>2. CASE i # NoCaller
      BY <1>4, <2>1, <3>2 DEF RecvShutdown, TypeOK
    <3>3. QED
      BY <3>1, <3>2
  <2>3. \A c \in Callers : instSt[c] # "booting"
    BY <2>1 DEF BootAwaited
  <2>4. UniqueSenders'
    BY <2>1, TailUnique DEF UniqueSenders, TypeOK
  <2>5. CreatesUnused'
    <3> SUFFICES ASSUME NEW j \in DOMAIN msgs', msgs'[j].kind = "create"
                 PROVE  instSt'[msgs'[j].from] = "unused"
      BY DEF CreatesUnused
    <3>1. msgs'[j] = msgs[j + 1] /\ j + 1 \in DOMAIN msgs
      BY <2>1, TailIndex DEF TypeOK
    <3>2. msgs[j + 1].from \in Callers /\ instSt[msgs[j + 1].from] = "unused"
      BY <3>1, MsgFields DEF CreatesUnused, TypeOK
    <3>3. QED
      BY <2>2, <3>1, <3>2
  <2>6. IdleUnsent'
    <3> SUFFICES ASSUME NEW c \in Callers, callers'[c] = "idle"
                 PROVE  /\ instSt'[c] = "unused"
                        /\ \A j \in DOMAIN msgs' : msgs'[j].kind # "shutdown" => msgs'[j].from # c
      BY DEF IdleUnsent
    <3>1. callers[c] = "idle" /\ instSt[c] = "unused"
      BY <2>1 DEF IdleUnsent
    <3>2. QED
      BY <2>1, <2>2, <3>1, TailIndex DEF IdleUnsent, TypeOK
  <2>7. BootAwaited'
    BY <2>2, <2>3 DEF BootAwaited
  <2>8. ReadyInTable'
    BY <2>1, <2>2 DEF ReadyInTable, TypeOK
  <2>9. QED
    BY <1>0, <2>4, <2>5, <2>6, <2>7, <2>8
<1>5. ASSUME NEW i \in Callers, BootResolves(i) PROVE IInv'
  <2>1. /\ instSt[i] = "booting"
        /\ actor = [pc |-> "creating", from |-> i]
        /\ table[instKey[i]] = NoCaller
    BY <1>5 DEF BootResolves, BootAwaited
  <2>2. /\ actor' = [pc |-> "recv", from |-> NoCaller]
        /\ UNCHANGED <<msgs, instKey, routed>>
        /\ \A c \in Callers \ {i} : instSt'[c] = instSt[c] /\ callers'[c] = callers[c]
        /\ instSt'[i] \in {"ready", "failed"}
        /\ callers'[i] # "idle"
        /\ instSt'[i] = "ready" => table' = [table EXCEPT ![instKey[i]] = i]
        /\ instSt'[i] = "failed" => table' = table
    <3>1. actor' = [pc |-> "recv", from |-> NoCaller] /\ UNCHANGED <<msgs, instKey, routed>>
      BY <1>5, <2>1 DEF BootResolves
    <3>2. CASE instSt' = [instSt EXCEPT ![i] = "ready"]
      BY <1>5, <3>1, <3>2 DEF BootResolves, TypeOK
    <3>3. CASE instSt' = [instSt EXCEPT ![i] = "failed"]
      BY <1>5, <3>1, <3>3 DEF BootResolves, TypeOK
    <3>4. QED
      BY <1>5, <3>2, <3>3 DEF BootResolves
  <2>3. callers[i] # "idle" /\ \A j \in DOMAIN msgs : msgs[j].kind = "create" => msgs[j].from # i
    BY <2>1 DEF IdleUnsent, CreatesUnused, TypeOK
  <2>4. \A c \in Callers : instSt[c] = "booting" => c = i
    BY <2>1 DEF BootAwaited
  <2>5. \A c \in Callers : instSt[c] = "ready" => instKey[c] # instKey[i]
    <3> SUFFICES ASSUME NEW c \in Callers, instSt[c] = "ready", instKey[c] = instKey[i]
                 PROVE  FALSE
      OBVIOUS
    <3>1. table[instKey[i]] = c
      BY DEF ReadyInTable
    <3>2. QED
      BY <2>1, <3>1, PoolAssumption
  <2>6. UniqueSenders' /\ CreatesUnused'
    <3>1. UniqueSenders'
      BY <2>2 DEF UniqueSenders, UniqueIn
    <3>2. CreatesUnused'
      <4> SUFFICES ASSUME NEW j \in DOMAIN msgs', msgs'[j].kind = "create"
                   PROVE  instSt'[msgs'[j].from] = "unused"
        BY DEF CreatesUnused
      <4>1. msgs[j].from \in Callers \ {i} /\ instSt[msgs[j].from] = "unused"
        BY <2>2, <2>3, MsgFields DEF CreatesUnused, TypeOK
      <4>2. QED
        BY <2>2, <4>1
    <3>3. QED
      BY <3>1, <3>2
  <2>10. IdleUnsent'
    <3> SUFFICES ASSUME NEW c \in Callers, callers'[c] = "idle"
                 PROVE  /\ instSt'[c] = "unused"
                        /\ \A j \in DOMAIN msgs' : msgs'[j].kind # "shutdown" => msgs'[j].from # c
      BY DEF IdleUnsent
    <3>1. c # i /\ callers[c] = "idle"
      BY <2>2
    <3>2. QED
      BY <2>2, <3>1 DEF IdleUnsent
  <2>7. BootAwaited'
    BY <2>2, <2>4 DEF BootAwaited
  <2>8. ReadyInTable'
    BY <2>2, <2>5 DEF ReadyInTable, TypeOK
  <2>9. QED
    BY <1>0, <2>6, <2>7, <2>8, <2>10
<1>6. ASSUME NEW i \in Callers, Serve(i) \/ FailDead(i) PROVE IInv'
  <2>1. /\ callers[i] = "waiting"
        /\ callers' = [callers EXCEPT ![i] = callers'[i]]
        /\ callers'[i] # "idle"
        /\ UNCHANGED <<msgs, actor, table, instKey, instSt, routed>>
    BY <1>6 DEF Serve, FailDead, TypeOK
  <2>2. QED
    BY <1>0, <2>1
    DEF UniqueSenders, CreatesUnused, IdleUnsent, BootAwaited, ReadyInTable, TypeOK
<1>7. ASSUME NEW i \in Callers, SupervisorEnds(i) PROVE IInv'
  <2> DEFINE e == msgs'[Len(msgs')]
  <2>1. /\ instSt[i] \in {"ready", "stopping"}
        /\ instSt' = [instSt EXCEPT ![i] = "ended"]
        /\ msgs' = Append(msgs, e)
        /\ e.kind = "shutdown"
        /\ UNCHANGED <<actor, table, instKey, routed, callers>>
    BY <1>7 DEF SupervisorEnds, TypeOK
  <2>2. callers[i] # "idle" /\ \A j \in DOMAIN msgs : msgs[j].kind = "create" => msgs[j].from # i
    BY <2>1 DEF IdleUnsent, CreatesUnused, TypeOK
  <2>3. UniqueSenders'
    <3>1. e \in Msgs
      BY <1>0, <2>1 DEF TypeOK
    <3>2. QED
      BY <2>1, <3>1, AppendUnique DEF UniqueSenders, TypeOK
  <2>4. CreatesUnused'
    <3> SUFFICES ASSUME NEW j \in DOMAIN msgs', msgs'[j].kind = "create"
                 PROVE  instSt'[msgs'[j].from] = "unused"
      BY DEF CreatesUnused
    <3>1. j \in DOMAIN msgs /\ msgs'[j] = msgs[j]
      BY <2>1 DEF TypeOK
    <3>2. QED
      BY <2>1, <2>2, <3>1 DEF CreatesUnused, TypeOK
  <2>5. IdleUnsent'
    <3> SUFFICES ASSUME NEW c \in Callers, callers'[c] = "idle"
                 PROVE  /\ instSt'[c] = "unused"
                        /\ \A j \in DOMAIN msgs' : msgs'[j].kind # "shutdown" => msgs'[j].from # c
      BY DEF IdleUnsent
    <3>1. c # i /\ callers[c] = "idle"
      BY <2>1, <2>2
    <3>2. \A j \in DOMAIN msgs' : (j \in DOMAIN msgs /\ msgs'[j] = msgs[j]) \/ j = Len(msgs) + 1
      BY <2>1 DEF TypeOK
    <3>3. QED
      BY <2>1, <3>1, <3>2 DEF IdleUnsent, TypeOK
  <2>6. BootAwaited' /\ ReadyInTable'
    BY <2>1 DEF BootAwaited, ReadyInTable, TypeOK
  <2>7. QED
    BY <1>0, <2>3, <2>4, <2>5, <2>6
<1>8. CASE UNCHANGED vars
  <2>1. UNCHANGED <<msgs, actor, table, instKey, instSt, routed, callers>>
    BY <1>8 DEF vars
  <2>2. QED
    BY <1>0, <2>1 DEF UniqueSenders, UniqueIn, CreatesUnused, IdleUnsent, BootAwaited,
                      ReadyInTable
<1>9. QED
  BY <1>1, <1>2, <1>3, <1>4, <1>5, <1>6, <1>7, <1>8 DEF Next


\* Two live instances of one key are the same instance.
LEMMA LiveUnique ==
    ASSUME IInv, NEW k \in Keys, NEW i \in Live(k), NEW j \in Live(k)
    PROVE  i = j
<1>1. i \in Callers /\ j \in Callers /\ instKey[i] = k /\ instKey[j] = k
  BY DEF Live
<1>2. CASE instSt[i] = "booting" /\ instSt[j] = "booting"
  BY <1>1, <1>2 DEF IInv, BootAwaited
<1>3. CASE instSt[i] = "ready" /\ instSt[j] = "ready"
  BY <1>1, <1>3 DEF IInv, ReadyInTable
<1>4. CASE instSt[i] = "booting" /\ instSt[j] = "ready"
  BY <1>1, <1>4, PoolAssumption DEF IInv, BootAwaited, ReadyInTable
<1>5. CASE instSt[i] = "ready" /\ instSt[j] = "booting"
  BY <1>1, <1>5, PoolAssumption DEF IInv, BootAwaited, ReadyInTable
<1>6. QED
  BY <1>1, <1>2, <1>3, <1>4, <1>5 DEF Live

LEMMA IInvImpliesAtMostOne == IInv => AtMostOneInstance
<1> SUFFICES ASSUME IInv, NEW k \in Keys PROVE Cardinality(Live(k)) <= 1
  BY DEF AtMostOneInstance
<1>1. CASE Live(k) = {}
  BY <1>1, FS_EmptySet
<1>2. CASE Live(k) # {}
  <2>1. PICK i \in Live(k) : TRUE
    BY <1>2
  <2>2. Live(k) = {i}
    BY LiveUnique
  <2>3. Cardinality({i}) = 1
    BY FS_Singleton
  <2>4. QED
    BY <2>2, <2>3
<1>3. QED
  BY <1>1, <1>2

\* AtMostOneInstance holds for every set of keys and callers: the loop
\* awaits each boot before it reads the next message (RecvCreate,
\* BootResolves), so a second Create of a key finds the entry of the first,
\* and a Shutdown, whether from the front door or for an ended worker,
\* only retires the entry it removes.
THEOREM AtMostOneInstanceHolds == Spec => []AtMostOneInstance
<1>1. Init => IInv
  BY IInvInit
<1>2. IInv /\ [Next]_vars => IInv'
  BY IInvStep
<1>3. QED
  BY <1>1, <1>2, IInvImpliesAtMostOne, PTL DEF Spec

-----------------------------------------------------------------------------
(* No entry is overwritten.                                                *)

\* The steps that change the table: a boot resolving fills the slot of its
\* key, a Shutdown empties one; no other step touches it.
LEMMA EntryStep ==
    ASSUME IInv, [Next]_vars
    PROVE  \A k \in Keys : table[k] # NoCaller => table'[k] \in {table[k], NoCaller}
<1> SUFFICES ASSUME NEW k \in Keys, table[k] # NoCaller
             PROVE  table'[k] \in {table[k], NoCaller}
  OBVIOUS
<1>1. ASSUME NEW i \in Callers, BootResolves(i) PROVE table'[k] = table[k]
  <2>1. instSt[i] = "booting"
    BY <1>1 DEF BootResolves
  <2>2. table[instKey[i]] = NoCaller
    BY <2>1 DEF IInv, BootAwaited
  <2>3. k # instKey[i]
    BY <2>2
  <2>4. table' = table \/ table' = [table EXCEPT ![instKey[i]] = i]
    BY <1>1 DEF BootResolves
  <2>5. QED
    BY <2>3, <2>4 DEF IInv, TypeOK
<1>2. CASE RecvShutdown
  <2>1. Head(msgs) \in Msgs
    BY <1>2, HeadTailType DEF RecvShutdown, Received, IInv, TypeOK
  <2>2. Head(msgs).key \in Keys
    BY <2>1, MsgFields
  <2>3. table' = table \/ table' = [table EXCEPT ![Head(msgs).key] = NoCaller]
    BY <1>2 DEF RecvShutdown
  <2>4. QED
    BY <2>2, <2>3 DEF IInv, TypeOK
<1>3. CASE ~(RecvShutdown \/ \E i \in Callers : BootResolves(i))
  <2>1. table' = table
    BY <1>3 DEF Next, vars, CallCreate, CallSend, CallShutdown, RecvCreate,
                RecvSend, Serve, FailDead, SupervisorEnds
  <2>2. QED
    BY <2>1
<1>4. QED
  BY <1>1, <1>2, <1>3

\* A worker in the pool's table is never orphaned, for every set of keys
\* and callers: an entry is only removed (by a Shutdown), never replaced by
\* another instance, because a boot resolves only while its key's slot is
\* empty (the loop awaits create_worker, and a Create of a key with an
\* entry boots nothing).
THEOREM EntryNeverOverwrittenHolds == Spec => EntryNeverOverwritten
<1>1. Spec => []IInv
  BY IInvInit, IInvStep, PTL DEF Spec
<1>2. IInv /\ [Next]_vars =>
        [\A k \in Keys : table[k] # NoCaller => table'[k] \in {table[k], NoCaller}]_vars
  BY EntryStep
<1>3. QED
  BY <1>1, <1>2, PTL DEF Spec, EntryNeverOverwritten

=============================================================================
