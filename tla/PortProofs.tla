----------------------------- MODULE PortProofs -----------------------------
(***************************************************************************)
(* The ring of a port is the queue PortFifo promises and nobody is         *)
(* stranded on it, for any number of tasks, any capacity, any size of wait *)
(* queue, and whether or not tasks are killed.                             *)
(***************************************************************************)
EXTENDS Port, IpcWaitProofs, SequenceTheorems

N == IpcPortCapacity
Places == 0..(N - 1)
Entries == Messages \cup {EmptySlot}

\* The n messages in a ring s from slot h on.
Ring(s, h, n) == [i \in 1..n |-> s[(h + i - 1) % N]]

\* The slot k places after slot h.
After(h, k) == IF h + k < N THEN h + k ELSE h + k - N

LEMMA Size == N \in Int /\ N >= 1
BY PortAssumption DEF N

LEMMA ModLow == ASSUME NEW x \in Int, 0 <= x, x < N PROVE x % N = x
BY Size

LEMMA ModHigh == ASSUME NEW x \in Int, N <= x, x < 2 * N PROVE x % N = x - N
BY Size

LEMMA ModIs ==
    ASSUME NEW h \in Places, NEW k \in 0..N
    PROVE  (h + k) % N = After(h, k) /\ After(h, k) \in Places
<1>1. h \in Int /\ 0 <= h /\ h < N BY Size DEF Places
<1>2. CASE h + k < N
  <2>1. (h + k) % N = h + k BY <1>1, <1>2, Size, ModLow
  <2>2. QED BY <1>1, <1>2, <2>1, Size DEF After, Places
<1>3. CASE ~(h + k < N)
  <2>1. (h + k) % N = h + k - N BY <1>1, <1>3, Size, ModHigh
  <2>2. QED BY <1>1, <1>3, <2>1, Size DEF After, Places
<1>4. QED BY <1>2, <1>3

LEMMA RingIs ==
    ASSUME NEW s \in [Places -> Entries], NEW h \in Places, NEW n \in 0..N
    PROVE  /\ Ring(s, h, n) \in Seq(Entries)
           /\ Len(Ring(s, h, n)) = n
           /\ \A i \in 1..n : Ring(s, h, n)[i] = s[After(h, i - 1)]
<1>1. n \in Nat BY Size
<1>2. h \in Int BY Size DEF Places
<1>3. \A i \in 1..n : (h + i - 1) % N = After(h, i - 1) /\ After(h, i - 1) \in Places
  <2> TAKE i \in 1..n
  <2>1. i - 1 \in 0..N /\ h + i - 1 = h + (i - 1) BY <1>1, <1>2, Size
  <2>2. QED BY <2>1, ModIs
<1>4. Ring(s, h, n) = [i \in 1..n |-> s[After(h, i - 1)]] BY <1>3 DEF Ring
<1>5. Ring(s, h, n) \in [1..n -> Entries] BY <1>3, <1>4
<1>6. Ring(s, h, n) \in Seq(Entries) /\ Len(Ring(s, h, n)) = n BY <1>1, <1>5
<1>7. QED BY <1>4, <1>6

\* PortPush with a free slot.
LEMMA RingPush ==
    ASSUME NEW s \in [Places -> Entries], NEW h \in Places, NEW n \in 0..N, n # N,
           NEW m \in Entries
    PROVE  Ring([s EXCEPT ![(h + n) % N] = m], h, n + 1) = Append(Ring(s, h, n), m)
<1> DEFINE k == After(h, n)
           d == [s EXCEPT ![k] = m]
           q == Ring(s, h, n)
           r == Ring(d, h, n + 1)
<1>1. h \in Int /\ 0 <= h /\ h < N BY Size DEF Places
<1>2. n \in Nat /\ n + 1 \in 0..N BY Size
<1>3. (h + n) % N = k /\ k \in Places BY ModIs
<1>4. d \in [Places -> Entries] OBVIOUS
<1>5. q \in Seq(Entries) /\ Len(q) = n /\ \A i \in 1..n : q[i] = s[After(h, i - 1)]
  BY RingIs
<1>6. /\ r \in Seq(Entries) /\ Len(r) = n + 1
      /\ \A i \in 1..(n + 1) : r[i] = d[After(h, i - 1)]
  BY <1>2, <1>4, RingIs
<1>7. \A i \in 1..n : After(h, i - 1) \in Places /\ After(h, i - 1) # k
  BY <1>1, <1>2, Size DEF After, Places
<1>8. After(h, (n + 1) - 1) = k BY <1>2
<1>9. \A j \in Places : d[j] = IF j = k THEN m ELSE s[j] OBVIOUS
<1> HIDE DEF k, d, q, r
<1>10. /\ Append(q, m) \in Seq(Entries) /\ Len(Append(q, m)) = n + 1
       /\ \A i \in 1..n : Append(q, m)[i] = q[i]
       /\ Append(q, m)[n + 1] = m
  BY <1>5, AppendProperties
<1>11. \A i \in 1..n : r[i] = Append(q, m)[i]
  <2> TAKE i \in 1..n
  <2>1. i \in 1..(n + 1) BY <1>2
  <2>2. r[i] = d[After(h, i - 1)] BY <1>6, <2>1
  <2>3. QED BY <1>5, <1>7, <1>9, <1>10, <2>2
<1>12. r[n + 1] = m
  <2>1. n + 1 \in 1..(n + 1) BY <1>2
  <2>2. r[n + 1] = d[k] BY <1>6, <1>8, <2>1
  <2>3. QED BY <1>3, <1>9, <2>2
<1>13. \A i \in 1..Len(r) : r[i] = Append(q, m)[i]
  <2>1. \A i \in 1..(n + 1) : i \in 1..n \/ i = n + 1 BY <1>2
  <2>2. \A i \in 1..(n + 1) : r[i] = Append(q, m)[i] BY <1>10, <1>11, <1>12, <2>1, Zenon
  <2>3. Len(r) = n + 1 BY <1>6
  <2>4. QED BY <2>2, <2>3, Zenon
<1>14. r = Append(q, m) BY <1>6, <1>10, <1>13, SeqEqual
<1>15. QED BY <1>3, <1>14 DEF d, q, r

\* PortPop of a port with a message.
LEMMA RingPop ==
    ASSUME NEW s \in [Places -> Entries], NEW h \in Places, NEW n \in 0..N, n # 0
    PROVE  /\ Ring(s, h, n) # <<>>
           /\ Head(Ring(s, h, n)) = s[h]
           /\ (h + 1) % N \in Places
           /\ Ring(s, (h + 1) % N, n - 1) = Tail(Ring(s, h, n))
<1> DEFINE k == After(h, 1)
           q == Ring(s, h, n)
           r == Ring(s, k, n - 1)
<1>1. h \in Int /\ 0 <= h /\ h < N BY Size DEF Places
<1>2. n \in Nat /\ n - 1 \in 0..N /\ 1 \in 0..N BY Size
<1>3. (h + 1) % N = k /\ k \in Places BY <1>2, ModIs
<1>4. q \in Seq(Entries) /\ Len(q) = n /\ \A i \in 1..n : q[i] = s[After(h, i - 1)]
  BY RingIs
<1>5. /\ r \in Seq(Entries) /\ Len(r) = n - 1
      /\ \A i \in 1..(n - 1) : r[i] = s[After(k, i - 1)]
  BY <1>2, <1>3, RingIs
<1>6. \A i \in 1..(n - 1) : After(k, i - 1) = After(h, (i + 1) - 1)
  BY <1>1, <1>2, Size DEF After
<1>7. After(h, 1 - 1) = h BY <1>1 DEF After
<1> HIDE DEF k, q, r
<1>8. q # <<>> BY <1>2, <1>4
<1>9. Head(q) = s[h]
  <2>1. 1 \in 1..n BY <1>2
  <2>2. q[1] = s[h] BY <1>4, <1>7, <2>1
  <2>3. QED BY <1>4, <1>8, <2>2
<1>10. /\ Tail(q) \in Seq(Entries) /\ Len(Tail(q)) = n - 1
       /\ \A i \in 1..(n - 1) : Tail(q)[i] = q[i + 1]
  BY <1>4, <1>8, HeadTailProperties
<1>11. \A i \in 1..(n - 1) : r[i] = Tail(q)[i]
  <2> TAKE i \in 1..(n - 1)
  <2>1. i + 1 \in 1..n BY <1>2
  <2>2. q[i + 1] = s[After(h, (i + 1) - 1)] BY <1>4, <2>1
  <2>3. QED BY <1>5, <1>6, <1>10, <2>2
<1>12. r = Tail(q) BY <1>5, <1>10, <1>11, SeqEqual
<1>13. QED BY <1>3, <1>8, <1>9, <1>12 DEF k, q, r

-----------------------------------------------------------------------------

\* A task awake inside a call is on a created port, which a quiet destroy keeps.  It
\* stays so, because a task that is woken was asleep in IpcPark and the task that wakes
\* it is inside a call itself.
Tested ==
    \A t \in Callers :
        /\ State[t] = "TaskBlocked" => pc[t] \in {"parkedSend", "parkedReceive"}
        /\ State[t] = "TaskReady" /\ pc[t] # "out" => Created

\* The inductive invariant.
IInv == TypeOK /\ Tested

LEMMA InitIInv == ASSUME Init PROVE IInv
<1> USE DEF Init, TaskInit
<1>1. 0 \in 0..(IpcPortCapacity - 1) /\ 0 \in 0..IpcPortCapacity BY PortAssumption
<1>2. /\ State \in [Callers -> TaskStates]
      /\ pc \in [Callers -> Points]
      /\ wake \in [Callers -> Callers]
  BY DEF TaskStates, Points, Callers
<1>3. Slots \in [0..(IpcPortCapacity - 1) -> Messages \cup {EmptySlot}] OBVIOUS
<1>4. /\ Senders \in Seq(Tasks) /\ Len(Senders) <= IpcMaxWaiters
      /\ Receivers \in Seq(Tasks) /\ Len(Receivers) <= IpcMaxWaiters
  BY WaitAssumption
<1>5. TypeOK BY <1>1, <1>2, <1>3, <1>4 DEF TypeOK
<1>6. Tested BY DEF Tested
<1>7. QED BY <1>5, <1>6 DEF IInv

\* What the steps do to the ring, as steps of PortFifo.
LEMMA RingUnchanged ==
    ASSUME UNCHANGED <<Created, head, Count, Slots, out>>
    PROVE  [Fifo!Next]_<<Created, Queued, out>>
BY DEF Queued

LEMMA EmptyIs ==
    ASSUME NEW s, NEW h
    PROVE  Ring(s, h, 0) = <<>>
<1>1. 1..0 = {} OBVIOUS
<1>2. QED BY <1>1 DEF Ring

LEMMA QueuedIs == Queued = Ring(Slots, head, Count) /\ Queued' = Ring(Slots', head', Count')
BY DEF Queued, Ring, N

LEMMA CreateStep ==
    ASSUME IInv, NEW t \in Callers, IpcPortCreate(t)
    PROVE  IInv' /\ [Fifo!Next]_<<Created, Queued, out>>
<1>1. /\ Created' = TRUE /\ ~Created /\ head' = 0 /\ Count' = 0
      /\ Senders' = <<>> /\ Receivers' = <<>>
      /\ Slots' = [i \in 0..(IpcPortCapacity - 1) |-> EmptySlot]
      /\ UNCHANGED <<State, pc, wake, out>>
  BY DEF IpcPortCreate, PortReset, taskVars
<1>2. Queued' = <<>> BY <1>1, EmptyIs, QueuedIs
<1>3. Fifo!Open BY <1>1, <1>2 DEF Fifo!Open
<1>4. TypeOK' BY <1>1, PortAssumption, WaitAssumption DEF IInv, TypeOK
<1>5. Tested' BY <1>1 DEF IInv, Tested
<1>6. QED BY <1>3, <1>4, <1>5 DEF IInv, Fifo!Next

LEMMA DestroyStep ==
    ASSUME QuietDestroy, IInv, NEW t \in Callers, IpcPortDestroy(t)
    PROVE  IInv' /\ [Fifo!Next]_<<Created, Queued, out>>
<1>1. /\ State[t] = "TaskReady" /\ pc[t] = "IpcPortDestroy"
      /\ \A u \in Callers \ {t} : pc[u] = "out" \/ State[u] # "TaskReady"
      /\ pc' = [pc EXCEPT ![t] = "out"]
      /\ UNCHANGED <<State, wake, out>>
  BY DEF IpcPortDestroy, Quiet, At, Goto
<1>2. Created BY <1>1 DEF IInv, Tested
<1>3. pc' \in [Callers -> Points] BY <1>1 DEF IInv, TypeOK, Points
<1>4. CASE Senders = <<>> /\ Receivers = <<>>
  <2>1. /\ Created' = FALSE /\ head' = 0 /\ Count' = 0
        /\ Senders' = <<>> /\ Receivers' = <<>>
        /\ Slots' = [i \in 0..(IpcPortCapacity - 1) |-> EmptySlot]
    BY <1>4 DEF IpcPortDestroy, PortReset
  <2>2. Queued' = <<>> BY <2>1, EmptyIs, QueuedIs
  <2>3. Fifo!Close BY <1>1, <1>2, <2>1, <2>2 DEF Fifo!Close
  <2>4. TypeOK'
    <3>1. head' \in 0..(IpcPortCapacity - 1) /\ Count' \in 0..IpcPortCapacity
      BY <2>1, PortAssumption
    <3>2. /\ Senders' \in Seq(Tasks) /\ Len(Senders') <= IpcMaxWaiters
          /\ Receivers' \in Seq(Tasks) /\ Len(Receivers') <= IpcMaxWaiters
      BY <2>1, WaitAssumption
    <3>3. Slots' \in [0..(IpcPortCapacity - 1) -> Messages \cup {EmptySlot}] BY <2>1
    <3>4. QED BY <1>1, <1>3, <2>1, <3>1, <3>2, <3>3 DEF IInv, TypeOK
  <2>5. Tested' BY <1>1, <2>1 DEF IInv, TypeOK, Tested
  <2>6. QED BY <2>3, <2>4, <2>5 DEF IInv, Fifo!Next
<1>5. CASE ~(Senders = <<>> /\ Receivers = <<>>)
  <2>1. UNCHANGED <<Created, head, Count, Slots, Senders, Receivers>>
    BY <1>5 DEF IpcPortDestroy
  <2>2. TypeOK' BY <1>1, <1>3, <2>1 DEF IInv, TypeOK
  <2>3. Tested' BY <1>1, <2>1 DEF IInv, TypeOK, Tested
  <2>4. QED BY <1>1, <2>1, <2>2, <2>3, RingUnchanged DEF IInv
<1>6. QED BY <1>4, <1>5

LEMMA SendStep ==
    ASSUME IInv, NEW t \in Callers, NEW d \in Data, IpcTrySend(t, d)
    PROVE  IInv' /\ [Fifo!Next]_<<Created, Queued, out>>
<1> DEFINE m == [Sender |-> t, Data |-> d]
<1>1. /\ State[t] = "TaskReady" /\ pc[t] = "IpcTrySend" /\ Count # N
      /\ Slots' = [Slots EXCEPT ![(head + Count) % N] = m]
      /\ Count' = Count + 1
      /\ pc' = [pc EXCEPT ![t] = "WakeReceiver"]
      /\ UNCHANGED <<State, wake, Created, head, Senders, Receivers, out>>
  BY DEF IpcTrySend, PortPush, At, Goto, N
<1>2. /\ Slots \in [Places -> Entries] /\ head \in Places /\ Count \in 0..N
      /\ m \in Messages /\ m \in Entries
  BY DEF IInv, TypeOK, Places, Entries, N, Messages
<1> HIDE DEF m
<1>3. Queued' = Append(Queued, m) BY <1>1, <1>2, QueuedIs, RingPush
<1>4. Len(Queued) = Count BY <1>2, QueuedIs, RingIs
<1>5. Created BY <1>1 DEF IInv, Tested
<1>6. Count < N BY <1>1, <1>2, Size
<1>7. Fifo!Send(t, d) BY <1>1, <1>3, <1>4, <1>5, <1>6 DEF Fifo!Send, m, N
<1>8. Slots' \in [0..(IpcPortCapacity - 1) -> Messages \cup {EmptySlot}]
  BY <1>1, <1>2 DEF Places, Entries, N
<1>9. Count' \in 0..IpcPortCapacity BY <1>1, <1>2, <1>6, Size DEF N
<1>10. pc' \in [Callers -> Points] BY <1>1 DEF IInv, TypeOK, Points
<1>11. TypeOK' BY <1>1, <1>8, <1>9, <1>10 DEF IInv, TypeOK
<1>12. Tested' BY <1>1 DEF IInv, TypeOK, Tested
<1>13. QED BY <1>7, <1>11, <1>12 DEF IInv, Fifo!Next

LEMMA ReceiveStep ==
    ASSUME IInv, NEW t \in Callers, IpcTryReceive(t)
    PROVE  IInv' /\ [Fifo!Next]_<<Created, Queued, out>>
<1>1. /\ State[t] = "TaskReady" /\ pc[t] = "IpcTryReceive" /\ Count # 0
      /\ out' = Slots[head]
      /\ head' = (head + 1) % N
      /\ Count' = Count - 1
      /\ pc' = [pc EXCEPT ![t] = "WakeSender"]
      /\ UNCHANGED <<State, wake, Created, Slots, Senders, Receivers>>
  BY DEF IpcTryReceive, PortPop, At, Goto, N
<1>2. Slots \in [Places -> Entries] /\ head \in Places /\ Count \in 0..N
  BY DEF IInv, TypeOK, Places, Entries, N
<1>3. /\ Queued # <<>> /\ Head(Queued) = Slots[head]
      /\ (head + 1) % N \in Places
      /\ Queued' = Tail(Queued)
  BY <1>1, <1>2, QueuedIs, RingPop
<1>4. Created BY <1>1 DEF IInv, Tested
<1>5. Fifo!Receive BY <1>1, <1>3, <1>4 DEF Fifo!Receive
<1>6. Count' \in 0..IpcPortCapacity BY <1>1, <1>2, Size DEF N
<1>7. out' \in Messages \cup {EmptySlot} BY <1>1, <1>2 DEF Entries
<1>8. pc' \in [Callers -> Points] BY <1>1 DEF IInv, TypeOK, Points
<1>9. head' \in 0..(IpcPortCapacity - 1) BY <1>1, <1>3 DEF Places, N
<1>10. TypeOK' BY <1>1, <1>6, <1>7, <1>8, <1>9 DEF IInv, TypeOK
<1>11. Tested' BY <1>1 DEF IInv, TypeOK, Tested
<1>12. QED BY <1>5, <1>10, <1>11 DEF IInv, Fifo!Next

\* The steps that leave the ring alone, one by one.
LEMMA CheckStep ==
    ASSUME IInv, NEW t \in Callers,
           DestroyCheck(t) \/ SendCheck(t) \/ SendFull(t) \/ ReceiveCheck(t) \/ ReceiveEmpty(t)
    PROVE  IInv' /\ UNCHANGED ringVars
<1>1. /\ UNCHANGED <<State, wake, portVars>> /\ State[t] = "TaskReady"
      /\ \/ /\ Created
            /\ \E l \in {"IpcPortDestroy", "IpcTrySend", "IpcTryReceive"} :
                  pc' = [pc EXCEPT ![t] = l]
         \/ /\ pc[t] # "out"
            /\ \E l \in {"ParkSend", "ParkReceive"} : pc' = [pc EXCEPT ![t] = l]
         \/ pc' = [pc EXCEPT ![t] = "out"]
  BY DEF DestroyCheck, SendCheck, SendFull, ReceiveCheck, ReceiveEmpty, At, Goto
<1>2. TypeOK' BY <1>1 DEF IInv, TypeOK, Points, portVars
<1>3. Tested' BY <1>1 DEF IInv, TypeOK, Tested, portVars
<1>4. QED BY <1>1, <1>2, <1>3 DEF IInv, portVars, ringVars

LEMMA ParkStep ==
    ASSUME IInv, NEW t \in Callers,
           ParkReturns(t) \/ SendSleeps(t) \/ ReceiveSleeps(t) \/ SendWakes(t) \/ ReceiveWakes(t)
    PROVE  IInv' /\ UNCHANGED ringVars
<1> USE DEF IInv
<1>0. IpcMaxWaiters \in Nat BY WaitAssumption
<1>1. CASE ParkReturns(t)
  <2>1. /\ UNCHANGED <<State, wake, portVars>> /\ State[t] = "TaskReady" /\ pc[t] # "out"
        /\ \E l \in {"out", "IpcSend", "IpcReceive"} : pc' = [pc EXCEPT ![t] = l]
    BY <1>1 DEF ParkReturns, IpcParkReturns, At, Goto
  <2>2. TypeOK' BY <2>1 DEF TypeOK, Points, portVars
  <2>3. Tested' BY <2>1 DEF TypeOK, Tested, portVars
  <2>4. QED BY <2>1, <2>2, <2>3 DEF portVars, ringVars
<1>2. CASE SendSleeps(t)
  <2>1. /\ t \in Tasks /\ Len(Senders) < IpcMaxWaiters /\ Senders' = IpcWaitAdd(Senders, t)
        /\ State' = [State EXCEPT ![t] = "TaskBlocked"]
        /\ pc' = [pc EXCEPT ![t] = "parkedSend"]
        /\ UNCHANGED <<wake, Created, head, Count, Slots, out, Receivers>>
    BY <1>2 DEF SendSleeps, IpcParkSleeps, IpcWaitHasRoom, Callers, Goto, ringVars
  <2>2. Senders' \in Seq(Tasks) /\ Len(Senders') <= Len(Senders) + 1
    BY <2>1, AddType DEF TypeOK
  <2>3. Len(Senders') <= IpcMaxWaiters BY <1>0, <2>1, <2>2 DEF TypeOK
  <2>4. TypeOK' BY <2>1, <2>2, <2>3 DEF TypeOK, Points, TaskStates
  <2>5. Tested' BY <2>1 DEF TypeOK, Tested
  <2>6. QED BY <2>1, <2>4, <2>5 DEF ringVars
<1>3. CASE ReceiveSleeps(t)
  <2>1. /\ t \in Tasks /\ Len(Receivers) < IpcMaxWaiters /\ Receivers' = IpcWaitAdd(Receivers, t)
        /\ State' = [State EXCEPT ![t] = "TaskBlocked"]
        /\ pc' = [pc EXCEPT ![t] = "parkedReceive"]
        /\ UNCHANGED <<wake, Created, head, Count, Slots, out, Senders>>
    BY <1>3 DEF ReceiveSleeps, IpcParkSleeps, IpcWaitHasRoom, Callers, Goto, ringVars
  <2>2. Receivers' \in Seq(Tasks) /\ Len(Receivers') <= Len(Receivers) + 1
    BY <2>1, AddType DEF TypeOK
  <2>3. Len(Receivers') <= IpcMaxWaiters BY <1>0, <2>1, <2>2 DEF TypeOK
  <2>4. TypeOK' BY <2>1, <2>2, <2>3 DEF TypeOK, Points, TaskStates
  <2>5. Tested' BY <2>1 DEF TypeOK, Tested
  <2>6. QED BY <2>1, <2>4, <2>5 DEF ringVars
<1>4. CASE SendWakes(t)
  <2>1. /\ Senders' = IpcWaitRemove(Senders, t)
        /\ State[t] = "TaskReady" /\ pc[t] # "out"
        /\ pc' = [pc EXCEPT ![t] = "ParkSend"]
        /\ UNCHANGED <<State, wake, Created, head, Count, Slots, out, Receivers>>
    BY <1>4 DEF SendWakes, IpcParkWakes, At, Goto, ringVars
  <2>2. Senders' \in Seq(Tasks) /\ Len(Senders') <= Len(Senders)
    BY <2>1, RemoveType DEF TypeOK
  <2>3. Len(Senders') <= IpcMaxWaiters BY <1>0, <2>2 DEF TypeOK
  <2>4. TypeOK' BY <2>1, <2>2, <2>3 DEF TypeOK, Points
  <2>5. Tested' BY <2>1 DEF TypeOK, Tested
  <2>6. QED BY <2>1, <2>4, <2>5 DEF ringVars
<1>5. CASE ReceiveWakes(t)
  <2>1. /\ Receivers' = IpcWaitRemove(Receivers, t)
        /\ State[t] = "TaskReady" /\ pc[t] # "out"
        /\ pc' = [pc EXCEPT ![t] = "ParkReceive"]
        /\ UNCHANGED <<State, wake, Created, head, Count, Slots, out, Senders>>
    BY <1>5 DEF ReceiveWakes, IpcParkWakes, At, Goto, ringVars
  <2>2. Receivers' \in Seq(Tasks) /\ Len(Receivers') <= Len(Receivers)
    BY <2>1, RemoveType DEF TypeOK
  <2>3. Len(Receivers') <= IpcMaxWaiters BY <1>0, <2>2 DEF TypeOK
  <2>4. TypeOK' BY <2>1, <2>2, <2>3 DEF TypeOK, Points
  <2>5. Tested' BY <2>1 DEF TypeOK, Tested
  <2>6. QED BY <2>1, <2>4, <2>5 DEF ringVars
<1>6. QED BY <1>1, <1>2, <1>3, <1>4, <1>5

LEMMA WakeStep ==
    ASSUME IInv, NEW t \in Callers, WakeReceiver(t) \/ WakeSender(t) \/ Wakes(t)
    PROVE  IInv' /\ UNCHANGED ringVars
<1> USE DEF IInv
<1>0. IpcMaxWaiters \in Nat /\ Idle \in Callers BY WaitAssumption DEF Callers
<1>1. CASE WakeReceiver(t)
  <2>1. /\ Receivers' = TakeLiveRest(Receivers)
        /\ wake' = [wake EXCEPT ![t] = TakeLiveId(Receivers)]
        /\ \E l \in {"out", "SchedWakeTask"} : pc' = [pc EXCEPT ![t] = l]
        /\ State[t] = "TaskReady" /\ pc[t] # "out"
        /\ UNCHANGED <<State, Created, head, Count, Slots, out, Senders>>
    BY <1>1 DEF WakeReceiver, TakeLive, At, Goto, ringVars
  <2>2. /\ Receivers' \in Seq(Tasks) /\ Len(Receivers') <= Len(Receivers)
        /\ TakeLiveId(Receivers) \in Callers
    BY <2>1, TakeType DEF TypeOK
  <2>3. Len(Receivers') <= IpcMaxWaiters BY <1>0, <2>2 DEF TypeOK
  <2>4. TypeOK' BY <2>1, <2>2, <2>3 DEF TypeOK, Points
  <2>5. Tested' BY <2>1 DEF TypeOK, Tested
  <2>6. QED BY <2>1, <2>4, <2>5 DEF ringVars
<1>2. CASE WakeSender(t)
  <2>1. /\ Senders' = TakeLiveRest(Senders)
        /\ wake' = [wake EXCEPT ![t] = TakeLiveId(Senders)]
        /\ \E l \in {"out", "SchedWakeTask"} : pc' = [pc EXCEPT ![t] = l]
        /\ State[t] = "TaskReady" /\ pc[t] # "out"
        /\ UNCHANGED <<State, Created, head, Count, Slots, out, Receivers>>
    BY <1>2 DEF WakeSender, TakeLive, At, Goto, ringVars
  <2>2. /\ Senders' \in Seq(Tasks) /\ Len(Senders') <= Len(Senders)
        /\ TakeLiveId(Senders) \in Callers
    BY <2>1, TakeType DEF TypeOK
  <2>3. Len(Senders') <= IpcMaxWaiters BY <1>0, <2>2 DEF TypeOK
  <2>4. TypeOK' BY <2>1, <2>2, <2>3 DEF TypeOK, Points
  <2>5. Tested' BY <2>1 DEF TypeOK, Tested
  <2>6. QED BY <2>1, <2>4, <2>5 DEF ringVars
<1>3. CASE Wakes(t)
  <2>1. UNCHANGED portVars BY <1>3 DEF Wakes
  <2>2. CASE SchedWakeTask(t)
    <3>1. /\ \E l \in {"out", "SchedUnblock"} : pc' = [pc EXCEPT ![t] = l]
          /\ \E u \in {wake[t], Idle} : wake' = [wake EXCEPT ![t] = u]
          /\ State[t] = "TaskReady" /\ pc[t] # "out" /\ UNCHANGED State
      BY <2>2 DEF SchedWakeTask, At, Goto
    <3>2. TypeOK' BY <1>0, <2>1, <3>1 DEF TypeOK, Points, portVars
    <3>3. Tested' BY <2>1, <3>1 DEF TypeOK, Tested, portVars
    <3>4. QED BY <2>1, <3>2, <3>3 DEF portVars, ringVars
  <2>3. CASE SchedUnblock(t)
    <3>1. /\ pc' = [pc EXCEPT ![t] = "out"]
          /\ wake' = [wake EXCEPT ![t] = Idle]
          /\ State' = [State EXCEPT ![wake[t]] =
                          IF State[wake[t]] \in {"TaskReady", "TaskBlocked"}
                          THEN "TaskReady" ELSE "TaskWild"]
          /\ State[t] = "TaskReady" /\ pc[t] # "out" /\ wake[t] \in Callers
      BY <2>3 DEF SchedUnblock, At, Goto, IpcWaitIsLive, TypeOK
    <3>2. TypeOK' BY <1>0, <2>1, <3>1 DEF TypeOK, Points, portVars, TaskStates
    <3>3. Tested' BY <2>1, <3>1 DEF TypeOK, Tested, portVars
    <3>4. QED BY <2>1, <3>2, <3>3 DEF portVars, ringVars
  <2>4. QED BY <1>3, <2>2, <2>3 DEF Wakes
<1>4. QED BY <1>1, <1>2, <1>3

LEMMA KillStep ==
    ASSUME IInv, NEW t \in Tasks, Killed(t)
    PROVE  IInv' /\ UNCHANGED ringVars
<1>1. /\ State' = [State EXCEPT ![t] = "TaskDead"] /\ t \in Callers
      /\ UNCHANGED <<pc, wake, portVars>>
  BY DEF Killed, SchedKill, Callers
<1>2. TypeOK' BY <1>1 DEF IInv, TypeOK, TaskStates, portVars
<1>3. Tested' BY <1>1 DEF IInv, TypeOK, Tested, portVars
<1>4. QED BY <1>1, <1>2, <1>3 DEF IInv, portVars, ringVars

LEMMA NextIInv ==
    ASSUME QuietDestroy, IInv, [Next]_vars
    PROVE  IInv' /\ [Fifo!Next]_<<Created, Queued, out>>
<1>1. ASSUME UNCHANGED ringVars PROVE [Fifo!Next]_<<Created, Queued, out>>
  BY <1>1, RingUnchanged DEF ringVars
<1>2. ASSUME NEW t \in Callers, Step(t)
      PROVE  IInv' /\ [Fifo!Next]_<<Created, Queued, out>>
  <2>1. CASE IpcPortCreate(t) BY <2>1, CreateStep
  <2>2. CASE IpcPortDestroy(t) BY <2>2, DestroyStep
  <2>3. CASE \E d \in Data : IpcTrySend(t, d) BY <2>3, SendStep
  <2>4. CASE IpcTryReceive(t) BY <2>4, ReceiveStep
  <2>5. CASE DestroyCheck(t) \/ SendCheck(t) \/ SendFull(t) \/ ReceiveCheck(t) \/ ReceiveEmpty(t)
    BY <1>1, <2>5, CheckStep
  <2>6. CASE ParkReturns(t) \/ SendSleeps(t) \/ ReceiveSleeps(t) \/ SendWakes(t) \/ ReceiveWakes(t)
    BY <1>1, <2>6, ParkStep
  <2>7. CASE WakeReceiver(t) \/ WakeSender(t) \/ Wakes(t) BY <1>1, <2>7, WakeStep
  <2>8. QED BY <1>2, <2>1, <2>2, <2>3, <2>4, <2>5, <2>6, <2>7 DEF Step
<1>3. ASSUME NEW t \in Tasks, Killed(t)
      PROVE  IInv' /\ [Fifo!Next]_<<Created, Queued, out>>
  BY <1>1, <1>3, KillStep
<1>4. CASE UNCHANGED vars
  <2>1. UNCHANGED <<State, pc, wake, portVars>> BY <1>4 DEF vars, taskVars
  <2>2. TypeOK' BY <2>1 DEF IInv, TypeOK, portVars
  <2>3. Tested' BY <2>1 DEF IInv, Tested, portVars
  <2>4. QED BY <1>1, <2>1, <2>2, <2>3 DEF IInv, portVars, ringVars
<1>5. QED BY <1>2, <1>3, <1>4 DEF Next

\* As long as the owner destroys the port only while nobody else is awake inside a
\* call on it, messages come out of IpcReceive in the order IpcSend put them in, with
\* their senders' ids, none lost, repeated or overwritten.  Without the assumption a
\* send that tested Magic before the destroy writes into the destroyed port.
THEOREM PortIsFifo == ASSUME QuietDestroy PROVE Spec => IsFifo
<1>1. Init => IInv BY InitIInv
<1>2. Init => Fifo!Init
  <2> SUFFICES ASSUME Init PROVE Fifo!Init OBVIOUS
  <2>1. Created = FALSE /\ Count = 0 /\ out = <<>> BY DEF Init, EmptySlot
  <2>2. Queued = <<>> BY <2>1, EmptyIs, QueuedIs
  <2>3. QED BY <2>1, <2>2 DEF Fifo!Init
<1>3. IInv /\ [Next]_vars => IInv' /\ [Fifo!Next]_<<Created, Queued, out>> BY NextIInv
<1>4. QED BY <1>1, <1>2, <1>3, PTL DEF Spec, IsFifo, Fifo!Spec, Fifo!vars

\* Under the same assumption the indices of the ring stay in range and the wait queues
\* fit their arrays.
THEOREM PortTypes == ASSUME QuietDestroy PROVE Spec => []TypeOK
<1>1. Init => IInv BY InitIInv
<1>2. IInv /\ [Next]_vars => IInv' BY NextIInv
<1>3. IInv => TypeOK BY DEF IInv
<1>4. QED BY <1>1, <1>2, <1>3, PTL DEF Spec

-----------------------------------------------------------------------------
(* Nobody is stranded.                                                     *)

Queue == ToSet(Senders) \cup ToSet(Receivers)

LEMMA NoEntries == ToSet(<<>>) = {}
BY DEF ToSet

\* Steps of a task that is waking nobody, puts nobody to sleep, and leaves the sleepers
\* where they are.
LEMMA KeepsSleepers ==
    ASSUME TypeOK, NoneStranded, NEW t \in Callers,
           pc[t] \notin {"SchedWakeTask", "SchedUnblock"},
           \A w \in Callers \ {t} : pc'[w] = pc[w],
           UNCHANGED <<State, wake>>,
           \A u \in Tasks : State[u] = "TaskBlocked" /\ Created /\ u \in Queue
                              => Created' /\ u \in Queue'
    PROVE  NoneStranded'
<1> SUFFICES ASSUME NEW u \in Tasks, State[u] = "TaskBlocked"
             PROVE  \/ Created' /\ u \in Queue'
                    \/ \E w \in Callers : Waking(w, u)'
  BY DEF NoneStranded, Queue
<1>1. CASE Created /\ u \in Queue BY <1>1
<1>2. ASSUME NEW w \in Callers, Waking(w, u) PROVE \E v \in Callers : Waking(v, u)'
  <2>1. w # t BY <1>2 DEF Waking
  <2>2. Waking(w, u)' BY <1>2, <2>1 DEF Waking
  <2>3. QED BY <2>2
<1>3. QED BY <1>1, <1>2 DEF NoneStranded, Queue

LEMMA CallStrandsNobody ==
    ASSUME IInv, NoneStranded, NEW t \in Callers,
           \/ IpcPortCreate(t) \/ DestroyCheck(t) \/ IpcPortDestroy(t)
           \/ SendCheck(t) \/ SendFull(t) \/ \E d \in Data : IpcTrySend(t, d)
           \/ ReceiveCheck(t) \/ ReceiveEmpty(t) \/ IpcTryReceive(t) \/ ParkReturns(t)
    PROVE  NoneStranded'
<1>1. /\ pc[t] \notin {"SchedWakeTask", "SchedUnblock"}
      /\ pc' = pc \/ \E l \in Points : pc' = [pc EXCEPT ![t] = l]
      /\ UNCHANGED <<State, wake>>
  BY DEF IpcPortCreate, DestroyCheck, IpcPortDestroy, SendCheck, SendFull, IpcTrySend,
         ReceiveCheck, ReceiveEmpty, IpcTryReceive, ParkReturns, IpcParkReturns, At, Goto,
         taskVars, Points
<1>2. TypeOK BY DEF IInv
<1>3. \A w \in Callers \ {t} : pc'[w] = pc[w] BY <1>1, <1>2 DEF TypeOK
<1>4. \/ ~Created
      \/ Queue = {}
      \/ UNCHANGED <<Created, Senders, Receivers>>
  <2>1. CASE IpcPortDestroy(t) BY <2>1, NoEntries DEF IpcPortDestroy, Queue
  <2>2. CASE ~IpcPortDestroy(t)
    BY <2>2 DEF IpcPortCreate, DestroyCheck, SendCheck, SendFull, IpcTrySend,
         ReceiveCheck, ReceiveEmpty, IpcTryReceive, ParkReturns, portVars
  <2>3. QED BY <2>1, <2>2
<1>5. \A u \in Tasks : State[u] = "TaskBlocked" /\ Created /\ u \in Queue
                          => Created' /\ u \in Queue'
  BY <1>4 DEF Queue
<1>6. QED BY <1>1, <1>2, <1>3, <1>5, KeepsSleepers

\* Back from SchedBlock, a task takes nobody but itself off the queue.
LEMMA WokenStrandsNobody ==
    ASSUME IInv, NoneStranded, NEW t \in Callers, SendWakes(t) \/ ReceiveWakes(t)
    PROVE  NoneStranded'
<1>1. /\ pc[t] \notin {"SchedWakeTask", "SchedUnblock"} /\ State[t] = "TaskReady"
      /\ \E l \in Points : pc' = [pc EXCEPT ![t] = l]
      /\ UNCHANGED <<State, wake, Created>>
      /\ \/ Senders' = IpcWaitRemove(Senders, t) /\ Receivers' = Receivers
         \/ Receivers' = IpcWaitRemove(Receivers, t) /\ Senders' = Senders
  BY DEF SendWakes, ReceiveWakes, IpcParkWakes, At, Goto, ringVars, Points
<1>2. TypeOK BY DEF IInv
<1>3. \A w \in Callers \ {t} : pc'[w] = pc[w] BY <1>1, <1>2 DEF TypeOK
<1>4. /\ ToSet(Senders) \subseteq ToSet(IpcWaitRemove(Senders, t)) \cup {t}
      /\ ToSet(Receivers) \subseteq ToSet(IpcWaitRemove(Receivers, t)) \cup {t}
  BY <1>2, RemoveType DEF TypeOK
<1>5. Queue \subseteq Queue' \cup {t} BY <1>1, <1>4 DEF Queue
<1>6. \A u \in Tasks : State[u] = "TaskBlocked" /\ Created /\ u \in Queue
                          => Created' /\ u \in Queue'
  BY <1>1, <1>5
<1>7. QED BY <1>1, <1>2, <1>3, <1>6, KeepsSleepers

\* A task goes to sleep on a created port, and on its queue.
LEMMA SleepStrandsNobody ==
    ASSUME IInv, NoneStranded, NEW t \in Callers, SendSleeps(t) \/ ReceiveSleeps(t)
    PROVE  NoneStranded'
<1>1. /\ State[t] = "TaskReady" /\ pc[t] \in {"ParkSend", "ParkReceive"} /\ t \in Tasks
      /\ State' = [State EXCEPT ![t] = "TaskBlocked"]
      /\ \E l \in Points : pc' = [pc EXCEPT ![t] = l]
      /\ UNCHANGED <<wake, Created>>
      /\ \/ Senders' = IpcWaitAdd(Senders, t) /\ Receivers' = Receivers
         \/ Receivers' = IpcWaitAdd(Receivers, t) /\ Senders' = Senders
  BY DEF SendSleeps, ReceiveSleeps, IpcParkSleeps, At, Goto, ringVars, Points, Callers
<1>2. TypeOK BY DEF IInv
<1>3. Created BY <1>1 DEF IInv, Tested
<1>4. /\ ToSet(IpcWaitAdd(Senders, t)) = ToSet(Senders) \cup {t}
      /\ ToSet(IpcWaitAdd(Receivers, t)) = ToSet(Receivers) \cup {t}
  BY <1>1, <1>2, AddType DEF TypeOK
<1>5. Queue' = Queue \cup {t} BY <1>1, <1>4 DEF Queue
<1> SUFFICES ASSUME NEW u \in Tasks, State'[u] = "TaskBlocked"
             PROVE  \/ Created' /\ u \in Queue'
                    \/ \E w \in Callers : Waking(w, u)'
  BY DEF NoneStranded, Queue
<1>6. CASE u = t \/ (Created /\ u \in Queue) BY <1>1, <1>3, <1>5, <1>6
<1>7. CASE u # t /\ ~(Created /\ u \in Queue)
  <2>1. State[u] = "TaskBlocked" BY <1>1, <1>2, <1>7 DEF TypeOK, Callers
  <2>2. PICK w \in Callers : Waking(w, u) BY <1>7, <2>1 DEF NoneStranded, Queue
  <2>3. w # t BY <1>1, <2>2 DEF Waking
  <2>4. Waking(w, u)' BY <1>1, <1>2, <2>2, <2>3 DEF Waking, TypeOK
  <2>5. QED BY <2>4
<1>8. QED BY <1>6, <1>7

\* IpcWakeOne takes one task off a queue and has it in hand; if it clears the queue
\* nobody on it was live.
LEMMA TakeStrandsNobody ==
    ASSUME IInv, NoneStranded, NEW t \in Callers, WakeReceiver(t) \/ WakeSender(t)
    PROVE  NoneStranded'
<1>1. TypeOK BY DEF IInv
<1>2. PICK q \in {Senders, Receivers} :
          /\ wake' = [wake EXCEPT ![t] = TakeLiveId(q)]
          /\ pc' = [pc EXCEPT ![t] = IF TakeLiveId(q) = Idle THEN "out" ELSE "SchedWakeTask"]
          /\ ToSet(q) \subseteq Queue
          /\ Queue \subseteq ToSet(q) \cup Queue'
          /\ ToSet(TakeLiveRest(q)) \subseteq Queue'
  BY DEF WakeReceiver, WakeSender, TakeLive, Goto, Queue
<1>3. /\ pc[t] \in {"WakeReceiver", "WakeSender"} /\ State[t] = "TaskReady"
      /\ UNCHANGED <<State, Created>>
  BY DEF WakeReceiver, WakeSender, TakeLive, At, ringVars
<1>4. q \in Seq(Tasks) BY <1>1 DEF TypeOK
<1> SUFFICES ASSUME NEW u \in Tasks, State[u] = "TaskBlocked"
             PROVE  \/ Created' /\ u \in Queue'
                    \/ \E w \in Callers : Waking(w, u)'
  BY <1>3 DEF NoneStranded, Queue
<1>5. ASSUME NEW w \in Callers, Waking(w, u) PROVE Waking(w, u)'
  BY <1>1, <1>2, <1>3, <1>5 DEF Waking, TypeOK
<1>6. CASE Created /\ u \in Queue
  <2>1. CASE u \notin ToSet(q) BY <1>2, <1>3, <1>6, <2>1
  <2>2. CASE u \in ToSet(q) /\ u # TakeLiveId(q)
    <3>1. LiveAt(q) # {}
      <4>1. PICK k \in 1..Len(q) : q[k] = u BY <1>4, <2>2 DEF ToSet
      <4>2. k \in LiveAt(q) BY <4>1 DEF LiveAt, IpcWaitIsLive
      <4>3. QED BY <4>2
    <3>2. TakeLiveRest(q) = IpcWaitRemove(q, TakeLiveId(q)) BY <3>1 DEF TakeLiveRest
    <3>3. ToSet(q) \subseteq ToSet(TakeLiveRest(q)) \cup {TakeLiveId(q)}
      BY <1>4, <3>2, RemoveType
    <3>4. QED BY <1>2, <1>3, <1>6, <2>2, <3>3
  <2>3. CASE u = TakeLiveId(q)
    <3>1. u # Idle BY WaitAssumption
    <3>2. Waking(t, u)' BY <1>1, <1>2, <2>3, <3>1 DEF Waking, TypeOK
    <3>3. QED BY <3>2
  <2>4. QED BY <2>1, <2>2, <2>3
<1>7. QED BY <1>5, <1>6 DEF NoneStranded, Queue

\* A waker lets go of a task only when it is not, or no longer, blocked.
LEMMA WakeStrandsNobody ==
    ASSUME IInv, NoneStranded, NEW t \in Callers, Wakes(t)
    PROVE  NoneStranded'
<1>1. TypeOK BY DEF IInv
<1>2. UNCHANGED <<Created, Senders, Receivers>> BY DEF Wakes, portVars
<1>3. CASE SchedWakeTask(t)
  <2>1. /\ UNCHANGED State
        /\ pc' = [pc EXCEPT ![t] = IF State[wake[t]] = "TaskBlocked" THEN "SchedUnblock" ELSE "out"]
        /\ wake' = [wake EXCEPT ![t] = IF State[wake[t]] = "TaskBlocked" THEN wake[t] ELSE Idle]
    BY <1>1, <1>3 DEF SchedWakeTask, Goto, TypeOK
  <2>2. ASSUME NEW u \in Tasks, State[u] = "TaskBlocked", NEW w \in Callers, Waking(w, u)
        PROVE  Waking(w, u)'
    BY <1>1, <2>1, <2>2 DEF Waking, TypeOK
  <2>3. QED BY <1>2, <2>1, <2>2 DEF NoneStranded
<1>4. CASE SchedUnblock(t)
  <2>1. /\ pc' = [pc EXCEPT ![t] = "out"]
        /\ wake' = [wake EXCEPT ![t] = Idle]
        /\ State'[wake[t]] # "TaskBlocked"
        /\ \A u \in Callers : u # wake[t] => State'[u] = State[u]
    BY <1>1, <1>4 DEF SchedUnblock, Goto, TypeOK
  <2>2. ASSUME NEW u \in Tasks, State'[u] = "TaskBlocked", NEW w \in Callers, Waking(w, u)
        PROVE  Waking(w, u)'
    BY <1>1, <2>1, <2>2 DEF Waking, TypeOK
  <2>3. \A u \in Tasks : State'[u] = "TaskBlocked" => State[u] = "TaskBlocked"
    BY <2>1 DEF Callers
  <2>4. QED BY <1>2, <2>2, <2>3 DEF NoneStranded
<1>5. QED BY <1>3, <1>4 DEF Wakes

LEMMA NextStranded == ASSUME IInv, NoneStranded, [Next]_vars PROVE NoneStranded'
<1>1. ASSUME NEW t \in Callers, Step(t) PROVE NoneStranded'
  BY <1>1, CallStrandsNobody, WokenStrandsNobody, SleepStrandsNobody, TakeStrandsNobody,
     WakeStrandsNobody DEF Step
<1>2. ASSUME NEW t \in Tasks, Killed(t) PROVE NoneStranded'
  <2>1. UNCHANGED <<pc, wake, Created, Senders, Receivers>>
    BY <1>2 DEF Killed, SchedKill, portVars
  <2>2. \A u \in Tasks : State'[u] = "TaskBlocked" => State[u] = "TaskBlocked"
    BY <1>2 DEF Killed, SchedKill, IInv, TypeOK, Callers
  <2>3. QED BY <2>1, <2>2 DEF NoneStranded, Waking
<1>3. CASE UNCHANGED vars
  BY <1>3 DEF vars, taskVars, portVars, NoneStranded, Waking
<1>4. QED BY <1>1, <1>2, <1>3 DEF Next

\* IpcPortDestroy and the wakeups strand nobody: as long as the owner destroys the port
\* only while nobody else is awake inside a call on it, a task asleep in IpcSend or
\* IpcReceive is queued on a created port, or a task has taken it off to wake it.
THEOREM PortStrandsNobody == ASSUME QuietDestroy PROVE Spec => []NoneStranded
<1>1. Init => IInv BY InitIInv
<1>2. Init => NoneStranded BY DEF Init, TaskInit, NoneStranded, Callers
<1>3. IInv /\ [Next]_vars => IInv' BY NextIInv
<1>4. IInv /\ NoneStranded /\ [Next]_vars => NoneStranded' BY NextStranded
<1>5. QED BY <1>1, <1>2, <1>3, <1>4, PTL DEF Spec

=============================================================================
