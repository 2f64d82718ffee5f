---------------------------- MODULE ShellProofs -----------------------------
(***************************************************************************)
(* The keyboard ring, read by the shell, is the queue KeyQueue promises,   *)
(* for any size of the ring.                                               *)
(***************************************************************************)
EXTENDS Shell, SequenceTheorems, TLAPS

B == BufSize
Entries == Codes \cup {NoCode}

\* The codes in a ring b from slot t up to slot h, and their number.
Used(t, h) == IF t <= h THEN h - t ELSE h - t + B
Ring(b, t, h) == [i \in 1..((h - t) % B) |-> b[(t + i - 1) % B]]

LEMMA Size == B \in Int /\ B > 1 /\ B <= 256
BY KeyboardAssumption DEF B

LEMMA ModLow == ASSUME NEW x \in Int, 0 <= x, x < B PROVE x % B = x
BY Size

LEMMA ModHigh == ASSUME NEW x \in Int, B <= x, x < 2 * B PROVE x % B = x - B
BY Size

LEMMA ModNegative == ASSUME NEW x \in Int, 0 - B < x, x < 0 PROVE x % B = x + B
BY Size

\* The slot after slot i.
LEMMA NextSlot ==
    ASSUME NEW i \in Slots
    PROVE  (i + 1) % B = IF i + 1 = B THEN 0 ELSE i + 1
<1>1. i \in Int /\ 0 <= i /\ i < B BY Size DEF Slots, B
<1>2. CASE i + 1 = B BY <1>1, <1>2, Size, ModHigh
<1>3. CASE i + 1 # B BY <1>1, <1>3, Size, ModLow
<1>4. QED BY <1>2, <1>3

\* The slot of the i-th code.
LEMMA SlotOf ==
    ASSUME NEW t \in Slots, NEW i \in 1..B
    PROVE  (t + i - 1) % B = IF t + i - 1 < B THEN t + i - 1 ELSE t + i - 1 - B
<1>1. t \in Int /\ 0 <= t /\ t < B BY Size DEF Slots, B
<1>2. CASE t + i - 1 < B BY <1>1, <1>2, Size, ModLow
<1>3. CASE ~(t + i - 1 < B) BY <1>1, <1>3, Size, ModHigh
<1>4. QED BY <1>2, <1>3

LEMMA UsedIs ==
    ASSUME NEW t \in Slots, NEW h \in Slots
    PROVE  (h - t) % B = Used(t, h) /\ Used(t, h) \in 0..(B - 1)
<1>1. t \in Int /\ 0 <= t /\ t < B /\ h \in Int /\ 0 <= h /\ h < B
  BY Size DEF Slots, B
<1>2. CASE t <= h BY <1>1, <1>2, Size, ModLow DEF Used
<1>3. CASE ~(t <= h) BY <1>1, <1>3, Size, ModNegative DEF Used
<1>4. QED BY <1>2, <1>3

LEMMA RingIs ==
    ASSUME NEW b \in [Slots -> Entries], NEW t \in Slots, NEW h \in Slots
    PROVE  /\ Ring(b, t, h) \in Seq(Entries)
           /\ Len(Ring(b, t, h)) = Used(t, h)
           /\ \A i \in 1..Used(t, h) : Ring(b, t, h)[i] =
                  b[IF t + i - 1 < B THEN t + i - 1 ELSE t + i - 1 - B]
<1> DEFINE n == Used(t, h)
<1>1. n \in Nat /\ n < B /\ (h - t) % B = n BY UsedIs, Size
<1>2. \A i \in 1..n : (t + i - 1) % B = (IF t + i - 1 < B THEN t + i - 1 ELSE t + i - 1 - B)
  BY <1>1, SlotOf, Size
<1>3. \A i \in 1..n : (t + i - 1) % B \in Slots
  <2>1. t \in Int /\ 0 <= t /\ t < B BY Size DEF Slots, B
  <2>2. QED BY <1>1, <1>2, <2>1, Size DEF Slots, B
<1>4. Ring(b, t, h) \in [1..n -> Entries]
  BY <1>1, <1>3 DEF Ring
<1>5. \A i \in 1..n : Ring(b, t, h)[i] = b[(t + i - 1) % B]
  BY <1>1 DEF Ring
<1> HIDE DEF n
<1>6. Ring(b, t, h) \in Seq(Entries) /\ Len(Ring(b, t, h)) = n
  BY <1>1, <1>4
<1>7. QED BY <1>2, <1>5, <1>6 DEF n

\* keyboard_callback with a free slot.
LEMMA RingPush ==
    ASSUME NEW b \in [Slots -> Entries], NEW t \in Slots, NEW h \in Slots, NEW c \in Entries,
           (h + 1) % B # t
    PROVE  /\ Used(t, h) < B - 1
           /\ (h + 1) % B \in Slots
           /\ Ring([b EXCEPT ![h] = c], t, (h + 1) % B) = Append(Ring(b, t, h), c)
<1> DEFINE k == (h + 1) % B
           d == [b EXCEPT ![h] = c]
           n == Used(t, h)
           s == Ring(b, t, h)
           r == Ring(d, t, k)
<1>1. t \in Int /\ 0 <= t /\ t < B /\ h \in Int /\ 0 <= h /\ h < B
  BY Size DEF Slots, B
<1>2. k = IF h + 1 = B THEN 0 ELSE h + 1 BY NextSlot
<1>3. k \in Slots BY <1>1, <1>2, Size DEF Slots, B
<1>4. d \in [Slots -> Entries] OBVIOUS
<1>5. /\ s \in Seq(Entries) /\ Len(s) = n
      /\ \A i \in 1..n : s[i] = b[IF t + i - 1 < B THEN t + i - 1 ELSE t + i - 1 - B]
  BY Zenon, RingIs
<1>6. /\ r \in Seq(Entries) /\ Len(r) = Used(t, k)
      /\ \A i \in 1..Used(t, k) : r[i] = d[IF t + i - 1 < B THEN t + i - 1 ELSE t + i - 1 - B]
  <2> HIDE DEF k, d
  <2>1. QED BY Zenon, <1>3, <1>4, RingIs
<1>7. n \in Nat /\ n < B - 1 /\ Used(t, k) = n + 1
  BY <1>1, <1>2, Size DEF Used
<1>8. \A i \in 1..n : LET j == IF t + i - 1 < B THEN t + i - 1 ELSE t + i - 1 - B
                      IN  j \in Slots /\ j # h
  BY <1>1, <1>7, Size DEF Used, Slots, B
<1>9. h = IF t + (n + 1) - 1 < B THEN t + (n + 1) - 1 ELSE t + (n + 1) - 1 - B
  BY <1>1, <1>7, Size DEF Used
<1>10. \A j \in Slots : d[j] = IF j = h THEN c ELSE b[j] OBVIOUS
<1> HIDE DEF k, d, n, s, r
<1>11. /\ Append(s, c) \in Seq(Entries) /\ Len(Append(s, c)) = n + 1
       /\ \A i \in 1..n : Append(s, c)[i] = s[i]
       /\ Append(s, c)[n + 1] = c
  BY <1>5, AppendProperties
<1>12. \A i \in 1..n : r[i] = Append(s, c)[i]
  <2> TAKE i \in 1..n
  <2> DEFINE j == IF t + i - 1 < B THEN t + i - 1 ELSE t + i - 1 - B
  <2>1. j \in Slots /\ j # h BY <1>8
  <2>2. s[i] = b[j] BY <1>5
  <2>3. i \in 1..Used(t, k) BY <1>7
  <2>4. r[i] = d[j] BY <1>6, <2>3
  <2> HIDE DEF j
  <2>5. QED BY Zenon, <1>10, <1>11, <2>1, <2>2, <2>4
<1>13. r[n + 1] = c
  <2>1. n + 1 \in 1..Used(t, k) BY <1>7
  <2>2. r[n + 1] = d[h] BY <1>6, <1>9, <2>1
  <2>3. QED BY <1>10, <2>2
<1>14. \A i \in 1..Len(r) : r[i] = Append(s, c)[i]
  BY <1>6, <1>7, <1>11, <1>12, <1>13
<1>15. r = Append(s, c) BY Zenon, <1>6, <1>7, <1>11, <1>14, SeqEqual
<1>16. QED BY Zenon, <1>3, <1>7, <1>15 DEF k, d, n, s, r

\* keyboard_pop of a ring that is not empty; what the popped slot holds afterwards
\* does not matter.
LEMMA RingPop ==
    ASSUME NEW b \in [Slots -> Entries], NEW t \in Slots, NEW h \in Slots, t # h,
           NEW d \in [Slots -> Entries], \A j \in Slots : j # t => d[j] = b[j]
    PROVE  /\ Ring(b, t, h) # <<>>
           /\ Head(Ring(b, t, h)) = b[t]
           /\ (t + 1) % B \in Slots
           /\ Ring(d, (t + 1) % B, h) = Tail(Ring(b, t, h))
<1> DEFINE k == (t + 1) % B
           n == Used(t, h)
           s == Ring(b, t, h)
           r == Ring(d, k, h)
<1>1. t \in Int /\ 0 <= t /\ t < B /\ h \in Int /\ 0 <= h /\ h < B
  BY Size DEF Slots, B
<1>2. k = IF t + 1 = B THEN 0 ELSE t + 1 BY NextSlot
<1>3. k \in Slots BY <1>1, <1>2, Size DEF Slots, B
<1>4. /\ s \in Seq(Entries) /\ Len(s) = n
      /\ \A i \in 1..n : s[i] = b[IF t + i - 1 < B THEN t + i - 1 ELSE t + i - 1 - B]
  BY Zenon, RingIs
<1>5. /\ r \in Seq(Entries) /\ Len(r) = Used(k, h)
      /\ \A i \in 1..Used(k, h) : r[i] = d[IF k + i - 1 < B THEN k + i - 1 ELSE k + i - 1 - B]
  <2> HIDE DEF k
  <2>1. QED BY Zenon, <1>3, RingIs
<1>6. n \in Nat /\ n > 0 /\ n < B /\ Used(k, h) = n - 1
  BY <1>1, <1>2, Size DEF Used
<1>7. \A i \in 1..(n - 1) :
          (IF k + i - 1 < B THEN k + i - 1 ELSE k + i - 1 - B)
            = (IF t + (i + 1) - 1 < B THEN t + (i + 1) - 1 ELSE t + (i + 1) - 1 - B)
  BY <1>1, <1>2, <1>6, Size
<1>8. \A i \in 1..(n - 1) :
          LET j == IF k + i - 1 < B THEN k + i - 1 ELSE k + i - 1 - B
          IN  j \in Slots /\ j # t
  <2>1. k \in Int /\ 0 <= k /\ k < B /\ n <= B - 1
    BY <1>1, <1>2, <1>6, Size
  <2> HIDE DEF k, n
  <2>2. QED BY <1>1, <1>2, <1>6, <2>1, Size, SMTT(30) DEF Slots, B
<1> HIDE DEF k, n, s, r
<1>9. s # <<>> BY <1>4, <1>6
<1>10. Head(s) = b[t]
  <2>1. 1 \in 1..n BY <1>6
  <2>2. s[1] = b[IF t + 1 - 1 < B THEN t + 1 - 1 ELSE t + 1 - 1 - B] BY <1>4, <2>1
  <2>3. (IF t + 1 - 1 < B THEN t + 1 - 1 ELSE t + 1 - 1 - B) = t BY <1>1
  <2>4. QED BY <1>4, <1>9, <2>2, <2>3
<1>11. /\ Tail(s) \in Seq(Entries) /\ Len(Tail(s)) = n - 1
       /\ \A i \in 1..(n - 1) : Tail(s)[i] = s[i + 1]
  BY <1>4, <1>9, HeadTailProperties
<1>12. \A i \in 1..(n - 1) : r[i] = Tail(s)[i]
  <2> TAKE i \in 1..(n - 1)
  <2>1. i + 1 \in 1..n /\ i \in 1..Used(k, h) BY <1>6
  <2>2. s[i + 1] = b[IF t + (i + 1) - 1 < B THEN t + (i + 1) - 1 ELSE t + (i + 1) - 1 - B]
    BY <1>4, <2>1
  <2>3. r[i] = d[IF k + i - 1 < B THEN k + i - 1 ELSE k + i - 1 - B] BY <1>5, <2>1
  <2>4. r[i] = b[IF k + i - 1 < B THEN k + i - 1 ELSE k + i - 1 - B]
    BY Zenon, <1>8, <2>3
  <2>5. r[i] = s[i + 1] BY <1>7, <2>2, <2>4
  <2>6. QED BY <1>11, <2>5
<1>13. r = Tail(s) BY Zenon, <1>5, <1>6, <1>11, <1>12, SeqEqual
<1>14. QED BY <1>3, <1>9, <1>10, <1>13 DEF k, n, s, r

-----------------------------------------------------------------------------

\* The inductive invariant: what keyboard_pop has found out about the ring stays
\* true while interrupts come, and the reader has one code at a time.
IInv ==
    /\ buf \in [Slots -> Entries]
    /\ head \in Slots /\ tail \in Slots
    /\ kpc \in {"read", "advance"} => tail # head
    /\ kpc = "advance" => popped = buf[tail]
    /\ spc # "read" => kpc = "pop"
    /\ spc # "echo" /\ kpc \notin {"decode", "key"} => sc = NoCode

LEMMA InitIInv == ASSUME Init PROVE IInv
<1>1. 0 \in Slots BY Size DEF Slots, B
<1>2. QED BY <1>1 DEF Init, KeyboardInit, IInv, Entries

\* Steps that leave the ring alone and give no code to the reader.
LEMMA QuietStep ==
    ASSUME UNCHANGED <<buf, head, tail>>, sc' \in {sc, NoCode}
    PROVE  [KQ!Next]_<<Waiting, sc>>
<1>1. Waiting' = Waiting BY DEF Waiting
<1>2. CASE sc' = sc BY <1>1, <1>2
<1>3. CASE sc' = NoCode BY <1>1, <1>3 DEF KQ!Next, KQ!Done
<1>4. QED BY <1>2, <1>3

\* A key comes in.
LEMMA PushStep ==
    ASSUME IInv, NEW c \in Codes, KeyInterrupt(c)
    PROVE  IInv' /\ [KQ!Next]_<<Waiting, sc>>
<1> DEFINE next == (head + 1) % B
<1> USE DEF IInv
<1>1. next \in Slots
  <2>1. head \in Int /\ 0 <= head /\ head < B BY Size DEF Slots, B
  <2>2. QED BY <2>1, NextSlot, Size DEF Slots, B
<1>2. ((head + 1) % BufSize) % 256 = next BY <1>1, Size DEF Slots, B
<1>3. /\ buf' = IF next # tail THEN [buf EXCEPT ![head] = c] ELSE buf
      /\ head' = IF next # tail THEN next ELSE head
      /\ kpc' = IF kpc = "halted" THEN "pop" ELSE kpc
      /\ UNCHANGED <<tail, popped, sc, spc>>
  BY <1>2 DEF KeyInterrupt, keyboard_callback, EndHlt, shellVars
<1>4. c \in Entries BY DEF Entries
<1> HIDE DEF next
<1>5. IInv' BY <1>1, <1>3, <1>4
<1>6. CASE next = tail
  <2>1. UNCHANGED <<buf, head, tail>> /\ sc' = sc BY <1>3, <1>6
  <2>2. QED BY <1>5, <2>1, QuietStep
<1>7. CASE next # tail
  <2>1. /\ Used(tail, head) < B - 1
        /\ Ring([buf EXCEPT ![head] = c], tail, next) = Append(Ring(buf, tail, head), c)
    BY Zenon, <1>4, <1>7, RingPush DEF next
  <2>2. Waiting = Ring(buf, tail, head) /\ Waiting' = Ring(buf', tail', head')
    BY DEF Waiting, Ring, B
  <2>3. Waiting' = Append(Waiting, c) BY Zenon, <1>3, <1>7, <2>1, <2>2
  <2>4. Len(Waiting) < BufSize - 1 BY <2>1, <2>2, RingIs DEF B
  <2>5. KQ!Push(c) BY <1>3, <2>3, <2>4 DEF KQ!Push
  <2>6. QED BY <1>5, <2>5 DEF KQ!Next
<1>8. QED BY <1>6, <1>7

\* keyboard_pop hands a code to the reader.
LEMMA PopStep ==
    ASSUME IInv, Advance, spc = "read", spc' = spc
    PROVE  IInv' /\ [KQ!Next]_<<Waiting, sc>>
<1> USE DEF IInv
<1>1. /\ tail # head /\ popped = buf[tail] /\ sc = NoCode
      /\ tail' = (tail + 1) % B /\ sc' = popped /\ kpc' = "decode"
      /\ buf' = [buf EXCEPT ![tail] = NoCode] /\ UNCHANGED head
  BY DEF Advance, B
<1>2. buf' \in [Slots -> Entries] /\ \A j \in Slots : j # tail => buf'[j] = buf[j]
  BY <1>1 DEF Entries
<1>3. /\ Ring(buf, tail, head) # <<>>
      /\ Head(Ring(buf, tail, head)) = buf[tail]
      /\ (tail + 1) % B \in Slots
      /\ Ring(buf', (tail + 1) % B, head) = Tail(Ring(buf, tail, head))
  <2>1. tail \in Slots /\ head \in Slots /\ buf \in [Slots -> Entries] OBVIOUS
  <2>2. tail # head BY <1>1
  <2> HIDE DEF IInv
  <2>3. QED BY <1>2, <2>1, <2>2, RingPop, Zenon
<1>4. Waiting = Ring(buf, tail, head) /\ Waiting' = Ring(buf', tail', head')
  BY DEF Waiting, Ring, B
<1>5. KQ!Pop BY Zenon, <1>1, <1>3, <1>4 DEF KQ!Pop
<1>6. IInv' BY <1>1, <1>2, <1>3
<1>7. QED BY <1>5, <1>6 DEF KQ!Next

LEMMA NextIInv ==
    ASSUME IInv, [Next]_vars
    PROVE  IInv' /\ [KQ!Next]_<<Waiting, sc>>
<1> USE DEF IInv
<1>1. CASE PutStart \/ PutEnd \/ LoadStart
  <2>1. UNCHANGED <<keyboardVars, spc>> BY Zenon, <1>1 DEF PutStart, PutEnd, LoadStart
  <2>2. QED BY <2>1, QuietStep DEF keyboardVars
<1>2. CASE StartPrompt \/ EndEcho
  <2>1. /\ UNCHANGED <<buf, head, tail, kpc, popped>> /\ sc' = NoCode
        /\ spc # "read"
    BY <1>2 DEF StartPrompt, EndEcho, KeyDone
  <2>2. QED BY <2>1, QuietStep
<1>3. CASE EndPrompt
  <2>1. UNCHANGED keyboardVars /\ spc = "prompt" /\ spc' = "read" BY <1>3 DEF EndPrompt
  <2>2. QED BY <2>1, QuietStep DEF keyboardVars
<1>4. CASE StartEcho
  <2>1. UNCHANGED <<buf, head, tail, popped, sc>> /\ spc' = "echo" /\ kpc' = "pop"
    BY <1>4 DEF StartEcho
  <2>2. QED BY <2>1, QuietStep
<1>5. CASE ReadKey
  <2>1. spc = "read" /\ spc' = spc BY Zenon, <1>5 DEF ReadKey, shellVars
  <2>2. CASE TestEmpty \/ Halt \/ ReadSlot
    <3>1. UNCHANGED <<buf, head, tail, sc>> BY <2>2 DEF TestEmpty, Halt, ReadSlot
    <3>2. IInv' BY <2>1, <2>2, <3>1 DEF TestEmpty, Halt, ReadSlot
    <3>3. QED BY <3>1, <3>2, QuietStep
  <2>3. CASE Advance BY <2>1, <2>3, PopStep
  <2>4. CASE Decode
    <3>1. UNCHANGED <<buf, head, tail>> /\ sc' \in {sc, NoCode} BY <2>4 DEF Decode
    <3>2. IInv' BY <2>1, <2>4, <3>1 DEF Decode
    <3>3. QED BY <3>1, <3>2, QuietStep
  <2>5. QED BY <1>5, <2>2, <2>3, <2>4 DEF ReadKey, keyboard_getchar
<1>6. ASSUME NEW c \in Codes, KeyInterrupt(c)
      PROVE  IInv' /\ [KQ!Next]_<<Waiting, sc>>
  BY <1>6, PushStep
<1>7. CASE TimerInterrupt \/ Warn
  <2>1. /\ UNCHANGED <<buf, head, tail, popped, sc, spc>>
        /\ kpc' = kpc \/ (kpc = "halted" /\ kpc' = "pop")
    BY <1>7 DEF TimerInterrupt, OtherInterrupt, Warn, EndHlt, shellVars
  <2>2. QED BY <2>1, QuietStep
<1>8. CASE UNCHANGED vars
  <2>1. UNCHANGED <<keyboardVars, spc>> BY <1>8 DEF vars, shellVars
  <2>2. QED BY <2>1, QuietStep DEF keyboardVars
<1>9. QED
  BY Zenon, <1>1, <1>2, <1>3, <1>4, <1>5, <1>6, <1>7, <1>8 DEF Next, ShellStep

\* The lock-free ring is a lossy queue of capacity BUF_SIZE - 1: with interrupts
\* between any two accesses of keyboard_pop, codes come out in order and each once.
\* It needs a ring of at most 256 slots, because the handler's next is a u8.
THEOREM ShellKeyQueue == Spec => IsKeyQueue
<1>1. Init => IInv BY InitIInv
<1>2. Init => KQ!Init
  <2> SUFFICES ASSUME Init PROVE KQ!Init OBVIOUS
  <2>1. head = 0 /\ tail = 0 /\ sc = NoCode BY DEF Init, KeyboardInit
  <2>2. (head - tail) % BufSize = 0
    <3>1. head - tail = 0 BY <2>1
    <3>2. QED BY <3>1, ModLow, Size DEF B
  <2>3. Waiting = <<>> BY <2>2 DEF Waiting
  <2>4. QED BY <2>1, <2>3 DEF KQ!Init
<1>3. IInv /\ [Next]_vars => IInv' /\ [KQ!Next]_<<Waiting, sc>> BY NextIInv
<1>4. QED BY <1>1, <1>2, <1>3, PTL DEF Spec, IsKeyQueue, KQ!Spec

=============================================================================
