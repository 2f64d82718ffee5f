--------------------------- MODULE IpcWaitProofs ---------------------------
(***************************************************************************)
(* Facts about the wait queue's operators, for the proofs about the        *)
(* objects that use it.                                                    *)
(***************************************************************************)
EXTENDS IpcWait, WellFoundedInduction, TLAPS

\* A nonempty set of naturals has a least element: the loops over a queue stop
\* at the first entry they look for.
LEMMA LeastNat ==
    ASSUME NEW T, T \subseteq Nat, T # {}
    PROVE  \E n \in T : \A m \in T : n <= m
<1>. DEFINE R == OpToRel(<, Nat)
<1>1. \A x, y \in Nat : x < y => <<x, y>> \in R
  BY DEF OpToRel
<1>2. IsWellFoundedOn(R, Nat)
  BY NatLessThanWellFounded
<1>. HIDE DEF R
<1>3. PICK n \in T : \A m \in T : ~(<<m, n>> \in R)
  BY <1>2, WFMin
<1>4. ASSUME NEW m \in T PROVE n <= m
  <2>1. m \in Nat /\ n \in Nat
    OBVIOUS
  <2>2. ~(m < n)
    BY <1>1, <1>3, <2>1
  <2>. QED
    BY <2>1, <2>2
<1>. QED
  BY <1>4

\* IpcWaitAdd keeps a queue of ids one, adds the id, and adds one entry at most.
LEMMA AddType ==
    ASSUME NEW q \in Seq(Tasks), NEW id \in Tasks
    PROVE  /\ IpcWaitAdd(q, id) \in Seq(Tasks)
           /\ Len(IpcWaitAdd(q, id)) <= Len(q) + 1
           /\ ToSet(IpcWaitAdd(q, id)) = ToSet(q) \cup {id}
<1>1. CASE id \in ToSet(q)
  BY <1>1 DEF IpcWaitAdd
<1>2. CASE id \notin ToSet(q)
  <2>1. IpcWaitAdd(q, id) = Append(q, id)
    BY <1>2 DEF IpcWaitAdd
  <2>2. /\ Append(q, id) \in Seq(Tasks)
        /\ Len(Append(q, id)) = Len(q) + 1
        /\ \A i \in 1..Len(q) : Append(q, id)[i] = q[i]
        /\ Append(q, id)[Len(q) + 1] = id
    OBVIOUS
  <2>3. ToSet(Append(q, id)) = ToSet(q) \cup {id}
    BY <2>2 DEF ToSet
  <2>. QED
    BY <2>1, <2>2, <2>3
<1>. QED
  BY <1>1, <1>2

\* IpcWaitRemove puts the last entry where it found the id.
LEMMA RemoveShape ==
    ASSUME NEW q \in Seq(Tasks), NEW id \in ToSet(q)
    PROVE  \E i \in 1..Len(q) :
              /\ q[i] = id
              /\ IpcWaitRemove(q, id) =
                    [j \in 1..(Len(q) - 1) |-> IF j = i THEN q[Len(q)] ELSE q[j]]
<1>. DEFINE first(k) == q[k] = id /\ \A j \in 1..(k - 1) : q[j] # id
            i == CHOOSE k \in 1..Len(q) : first(k)
            T == {k \in 1..Len(q) : q[k] = id}
<1>1. IpcWaitRemove(q, id) =
          [j \in 1..(Len(q) - 1) |-> IF j = i THEN q[Len(q)] ELSE q[j]]
  BY DEF IpcWaitRemove
<1>2. T \subseteq Nat /\ T # {}
  BY DEF ToSet
<1>3. PICK n \in T : \A m \in T : n <= m
  BY <1>2, LeastNat
<1>4. first(n) /\ n \in 1..Len(q)
  BY <1>3
<1>5. first(i) /\ i \in 1..Len(q)
  BY <1>4
<1>. QED
  BY <1>1, <1>5

\* IpcWaitRemove keeps a queue of ids one and lengthens nothing; all it can take
\* out of the queue is the id.
LEMMA RemoveType ==
    ASSUME NEW q \in Seq(Tasks), NEW id
    PROVE  /\ IpcWaitRemove(q, id) \in Seq(Tasks)
           /\ Len(IpcWaitRemove(q, id)) <= Len(q)
           /\ ToSet(IpcWaitRemove(q, id)) \subseteq ToSet(q)
           /\ ToSet(q) \subseteq ToSet(IpcWaitRemove(q, id)) \cup {id}
<1>1. CASE id \notin ToSet(q)
  BY <1>1 DEF IpcWaitRemove
<1>2. CASE id \in ToSet(q)
  <2>1. PICK i \in 1..Len(q) :
            /\ q[i] = id
            /\ IpcWaitRemove(q, id) =
                  [j \in 1..(Len(q) - 1) |-> IF j = i THEN q[Len(q)] ELSE q[j]]
    BY <1>2, RemoveShape
  <2>. DEFINE r == [j \in 1..(Len(q) - 1) |-> IF j = i THEN q[Len(q)] ELSE q[j]]
  <2>2. Len(q) \in Nat /\ Len(q) # 0 /\ DOMAIN q = 1..Len(q)
    BY <1>2 DEF ToSet
  <2>3. r \in Seq(Tasks) /\ Len(r) = Len(q) - 1 /\ DOMAIN r = 1..(Len(q) - 1)
    BY <2>2
  <2>4. \A j \in 1..(Len(q) - 1) : r[j] = IF j = i THEN q[Len(q)] ELSE q[j]
    OBVIOUS
  <2>5. IpcWaitRemove(q, id) = r
    BY <2>1
  <2>. HIDE DEF r
  <2>6. ToSet(r) \subseteq ToSet(q)
    BY <2>2, <2>3, <2>4 DEF ToSet
  <2>7. ASSUME NEW k \in 1..Len(q), q[k] # id
        PROVE  q[k] \in ToSet(r)
    <3>1. i # k /\ Len(q) \in Nat
      BY <2>1, <2>7
    <3>2. CASE k = Len(q)
      <4>1. i \in 1..(Len(q) - 1)
        BY <3>1, <3>2
      <4>2. r[i] = q[k]
        BY <2>4, <3>2, <4>1
      <4>. QED
        BY <2>3, <4>1, <4>2 DEF ToSet
    <3>3. CASE k # Len(q)
      <4>1. k \in 1..(Len(q) - 1)
        BY <3>1, <3>3
      <4>2. r[k] = q[k]
        BY <2>4, <3>1, <4>1
      <4>. QED
        BY <2>3, <4>1, <4>2 DEF ToSet
    <3>. QED
      BY <3>2, <3>3
  <2>8. ToSet(q) \subseteq ToSet(r) \cup {id}
    BY <2>2, <2>7 DEF ToSet
  <2>. QED
    BY <2>2, <2>3, <2>5, <2>6, <2>8
<1>. QED
  BY <1>1, <1>2

\* A queue without double entries stays one when an id is added.
LEMMA AddInjective ==
    ASSUME NEW q \in Seq(Tasks), NEW id \in Tasks, IsInjective(q)
    PROVE  IsInjective(IpcWaitAdd(q, id))
<1>1. CASE id \in ToSet(q)
  BY <1>1 DEF IpcWaitAdd
<1>2. CASE id \notin ToSet(q)
  <2>1. IpcWaitAdd(q, id) = Append(q, id)
    BY <1>2 DEF IpcWaitAdd
  <2>2. /\ DOMAIN q = 1..Len(q)
        /\ DOMAIN Append(q, id) = 1..(Len(q) + 1)
        /\ Len(q) \in Nat
        /\ \A i \in 1..Len(q) : Append(q, id)[i] = q[i]
        /\ Append(q, id)[Len(q) + 1] = id
    OBVIOUS
  <2>3. \A i \in 1..Len(q) : q[i] # id
    BY <1>2, <2>2 DEF ToSet
  <2>4. \A i \in 1..(Len(q) + 1) : i \in 1..Len(q) \/ i = Len(q) + 1
    BY <2>2
  <2>. QED
    BY <2>1, <2>2, <2>3, <2>4 DEF IsInjective
<1>. QED
  BY <1>1, <1>2

\* A queue without double entries stays one when an id is removed, and the id
\* is gone from it.
LEMMA RemoveInjective ==
    ASSUME NEW q \in Seq(Tasks), NEW id, IsInjective(q)
    PROVE  /\ IsInjective(IpcWaitRemove(q, id))
           /\ id \notin ToSet(IpcWaitRemove(q, id))
<1>1. CASE id \notin ToSet(q)
  BY <1>1 DEF IpcWaitRemove
<1>2. CASE id \in ToSet(q)
  <2>1. PICK i \in 1..Len(q) :
            /\ q[i] = id
            /\ IpcWaitRemove(q, id) =
                  [j \in 1..(Len(q) - 1) |-> IF j = i THEN q[Len(q)] ELSE q[j]]
    BY <1>2, RemoveShape
  <2>. DEFINE r == [j \in 1..(Len(q) - 1) |-> IF j = i THEN q[Len(q)] ELSE q[j]]
  <2>2. Len(q) \in Nat
    OBVIOUS
  <2>3. \A j, l \in 1..Len(q) : q[j] = q[l] => j = l
    BY DEF IsInjective
  <2>4. DOMAIN r = 1..(Len(q) - 1)
    OBVIOUS
  <2>5. \A j \in 1..(Len(q) - 1) : r[j] = IF j = i THEN q[Len(q)] ELSE q[j]
    OBVIOUS
  <2>. HIDE DEF r
  <2>6. \A j \in 1..(Len(q) - 1) : /\ j \in 1..Len(q) /\ Len(q) \in 1..Len(q)
                                   /\ j # Len(q)
    BY <2>2
  <2>7. \A j \in 1..(Len(q) - 1) : r[j] # id
    BY <2>1, <2>3, <2>5, <2>6
  <2>8. \A j, l \in 1..(Len(q) - 1) : r[j] = r[l] => j = l
    BY <2>1, <2>3, <2>5, <2>6
  <2>9. IpcWaitRemove(q, id) = r
    BY <2>1 DEF r
  <2>. QED
    BY <2>4, <2>7, <2>8, <2>9 DEF IsInjective, ToSet
<1>. QED
  BY <1>1, <1>2

\* IpcWaitTakeLive returns the id of a queued live task, or 0 when it found
\* none; only then does it drop what is left.
LEMMA TakeType ==
    ASSUME NEW q \in Seq(Tasks)
    PROVE  /\ TakeLiveId(q) \in Callers
           /\ TakeLiveRest(q) \in Seq(Tasks)
           /\ Len(TakeLiveRest(q)) <= Len(q)
           /\ TakeLiveId(q) # Idle => /\ TakeLiveId(q) \in ToSet(q)
                                      /\ IpcWaitIsLive(TakeLiveId(q))
                                      /\ TakeLiveId(q) \in Tasks
                                      /\ LiveAt(q) # {}
           /\ TakeLiveId(q) = Idle => LiveAt(q) = {} /\ TakeLiveRest(q) = <<>>
<1>1. CASE LiveAt(q) = {}
  BY <1>1 DEF TakeLiveId, TakeLiveRest, Callers
<1>2. CASE LiveAt(q) # {}
  <2>. DEFINE n == CHOOSE k \in LiveAt(q) : \A j \in LiveAt(q) : k <= j
  <2>1. n \in LiveAt(q)
    <3>1. LiveAt(q) \subseteq Nat
      BY DEF LiveAt
    <3>2. \E k \in LiveAt(q) : \A j \in LiveAt(q) : k <= j
      BY <1>2, <3>1, LeastNat
    <3>. QED
      BY <3>2
  <2>. HIDE DEF n
  <2>2. TakeLiveId(q) = q[n] /\ TakeLiveRest(q) = IpcWaitRemove(q, q[n])
    BY <1>2 DEF TakeLiveId, TakeLiveRest, n
  <2>3. n \in 1..Len(q) /\ IpcWaitIsLive(q[n])
    BY <2>1 DEF LiveAt
  <2>4. q[n] \in Tasks /\ q[n] \in ToSet(q)
    BY <2>3 DEF ToSet
  <2>5. q[n] # Idle
    BY <2>4, WaitAssumption
  <2>. QED
    BY <1>2, <2>2, <2>3, <2>4, <2>5, RemoveType DEF Callers
<1>. QED
  BY <1>1, <1>2

=============================================================================
