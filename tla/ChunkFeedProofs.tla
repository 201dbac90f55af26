-------------------------- MODULE ChunkFeedProofs --------------------------
(***************************************************************************)
(* What the feed of ChunkFeed.tla guarantees, for any number of files.     *)
(***************************************************************************)
EXTENDS ChunkFeed, WatchDirProofs, SequenceTheorems

\* The cursor stands on a file or at the start, no file skipped or taken lies
\* before it, and before the first look none is either.
CursorInv ==
    /\ files \in SUBSET Names
    /\ skipped \in SUBSET files
    /\ taken \in Seq(Nat)
    /\ cursor = 0 \/ cursor \in files
    /\ on \in BOOLEAN
    /\ ~on => taken = <<>> /\ cursor = 0
    /\ \A i \in 1..Len(taken) : taken[i] <= cursor
    /\ on => \A n \in skipped : n <= cursor
    /\ NoneMissed
    /\ TakenInOrder

LEMMA CursorInit == Init => CursorInv
<1>. SUFFICES ASSUME Init PROVE CursorInv
  OBVIOUS
<1>1. taken \in Seq(Nat) /\ Len(taken) = 0 /\ on \in BOOLEAN
  BY EmptySeq DEF Init
<1>2. NoneMissed /\ TakenInOrder
  BY <1>1 DEF Init, NoneMissed, TakenInOrder
<1>. QED
  BY <1>1, <1>2 DEF Init, CursorInv, Nothing

LEMMA CursorStep ==
    ASSUME MaxName \in Nat, CursorInv, [Next]_vars
    PROVE  CursorInv'
<1>. USE DEF CursorInv
<1>1. /\ files \in SUBSET Nat /\ skipped \in SUBSET Nat /\ cursor \in Nat
      /\ Len(taken) \in Nat
      /\ \A i \in 1..Len(taken) : taken[i] \in Nat
  <2>1. files \in SUBSET Nat /\ cursor \in Nat
    <3>1. Names \subseteq Nat
      BY DEF Names
    <3>2. files \subseteq Names /\ (cursor = 0 \/ cursor \in files)
      BY Zenon
    <3>3. \A n \in files : n \in Nat
      BY <3>1, <3>2
    <3>4. files \in SUBSET Nat
      BY <3>3, Zenon
    <3>5. cursor \in Nat
      <4>1. CASE cursor = 0
        BY <4>1
      <4>2. CASE cursor \in files
        BY <3>3, <4>2, Zenon
      <4>. QED
        BY <3>2, <4>1, <4>2, Zenon
    <3>. QED
      BY <3>4, <3>5, Zenon
  <2>2. Len(taken) \in Nat /\ \A i \in 1..Len(taken) : taken[i] \in Nat
    BY LenProperties, ElementOfSeq
  <2>3. skipped \in SUBSET Nat
    BY <2>1
  <2>. QED
    BY <2>1, <2>2, <2>3
<1>2. CASE Arrive
  <2>1. PICK n \in Names :
            /\ on => (\A m \in files : m < n) \/ (\E m \in skipped : n < m)
            /\ files' = files \cup {n}
    BY <1>2 DEF Arrive
  <2>2. UNCHANGED <<on, skipped, cursor, taken>>
    BY <1>2 DEF Arrive
  <2>3. ASSUME on
        PROVE  n \in files \/ ~(n <= cursor /\ \A m \in skipped : m < n)
    <3>1. n \in Nat /\ 0 < n
      BY DEF Names
    <3>2. CASE \A m \in files : m < n
      BY <1>1, <3>1, <3>2
    <3>3. CASE \E m \in skipped : n < m
      BY <1>1, <3>1, <3>3
    <3>. QED
      BY <2>1, <2>3, <3>2, <3>3
  <2>4. NoneMissed'
    BY <2>1, <2>2, <2>3 DEF NoneMissed, Taken
  <2>. QED
    BY <2>1, <2>2, <2>4 DEF TakenInOrder
<1>3. CASE Begin
  <2>1. /\ cursor' \in Nat
        /\ files = {} => cursor' = 0
        /\ files # {} => cursor' \in files
        /\ \A n \in files : n <= cursor'
    BY <1>3, LastNameIsGreatest DEF Begin, Seed, Names
  <2>2. taken = <<>> /\ taken' = taken /\ Len(taken) = 0
    BY <1>3, EmptySeq DEF Begin
  <2>3. files' = files /\ skipped' = files /\ on' = TRUE
    BY <1>3 DEF Begin
  <2>4. NoneMissed'
    <3>1. \A n \in files : ~(n < n)
      BY <1>1
    <3>2. {n \in files : n <= cursor' /\ \A m \in files : m < n} = {}
      BY <3>1, Zenon
    <3>3. Taken' = {}
      BY <2>2 DEF Taken
    <3>. QED
      BY <2>3, <3>2, <3>3 DEF NoneMissed
  <2>5. TakenInOrder'
    BY <2>2 DEF TakenInOrder
  <2>6. \A i \in 1..Len(taken') : taken'[i] <= cursor'
    BY <2>2
  <2>7. cursor' = 0 \/ cursor' \in files
    BY <2>1
  <2>. QED
    BY <2>1, <2>2, <2>3, <2>4, <2>5, <2>6, <2>7
<1>4. CASE Take
  <2>1. PICK n \in files : IsNext(n) /\ cursor' = n /\ taken' = Append(taken, n)
    BY <1>4 DEF Take
  <2>2. /\ n \in Nat /\ cursor < n
        /\ \A m \in files : m > cursor => n <= m
    BY <1>1, <2>1 DEF IsNext
  <2>3. /\ taken' \in Seq(Nat)
        /\ Len(taken') = Len(taken) + 1
        /\ \A i \in 1..Len(taken) : taken'[i] = taken[i]
        /\ taken'[Len(taken) + 1] = n
    BY <2>1, <2>2, AppendProperties
  <2>4. \A i \in 1..Len(taken) : taken[i] < n
    BY <1>1, <2>2
  <2>5. \A i \in 1..Len(taken') : taken'[i] <= n
    <3>1. ASSUME NEW i \in 1..Len(taken')
          PROVE  taken'[i] <= n
      <4>1. i \in 1..Len(taken) \/ i = Len(taken) + 1
        BY <1>1, <2>3
      <4>2. CASE i \in 1..Len(taken)
        <5>1. taken[i] \in Nat /\ taken'[i] = taken[i] /\ taken[i] < n
          BY <1>1, <2>3, <2>4, <4>2
        <5>. QED
          BY <2>2, <5>1
      <4>3. CASE i = Len(taken) + 1
        BY <2>2, <2>3, <4>3
      <4>. QED
        BY <4>1, <4>2, <4>3
    <3>. QED
      BY <3>1
  <2>6. TakenInOrder'
    <3>1. ASSUME NEW i \in 1..Len(taken'), NEW j \in 1..Len(taken'), i < j
          PROVE  taken'[i] < taken'[j]
      <4>1. i \in 1..Len(taken)
        BY <1>1, <2>3, <3>1
      <4>2. j \in 1..Len(taken) \/ j = Len(taken) + 1
        BY <1>1, <2>3, <3>1
      <4>3. CASE j \in 1..Len(taken)
        BY <2>3, <3>1, <4>1, <4>3 DEF TakenInOrder
      <4>4. CASE j = Len(taken) + 1
        BY <2>3, <2>4, <4>1, <4>4
      <4>. QED
        BY <4>2, <4>3, <4>4
    <3>. QED
      BY <3>1 DEF TakenInOrder
  <2>7. NoneMissed'
    <3>1. Taken' = Taken \cup {n}
      <4>1. 1..Len(taken') = 1..Len(taken) \cup {Len(taken) + 1}
        BY <1>1, <2>3
      <4>2. \A x : x \in Taken' <=> \E i \in 1..Len(taken') : x = taken'[i]
        BY DEF Taken
      <4>3. \A x : x \in Taken <=> \E i \in 1..Len(taken) : x = taken[i]
        BY DEF Taken
      <4>4. \A x : x \in Taken' <=> x \in Taken \/ x = n
        <5>1. \A x : x \in Taken' <=> \/ \E i \in 1..Len(taken) : x = taken'[i]
                                      \/ x = taken'[Len(taken) + 1]
          BY <4>1, <4>2
        <5>2. /\ \A i \in 1..Len(taken) : taken'[i] = taken[i]
              /\ taken'[Len(taken) + 1] = n
          BY <2>3
        <5>. QED
          BY <4>3, <5>1, <5>2
      <4>. QED
        BY <4>4, Zenon
    <3>2. \A m \in skipped : m < n
      BY <1>1, <1>4, <2>2 DEF Take
    <3>3. ASSUME NEW m \in files
          PROVE  m <= n <=> m <= cursor \/ m = n
      BY <1>1, <2>2, <3>3
    <3>4. {m \in files : m <= n /\ \A k \in skipped : k < m}
              = {m \in files : m <= cursor /\ \A k \in skipped : k < m} \cup {n}
      BY <2>1, <3>2, <3>3
    <3>. QED
      BY <1>4, <2>1, <3>1, <3>4 DEF Take, NoneMissed
  <2>8. \A m \in skipped : m <= n
    BY <1>1, <1>4, <2>2 DEF Take
  <2>. QED
    BY <1>4, <2>1, <2>3, <2>5, <2>6, <2>7, <2>8 DEF Take
<1>5. CASE UNCHANGED vars
  BY <1>5 DEF vars, NoneMissed, Taken, TakenInOrder
<1>. QED
  BY <1>2, <1>3, <1>4, <1>5 DEF Next

LEMMA CursorInvariant ==
    ASSUME MaxName \in Nat
    PROVE  Spec => []CursorInv
<1>1. CursorInv /\ [Next]_vars => CursorInv'
  BY CursorStep
<1>. QED
  BY <1>1, CursorInit, PTL DEF Spec

\* Every variable keeps its type.
THEOREM TypeCorrect ==
    ASSUME MaxName \in Nat
    PROVE  Spec => []TypeOK
<1>1. CursorInv => TypeOK
  <2>. SUFFICES ASSUME CursorInv PROVE TypeOK
    OBVIOUS
  <2>1. cursor \in Nat
    <3>1. CASE cursor = 0
      BY <3>1
    <3>2. CASE cursor \in files
      <4>1. cursor \in Names
        BY <3>2 DEF CursorInv
      <4>. QED
        BY <4>1 DEF Names
    <3>. QED
      BY <3>1, <3>2 DEF CursorInv
  <2>. QED
    BY <2>1 DEF CursorInv, TypeOK
<1>. QED
  BY <1>1, CursorInvariant, PTL

\* Of the files that follow what was skipped, those up to the cursor have been
\* taken up, and no others: the worker passes over none.
THEOREM NothingIsMissed ==
    ASSUME MaxName \in Nat
    PROVE  Spec => []NoneMissed
<1>1. CursorInv => NoneMissed
  BY DEF CursorInv
<1>. QED
  BY <1>1, CursorInvariant, PTL

\* Files are taken up in the order of their names.
THEOREM TakenInNameOrder ==
    ASSUME MaxName \in Nat
    PROVE  Spec => []TakenInOrder
<1>1. CursorInv => TakenInOrder
  BY DEF CursorInv
<1>. QED
  BY <1>1, CursorInvariant, PTL
=============================================================================
