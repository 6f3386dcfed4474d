------------------------ MODULE ResourceManagerProofs ------------------------
(***************************************************************************)
(* Theorems about ResourceManager for every set of owners and keys and     *)
(* every depth of nesting.  The dictionaries of counts cannot be trusted - *)
(* an owner that had to wait counts in one nobody reads - so the invariant *)
(* says what they are worth: a count is either the number of blocks that   *)
(* hold the key, or 0 while exactly one block holds it.                    *)
(***************************************************************************)
EXTENDS ResourceManager, FiniteSetTheorems, SequenceTheorems, TLAPS

\* The blocks of a stack that hold a key.
Levels(stack, k) == {i \in 1..Len(stack) : k \in stack[i].acquired}

\* What acquire() and its end make of the stack of an owner.
Push(stack, S) == Append(stack, [keys |-> S, acquired |-> {}])
Grow(stack, got) == [stack EXCEPT ![Len(stack)].acquired = @ \cup got]
Pop(stack) == SubSeq(stack, 1, Len(stack) - 1)

\* A count and the blocks it stands for.
Worth(count, levels) ==
    count = Cardinality(levels) \/ (count = 0 /\ Cardinality(levels) = 1)

\* Only the holder of a lock holds the key in its blocks and has a count.
Counted ==
    \A k \in Key, o \in Owner :
        /\ holder[k] = o => /\ Levels(blocks[o], k) # {}
                            /\ Worth(owners[k][o], Levels(blocks[o], k))
        /\ holder[k] # o => owners[k][o] = 0 /\ Levels(blocks[o], k) = {}

\* An owner waits inside a block.
WaitsInBlock == \A o \in Owner : waits[o] # None => Depth(o) > 0

IInv == TypeOK /\ WaitsInBlock /\ Counted

-----------------------------------------------------------------------------
\* The levels of a key are finitely many.
LEMMA LevelsFinite ==
    ASSUME NEW stack \in Seq(Block), NEW k
    PROVE  /\ IsFiniteSet(Levels(stack, k))
           /\ Cardinality(Levels(stack, k)) \in Nat
           /\ Cardinality(Levels(stack, k)) = 0 <=> Levels(stack, k) = {}
<1>1. IsFiniteSet(1..Len(stack))
  BY FS_Interval
<1>2. Levels(stack, k) \in SUBSET (1..Len(stack))
  BY DEF Levels
<1>3. IsFiniteSet(Levels(stack, k))
  BY <1>1, <1>2, FS_Subset
<1> QED
  BY <1>3, FS_CardinalityType, FS_EmptySet

\* Opening a block changes no level.
LEMMA Pushed ==
    ASSUME NEW stack \in Seq(Block), NEW S \in SUBSET Key, NEW k
    PROVE  /\ Push(stack, S) \in Seq(Block) /\ Len(Push(stack, S)) = Len(stack) + 1
           /\ Push(stack, S)[Len(Push(stack, S))].acquired = {}
           /\ Levels(Push(stack, S), k) = Levels(stack, k)
<1> DEFINE b == [keys |-> S, acquired |-> {}]
           next == Append(stack, b)
<1>1. b \in Block
  BY DEF Block
<1>2. next \in Seq(Block) /\ Len(next) = Len(stack) + 1 /\ next[Len(next)] = b
  BY <1>1
<1>3. \A i \in 1..Len(stack) : next[i] = stack[i]
  OBVIOUS
<1>4. k \notin next[Len(next)].acquired
  BY <1>2
<1>5. Levels(next, k) = Levels(stack, k)
  BY <1>2, <1>3, <1>4 DEF Levels
<1> QED
  BY <1>2, <1>5 DEF Push

\* Taking keys adds the innermost block to their levels.
LEMMA Grown ==
    ASSUME NEW stack \in Seq(Block), Len(stack) > 0, NEW got \in SUBSET Key, NEW k
    PROVE  /\ Grow(stack, got) \in Seq(Block) /\ Len(Grow(stack, got)) = Len(stack)
           /\ Levels(Grow(stack, got), k) =
                IF k \in got THEN Levels(stack, k) \cup {Len(stack)} ELSE Levels(stack, k)
<1> DEFINE top == Len(stack)
           b == [stack[top] EXCEPT !.acquired = stack[top].acquired \cup got]
           next == [stack EXCEPT ![top] = b]
<1>1. top \in 1..Len(stack) /\ stack[top] \in Block
  OBVIOUS
<1>2. b \in Block /\ b.acquired = stack[top].acquired \cup got
  BY <1>1 DEF Block
<1> HIDE DEF b
<1>3. next \in Seq(Block) /\ Len(next) = Len(stack)
  BY <1>1, <1>2, ExceptSeq
<1>4. next[top] = b /\ \A i \in 1..Len(stack) : i # top => next[i] = stack[i]
  BY <1>1, <1>2, ExceptSeq
<1>5. Levels(next, k) = IF k \in got THEN Levels(stack, k) \cup {top} ELSE Levels(stack, k)
  BY <1>1, <1>2, <1>3, <1>4 DEF Levels
<1> QED
  BY <1>3, <1>5 DEF b, Grow

\* Leaving a block takes it out of every level.
LEMMA Popped ==
    ASSUME NEW stack \in Seq(Block), Len(stack) > 0, NEW k
    PROVE  /\ Pop(stack) \in Seq(Block) /\ Len(Pop(stack)) = Len(stack) - 1
           /\ Levels(Pop(stack), k) = Levels(stack, k) \ {Len(stack)}
<1> DEFINE next == SubSeq(stack, 1, Len(stack) - 1)
<1>1. \A i \in 1..(Len(stack) - 1) : stack[i] \in Block
  OBVIOUS
<1>2. /\ next \in Seq(Block) /\ Len(next) = Len(stack) - 1
      /\ \A i \in 1..(Len(stack) - 1) : next[i] = stack[i]
  <2> DEFINE n == Len(stack) - 1
  <2>1. n \in Nat
    OBVIOUS
  <2> HIDE DEF n
  <2>2. \A i \in 1..n : stack[i] \in Block
    BY <1>1 DEF n
  <2>3. /\ SubSeq(stack, 1, n) \in Seq(Block)
        /\ Len(SubSeq(stack, 1, n)) = IF 1 <= n THEN n - 1 + 1 ELSE 0
        /\ \A i \in 1..(n - 1 + 1) : SubSeq(stack, 1, n)[i] = stack[1 + i - 1]
    BY <2>1, <2>2, SubSeqProperties
  <2>4. /\ SubSeq(stack, 1, n) \in Seq(Block) /\ Len(SubSeq(stack, 1, n)) = n
        /\ \A i \in 1..n : SubSeq(stack, 1, n)[i] = stack[i]
    BY <2>1, <2>3
  <2> QED
    BY <2>4 DEF n
<1>3. Levels(next, k) = Levels(stack, k) \ {Len(stack)}
  BY <1>2 DEF Levels
<1> QED
  BY <1>2, <1>3 DEF Pop

-----------------------------------------------------------------------------
\* acquire() keeps the invariant, wherever it goes on: when the block is opened and
\* when its owner is woken.
LEMMA TakeKeeps ==
    ASSUME IInv, NEW o \in Owner, NEW S \in SUBSET Key, NEW granted \in SUBSET Key,
           NEW stack \in Seq(Block), Len(stack) > 0, Len(stack) <= MaxDepth,
           stack[Len(stack)].acquired \cap S = {},
           \A k \in Key : Levels(stack, k) = Levels(blocks[o], k),
           \A k \in granted : holder[k] = None,
           Take(o, S, granted, stack)
    PROVE  IInv'
<1> DEFINE got  == Obtained(o, S, granted)
           lost == IF o \in stale THEN granted ELSE {}
           top  == Len(stack)
           grown == Grow(stack, got)
<1>1. got \in SUBSET S
  BY DEF Obtained
<1>2. \A k \in got : k \in granted \/ owners[k][o] > 0 \/ holder[k] = None
  BY <1>1, ResourceAssumption DEF Obtained, Free
<1>3. /\ holder' = [k \in Key |-> IF k \in got THEN o ELSE holder[k]]
      /\ owners' = [k \in Key |-> IF k \in got \ lost
                                  THEN [owners[k] EXCEPT ![o] = @ + 1] ELSE owners[k]]
      /\ blocks' = [blocks EXCEPT ![o] = grown]
      /\ stale' = stale \ {o}
  BY DEF Take, Grow
<1>4. /\ grown \in Seq(Block) /\ Len(grown) = top
      /\ \A k \in Key : Levels(grown, k) = IF k \in got THEN Levels(stack, k) \cup {top}
                                            ELSE Levels(stack, k)
  <2>1. got \in SUBSET Key
    BY <1>1
  <2> QED
    BY <2>1, Grown
<1>5. TypeOK'
  <2>1. holder' \in [Key -> Owner \cup {None}]
    BY <1>3 DEF IInv, TypeOK
  <2>2. owners' \in [Key -> [Owner -> Nat]]
    BY <1>3 DEF IInv, TypeOK
  <2>3. blocks' \in [Owner -> Seq(Block)] /\ \A x \in Owner : Len(blocks'[x]) <= MaxDepth
    BY <1>3, <1>4 DEF IInv, TypeOK, Depth
  <2>4. stale' \in SUBSET Owner
    BY <1>3 DEF IInv, TypeOK
  <2>5. waits' \in [Owner -> Key \cup {None}] /\ ahead' \in [Owner -> SUBSET Owner]
    <3>1. CASE waits' = [waits EXCEPT ![o] = None] /\ ahead' = Unqueued(o, {})
      BY <3>1 DEF IInv, TypeOK, Unqueued
    <3>2. ASSUME NEW k \in S, waits' = [waits EXCEPT ![o] = k],
                 ahead' = Unqueued(o, Waiters(k) \ {o})
          PROVE  waits' \in [Owner -> Key \cup {None}] /\ ahead' \in [Owner -> SUBSET Owner]
      BY <3>2 DEF IInv, TypeOK, Unqueued, Waiters
    <3> QED
      BY <3>1, <3>2 DEF Take
  <2> QED
    BY <2>1, <2>2, <2>3, <2>4, <2>5 DEF TypeOK, Depth
<1>6. WaitsInBlock'
  <2>1. \A x \in Owner \ {o} : waits'[x] = waits[x] /\ blocks'[x] = blocks[x]
    BY <1>3 DEF IInv, TypeOK, Take
  <2>2. Len(blocks'[o]) > 0
    BY <1>3, <1>4 DEF IInv, TypeOK
  <2> QED
    BY <2>1, <2>2 DEF IInv, WaitsInBlock, Depth
<1>7. ASSUME NEW k \in Key, NEW x \in Owner
      PROVE  /\ holder'[k] = x => /\ Levels(blocks'[x], k) # {}
                                  /\ Worth(owners'[k][x], Levels(blocks'[x], k))
             /\ holder'[k] # x => owners'[k][x] = 0 /\ Levels(blocks'[x], k) = {}
  <2>1. CASE k \in got
    <3>1. holder'[k] = o
      BY <1>3, <2>1
    <3>2. holder[k] = None \/ holder[k] = o
      BY <1>2, <2>1 DEF IInv, Counted, TypeOK
    <3>3. CASE x # o
      <4>1. holder[k] # x
        BY <3>2, <3>3, ResourceAssumption
      <4>2. owners'[k][x] = owners[k][x] /\ blocks'[x] = blocks[x]
        BY <1>3, <3>3 DEF IInv, TypeOK
      <4> QED
        BY <3>1, <3>3, <4>1, <4>2 DEF IInv, Counted
    <3>4. CASE x = o
      <4>1. Levels(blocks'[o], k) = Levels(blocks[o], k) \cup {top}
        <5>1. Levels(grown, k) = Levels(stack, k) \cup {top}
          BY <1>4, <2>1
        <5> QED
          BY <1>3, <5>1 DEF IInv, TypeOK
      <4>2. top \notin Levels(blocks[o], k)
        BY <1>1, <2>1 DEF Levels
      <4>3. blocks[o] \in Seq(Block)
        BY DEF IInv, TypeOK
      <4>4. /\ Cardinality(Levels(blocks'[o], k)) = Cardinality(Levels(blocks[o], k)) + 1
            /\ Cardinality(Levels(blocks[o], k)) \in Nat
            /\ Cardinality(Levels(blocks[o], k)) = 0 <=> Levels(blocks[o], k) = {}
        BY <4>1, <4>2, <4>3, LevelsFinite, FS_AddElement
      <4>5. owners'[k][o] = IF k \in lost THEN owners[k][o] ELSE owners[k][o] + 1
        BY <1>3, <2>1 DEF IInv, TypeOK
      <4>6. owners[k][o] \in Nat
        BY DEF IInv, TypeOK
      <4>7. Worth(owners'[k][o], Levels(blocks'[o], k))
        <5>1. CASE holder[k] = None
          <6>1. holder[k] # o
            BY <5>1, ResourceAssumption
          <6>2. owners[k][o] = 0 /\ Levels(blocks[o], k) = {}
            BY <6>1 DEF IInv, Counted
          <6> QED
            BY <4>4, <4>5, <6>2 DEF Worth
        <5>2. CASE holder[k] = o
          <6>1. k \notin granted
            BY <5>2, ResourceAssumption
          <6>2. owners[k][o] > 0
            BY <1>2, <2>1, <5>2, <6>1, ResourceAssumption
          <6>3. owners[k][o] = Cardinality(Levels(blocks[o], k))
            BY <4>6, <5>2, <6>2 DEF IInv, Counted, Worth
          <6> QED
            BY <4>4, <4>5, <6>1, <6>3 DEF Worth
        <5> QED
          BY <3>2, <5>1, <5>2
      <4> QED
        BY <3>1, <3>4, <4>1, <4>7
    <3> QED
      BY <3>3, <3>4
  <2>2. CASE k \notin got
    <3>1. holder'[k] = holder[k] /\ owners'[k] = owners[k]
      BY <1>3, <2>2
    <3>2. Levels(blocks'[x], k) = Levels(blocks[x], k)
      <4>1. CASE x = o
        <5>1. Levels(grown, k) = Levels(stack, k)
          BY <1>4, <2>2
        <5> QED
          BY <1>3, <4>1, <5>1 DEF IInv, TypeOK
      <4>2. CASE x # o
        BY <1>3, <4>2 DEF IInv, TypeOK
      <4> QED
        BY <4>1, <4>2
    <3> QED
      BY <3>1, <3>2 DEF IInv, Counted
  <2> QED
    BY <2>1, <2>2
<1>8. Counted'
  BY <1>7 DEF Counted
<1> QED
  BY <1>5, <1>6, <1>8 DEF IInv

\* Leaving a block keeps it, in order or by a cancellation of the wait inside.
LEMMA ReleaseKeeps ==
    ASSUME IInv, NEW o \in Owner, Depth(o) > 0, Release(o)
    PROVE  IInv'
<1> DEFINE stack == blocks[o]
           mine  == stack[Len(stack)].acquired
           gone  == {k \in mine : /\ CountLeft(owners[k][o]) = 0
                                  /\ \A x \in Owner \ {o} : owners[k][x] = 0}
           popped == Pop(stack)
<1>1. stack \in Seq(Block) /\ Len(stack) > 0 /\ Len(stack) \in Nat
  BY DEF IInv, TypeOK, Depth
<1>2. mine \in SUBSET Key
  <2>1. stack[Len(stack)] \in Block
    BY <1>1
  <2> QED
    BY <2>1 DEF Block
<1>3. /\ holder' = [k \in Key |-> IF k \in gone THEN None ELSE holder[k]]
      /\ owners' = [k \in Key |-> IF k \in mine
                                  THEN [owners[k] EXCEPT ![o] = CountLeft(@)] ELSE owners[k]]
      /\ blocks' = [blocks EXCEPT ![o] = popped]
      /\ stale' = (stale \cup {x \in Owner : waits[x] \in gone}) \ {o}
      /\ waits' = [waits EXCEPT ![o] = None]
      /\ ahead' = Unqueued(o, {})
  BY DEF Release, Depth, Pop
<1>4. /\ popped \in Seq(Block) /\ Len(popped) = Len(stack) - 1
      /\ \A k : Levels(popped, k) = Levels(stack, k) \ {Len(stack)}
  BY <1>1, Popped
<1>5. TypeOK'
  <2>1. holder' \in [Key -> Owner \cup {None}]
    BY <1>3 DEF IInv, TypeOK
  <2>2. owners' \in [Key -> [Owner -> Nat]]
    BY <1>3 DEF IInv, TypeOK, CountLeft
  <2>3. blocks' \in [Owner -> Seq(Block)] /\ \A x \in Owner : Len(blocks'[x]) <= MaxDepth
    BY <1>1, <1>3, <1>4, ResourceAssumption DEF IInv, TypeOK, Depth
  <2>4. /\ stale' \in SUBSET Owner /\ waits' \in [Owner -> Key \cup {None}]
        /\ ahead' \in [Owner -> SUBSET Owner]
    BY <1>3 DEF IInv, TypeOK, Unqueued
  <2> QED
    BY <2>1, <2>2, <2>3, <2>4 DEF TypeOK, Depth
<1>6. WaitsInBlock'
  BY <1>3 DEF IInv, TypeOK, WaitsInBlock, Depth
<1>7. ASSUME NEW k \in Key, NEW x \in Owner
      PROVE  /\ holder'[k] = x => /\ Levels(blocks'[x], k) # {}
                                  /\ Worth(owners'[k][x], Levels(blocks'[x], k))
             /\ holder'[k] # x => owners'[k][x] = 0 /\ Levels(blocks'[x], k) = {}
  <2>1. Len(stack) \in Levels(stack, k) <=> k \in mine
    BY <1>1 DEF Levels
  <2>2. CASE x # o
    <3>1. owners'[k][x] = owners[k][x] /\ blocks'[x] = blocks[x]
      BY <1>3, <2>2 DEF IInv, TypeOK
    <3>2. holder'[k] = holder[k] \/ (holder[k] # x /\ holder'[k] # x)
      <4>1. CASE k \in gone
        <5>1. holder[k] = o /\ holder'[k] = None
          BY <1>3, <2>1, <4>1 DEF IInv, Counted
        <5> QED
          BY <2>2, <5>1, ResourceAssumption
      <4>2. CASE k \notin gone
        BY <1>3, <4>2
      <4> QED
        BY <4>1, <4>2
    <3> QED
      BY <3>1, <3>2 DEF IInv, Counted
  <2>3. CASE x = o /\ k \notin mine
    <3>1. holder'[k] = holder[k] /\ owners'[k] = owners[k]
      BY <1>3, <2>3
    <3>2. Levels(blocks'[o], k) = Levels(stack, k)
      <4>1. blocks'[o] = popped /\ Levels(popped, k) = Levels(stack, k) \ {Len(stack)}
        BY <1>3, <1>4 DEF IInv, TypeOK
      <4>2. Len(stack) \notin Levels(stack, k)
        BY <2>1, <2>3
      <4> QED
        BY <4>1, <4>2
    <3> QED
      BY <2>3, <3>1, <3>2 DEF IInv, Counted
  <2>4. CASE x = o /\ k \in mine
    <3> DEFINE n == Cardinality(Levels(stack, k))
    <3>1. holder[k] = o /\ Worth(owners[k][o], Levels(stack, k))
      BY <2>1, <2>4 DEF IInv, Counted
    <3>2. /\ IsFiniteSet(Levels(stack, k)) /\ n \in Nat
          /\ n = 0 <=> Levels(stack, k) = {}
      BY <1>1, LevelsFinite
    <3>3. n > 0
      BY <2>1, <2>4, <3>2
    <3>4. Levels(blocks'[o], k) = Levels(stack, k) \ {Len(stack)}
      BY <1>3, <1>4 DEF IInv, TypeOK
    <3>5. /\ Cardinality(Levels(blocks'[o], k)) = n - 1
          /\ n - 1 = 0 <=> Levels(blocks'[o], k) = {}
      <4>1. /\ IsFiniteSet(Levels(blocks'[o], k))
            /\ Cardinality(Levels(blocks'[o], k)) = n - 1
        BY <2>1, <2>4, <3>2, <3>4, FS_RemoveElement, ZenonT(60)
      <4> QED
        BY <4>1, FS_EmptySet
    <3>6. owners'[k][o] = CountLeft(owners[k][o]) /\ owners[k][o] \in Nat
      BY <1>3, <2>4 DEF IInv, TypeOK
    <3>7. CASE n = 1
      <4>1. owners'[k][o] = 0 /\ CountLeft(owners[k][o]) = 0
        BY <3>1, <3>6, <3>7 DEF Worth, CountLeft
      <4>2. k \in gone
        <5>1. \A y \in Owner \ {o} : owners[k][y] = 0
          BY <3>1 DEF IInv, Counted
        <5> QED
          BY <2>4, <4>1, <5>1
      <4>3. holder'[k] = None
        BY <1>3, <4>2
      <4> QED
        BY <2>4, <3>5, <3>7, <4>1, <4>3, ResourceAssumption
    <3>8. CASE n > 1
      <4>1. owners[k][o] = n
        BY <3>1, <3>8 DEF Worth
      <4>2. owners'[k][o] = n - 1 /\ CountLeft(owners[k][o]) # 0
        BY <3>2, <3>6, <3>8, <4>1 DEF CountLeft
      <4>3. holder'[k] = o
        BY <1>3, <3>1, <4>2
      <4> QED
        BY <2>4, <3>2, <3>5, <3>8, <4>2, <4>3 DEF Worth
    <3> QED
      BY <3>2, <3>3, <3>7, <3>8
  <2> QED
    BY <2>2, <2>3, <2>4
<1>8. Counted'
  BY <1>7 DEF Counted
<1> QED
  BY <1>5, <1>6, <1>8 DEF IInv

-----------------------------------------------------------------------------
LEMMA InitIInv == Init => IInv
<1> SUFFICES ASSUME Init PROVE IInv
  OBVIOUS
<1>1. TypeOK
  BY ResourceAssumption DEF Init, TypeOK, Depth
<1>2. WaitsInBlock
  BY DEF Init, WaitsInBlock
<1>3. Counted
  BY ResourceAssumption DEF Init, Counted, Levels
<1> QED
  BY <1>1, <1>2, <1>3 DEF IInv

LEMMA StepIInv == IInv /\ [Next]_vars => IInv'
<1> SUFFICES ASSUME IInv, [Next]_vars PROVE IInv'
  OBVIOUS
<1>1. ASSUME NEW o \in Owner, Enter(o) PROVE IInv'
  <2>1. /\ blocks[o] \in Seq(Block) /\ Depth(o) < MaxDepth /\ Depth(o) \in Nat
        /\ MaxDepth \in Nat
    BY <1>1, ResourceAssumption DEF IInv, TypeOK, Enter, Depth
  <2>2. PICK S \in SUBSET Key :
           Take(o, S, {}, Push(blocks[o], S))
    BY <1>1 DEF Enter, Push
  <2> DEFINE next == Push(blocks[o], S)
  <2>3. /\ next \in Seq(Block) /\ Len(next) = Depth(o) + 1
        /\ next[Len(next)].acquired = {}
        /\ \A k \in Key : Levels(next, k) = Levels(blocks[o], k)
    <3>1. blocks[o] \in Seq(Block)
      BY <2>1
    <3>2. \A k : /\ Push(blocks[o], S) \in Seq(Block)
                 /\ Len(Push(blocks[o], S)) = Len(blocks[o]) + 1
                 /\ Push(blocks[o], S)[Len(Push(blocks[o], S))].acquired = {}
                 /\ Levels(Push(blocks[o], S), k) = Levels(blocks[o], k)
      <4> DEFINE stack == blocks[o]
      <4>1. stack \in Seq(Block)
        BY <3>1
      <4> HIDE DEF stack
      <4>2. \A k : /\ Push(stack, S) \in Seq(Block)
                   /\ Len(Push(stack, S)) = Len(stack) + 1
                   /\ Push(stack, S)[Len(Push(stack, S))].acquired = {}
                   /\ Levels(Push(stack, S), k) = Levels(stack, k)
        BY <4>1, Pushed, Zenon
      <4> QED
        BY <4>2 DEF stack
    <3> QED
      BY <3>2, Zenon DEF Depth
  <2>4. Len(next) > 0 /\ Len(next) <= MaxDepth /\ next[Len(next)].acquired \cap S = {}
    BY <2>1, <2>3
  <2> HIDE DEF next
  <2>5. Take(o, S, {}, next)
    BY <2>2 DEF next
  <2> QED
    BY <2>3, <2>4, <2>5, TakeKeeps
<1>2. ASSUME NEW o \in Owner, Wake(o) PROVE IInv'
  <2> DEFINE stack == blocks[o]
             b == stack[Len(stack)]
             S == b.keys \ b.acquired
  <2>1. stack \in Seq(Block) /\ Len(stack) > 0 /\ Len(stack) <= MaxDepth
    BY <1>2 DEF IInv, TypeOK, Wake, WaitsInBlock, Depth
  <2>2. b \in Block
    BY <2>1
  <2>3. S \in SUBSET Key /\ b.acquired \cap S = {}
    BY <2>2 DEF Block
  <2>4. {waits[o]} \in SUBSET Key /\ \A k \in {waits[o]} : holder[k] = None
    BY <1>2 DEF IInv, TypeOK, Wake
  <2>5. Take(o, S, {waits[o]}, stack)
    BY <1>2 DEF Wake, Depth
  <2> HIDE DEF stack, S
  <2>6. \A k \in Key : Levels(stack, k) = Levels(blocks[o], k)
    BY DEF stack
  <2> QED
    BY <2>1, <2>3, <2>4, <2>5, <2>6, TakeKeeps
<1>3. ASSUME NEW o \in Owner, Leave(o) PROVE IInv'
  BY <1>3, ReleaseKeeps DEF Leave
<1>4. ASSUME NEW o \in Owner, CancelWait(o) PROVE IInv'
  BY <1>4, ReleaseKeeps DEF CancelWait, IInv, WaitsInBlock
<1>5. CASE UNCHANGED vars
  BY <1>5 DEF vars, IInv, TypeOK, WaitsInBlock, Counted, Depth
<1> QED
  BY <1>1, <1>2, <1>3, <1>4, <1>5 DEF Next

\* The counts, queues and blocks keep their types over every nesting, wait and
\* cancellation (skills/resources.py, acquire()).
THEOREM TypeCorrect == Spec => []TypeOK
<1>1. IInv => TypeOK
  BY DEF IInv
<1> QED
  BY <1>1, InitIInv, StepIInv, PTL DEF Spec

\* A key is held by exactly the owner in whose blocks it is, although the counts
\* that decide about re-entry and release go stale (skills/resources.py, acquire()).
THEOREM OwnersExclude == Spec => []Exclusive
<1>1. ASSUME IInv PROVE Exclusive
  <2>1. ASSUME NEW k \in Key, NEW o \in Owner
        PROVE  k \in Acquired(o) <=> Levels(blocks[o], k) # {}
    BY DEF Acquired, Levels, Depth
  <2> QED
    BY <1>1, <2>1 DEF IInv, Counted, Exclusive
<1> QED
  BY <1>1, InitIInv, StepIInv, PTL DEF Spec
-----------------------------------------------------------------------------
\* The queue of a lock: each waiter has exactly those ahead of it who came earlier.
\* The model keeps the sets ahead[o] only; that they come from one order is what
\* makes some waiter the first.
Queues(q, W, before) ==
    /\ q \in Seq(Owner)
    /\ \A i, j \in 1..Len(q) : q[i] = q[j] => i = j
    /\ \A x : x \in W <=> \E i \in 1..Len(q) : q[i] = x
    /\ \A i \in 1..Len(q) : before[q[i]] = {q[j] : j \in 1..(i - 1)}

QueueInv == \A k \in Key : \E q : Queues(q, Waiters(k), ahead)

\* An owner that is no longer ahead of anybody has left its queue.
LEMMA QueueLeft ==
    ASSUME NEW q, NEW W, NEW before, Queues(q, W, before), NEW o \in Owner,
           NEW after, \A x \in W \ {o} : after[x] = before[x] \ {o}
    PROVE  \E r : Queues(r, W \ {o}, after)
<1>0. q \in Seq(Owner) /\ Len(q) \in Nat /\ \A i \in 1..Len(q) : q[i] \in Owner /\ q[i] \in W
  BY LenProperties, ElementOfSeq DEF Queues
<1>1. CASE o \notin W
  <2>1. \A i \in 1..Len(q) : q[i] # o
    BY <1>1 DEF Queues
  <2>2. ASSUME NEW i \in 1..Len(q) PROVE after[q[i]] = {q[j] : j \in 1..(i - 1)}
    <3>1. \A j \in 1..(i - 1) : j \in 1..Len(q)
      BY <1>0
    <3>2. o \notin {q[j] : j \in 1..(i - 1)}
      BY <2>1, <3>1
    <3>3. before[q[i]] = {q[j] : j \in 1..(i - 1)}
      BY DEF Queues
    <3>4. after[q[i]] = before[q[i]] \ {o}
      BY <1>0, <2>1
    <3> QED
      BY <3>2, <3>3, <3>4
  <2>3. \A x : x \in W \ {o} <=> \E i \in 1..Len(q) : q[i] = x
    BY <1>1 DEF Queues
  <2>4. \A i, j \in 1..Len(q) : q[i] = q[j] => i = j
    BY DEF Queues
  <2> DEFINE V == W \ {o}
  <2> HIDE DEF V
  <2>5. Queues(q, V, after)
    BY <1>0, <2>2, <2>3, <2>4 DEF Queues, V
  <2> QED
    BY <2>5 DEF V
<1>2. CASE o \in W
  <2>1. PICK n \in 1..Len(q) : q[n] = o
    BY <1>2 DEF Queues
  <2> DEFINE m == Len(q) - 1
             at(i) == IF i < n THEN i ELSE i + 1
             r == [i \in 1..m |-> q[at(i)]]
  <2>2. m \in Nat /\ n \in Nat /\ n >= 1
    BY <1>0, <2>1
  <2>3. \A i \in 1..m : at(i) \in 1..Len(q) /\ at(i) # n
    BY <1>0, <2>1
  <2>4. r \in Seq(Owner) /\ Len(r) = m /\ \A i \in 1..m : r[i] = q[at(i)]
    <3>1. \A i \in 1..m : q[at(i)] \in Owner
      BY <1>0, <2>3
    <3> HIDE DEF at, m
    <3>2. r \in [1..m -> Owner]
      BY <3>1
    <3> QED
      BY <2>2, <3>2
  <2>5. \A i \in 1..m : r[i] # o
    BY <2>1, <2>3, <2>4 DEF Queues
  <2>6. \A i \in 1..Len(q) : i # n => \E j \in 1..m : at(j) = i
    <3> SUFFICES ASSUME NEW i \in 1..Len(q), i # n PROVE \E j \in 1..m : at(j) = i
      OBVIOUS
    <3>1. CASE i < n
      <4>1. i \in 1..m /\ at(i) = i
        BY <1>0, <2>1, <3>1
      <4> QED
        BY <4>1
    <3>2. CASE i > n
      <4>1. i - 1 \in 1..m /\ at(i - 1) = i
        BY <1>0, <2>1, <3>2
      <4> QED
        BY <4>1
    <3> QED
      BY <2>2, <3>1, <3>2
  <2>7. \A i, j \in 1..m : r[i] = r[j] => i = j
    <3> SUFFICES ASSUME NEW i \in 1..m, NEW j \in 1..m, r[i] = r[j] PROVE i = j
      OBVIOUS
    <3>1. at(i) = at(j)
      <4> HIDE DEF at, r
      <4> QED
        BY <2>3, <2>4 DEF Queues
    <3> QED
      BY <2>2, <3>1
  <2>8. \A x : x \in W \ {o} <=> \E i \in 1..m : r[i] = x
    <3> HIDE DEF at, m, r
    <3>1. ASSUME NEW x, x \in W \ {o} PROVE \E i \in 1..m : r[i] = x
      <4>1. PICK j \in 1..Len(q) : q[j] = x
        BY <3>1 DEF Queues
      <4>2. j # n
        BY <2>1, <3>1, <4>1
      <4> QED
        BY <2>4, <2>6, <4>1, <4>2
    <3>2. ASSUME NEW i \in 1..m PROVE r[i] \in W \ {o}
      BY <1>0, <2>3, <2>4, <2>5
    <3> QED
      BY <3>1, <3>2
  <2>9. ASSUME NEW i \in 1..m PROVE after[r[i]] = {r[j] : j \in 1..(i - 1)}
    <3>1. after[r[i]] = {q[j] : j \in 1..(at(i) - 1)} \ {o}
      <4>1. r[i] \in W \ {o} /\ r[i] = q[at(i)] /\ at(i) \in 1..Len(q)
        BY <2>3, <2>4, <2>8
      <4> HIDE DEF at, r
      <4>2. before[q[at(i)]] = {q[j] : j \in 1..(at(i) - 1)}
        BY <4>1 DEF Queues
      <4> QED
        BY <4>1, <4>2
    <3>2. \A j \in 1..(i - 1) : j \in 1..m /\ at(j) \in 1..(at(i) - 1)
      BY <2>2
    <3>3. \A j \in 1..(at(i) - 1) : j # n => \E l \in 1..(i - 1) : at(l) = j
      <4> SUFFICES ASSUME NEW j \in 1..(at(i) - 1), j # n PROVE \E l \in 1..(i - 1) : at(l) = j
        OBVIOUS
      <4>1. CASE j < n
        <5>1. j \in 1..(i - 1) /\ at(j) = j
          BY <2>2, <4>1
        <5> QED
          BY <5>1
      <4>2. CASE j > n
        <5>1. j - 1 \in 1..(i - 1) /\ at(j - 1) = j
          BY <2>2, <4>2
        <5> QED
          BY <5>1
      <4> QED
        BY <2>2, <4>1, <4>2
    <3>4. \A j \in 1..(at(i) - 1) : j \in 1..Len(q)
      BY <2>2, <2>3
    <3> HIDE DEF at, m, r
    <3> DEFINE A == {q[j] : j \in 1..(at(i) - 1)} \ {o}
               B == {r[j] : j \in 1..(i - 1)}
    <3>5. \A j \in 1..(i - 1) : r[j] \in A
      BY <2>4, <2>5, <3>2
    <3>6. \A x \in A : x \in B
      BY <2>1, <2>4, <3>2, <3>3
    <3>7. \A x \in B : x \in A
      BY <3>5
    <3> HIDE DEF A, B
    <3>8. A = B
      BY <3>6, <3>7
    <3>9. after[r[i]] = A
      BY <3>1 DEF A
    <3> QED
      BY <3>8, <3>9 DEF B
  <2> HIDE DEF r, m, at
  <2> QED
    BY <2>4, <2>7, <2>8, <2>9 DEF Queues
<1> QED
  BY <1>1, <1>2

\* An owner that has everybody ahead of it joins the queue at its end.
LEMMA QueueJoined ==
    ASSUME NEW q, NEW W, NEW before, Queues(q, W, before), NEW o \in Owner, o \notin W,
           NEW after, \A x \in W : after[x] = before[x], after[o] = W
    PROVE  \E r : Queues(r, W \cup {o}, after)
<1> DEFINE r == Append(q, o)
<1>1. q \in Seq(Owner) /\ Len(q) \in Nat
  BY LenProperties DEF Queues
<1>2. /\ r \in Seq(Owner) /\ Len(r) = Len(q) + 1
      /\ \A i \in 1..Len(q) : r[i] = q[i]
      /\ r[Len(q) + 1] = o
  BY <1>1, AppendProperties
<1> HIDE DEF r
<1>3. \A i \in 1..Len(r) : i \in 1..Len(q) \/ i = Len(q) + 1
  BY <1>1, <1>2
<1>4. \A i, j \in 1..Len(r) : r[i] = r[j] => i = j
  BY <1>2, <1>3 DEF Queues
<1>5. \A x : x \in W \cup {o} <=> \E i \in 1..Len(r) : r[i] = x
  <2>1. Len(q) + 1 \in 1..Len(r) /\ \A i \in 1..Len(q) : i \in 1..Len(r)
    BY <1>1, <1>2
  <2> QED
    BY <1>2, <1>3, <2>1 DEF Queues
<1>6. ASSUME NEW i \in 1..Len(r) PROVE after[r[i]] = {r[j] : j \in 1..(i - 1)}
  <2>1. \A j \in 1..(i - 1) : j \in 1..Len(q) /\ r[j] = q[j]
    BY <1>1, <1>2
  <2>2. {r[j] : j \in 1..(i - 1)} = {q[j] : j \in 1..(i - 1)}
    BY <2>1
  <2>3. CASE i \in 1..Len(q)
    <3>1. r[i] = q[i] /\ q[i] \in W
      BY <1>2, <2>3 DEF Queues
    <3> QED
      BY <2>2, <2>3, <3>1 DEF Queues
  <2>4. CASE i = Len(q) + 1
    <3>1. W = {q[j] : j \in 1..(i - 1)}
      <4>1. i - 1 = Len(q)
        BY <1>1, <2>4
      <4> QED
        BY <4>1 DEF Queues
    <3> QED
      BY <1>2, <2>2, <2>4, <3>1
  <2> QED
    BY <1>3, <2>3, <2>4
<1> QED
  BY <1>2, <1>4, <1>5, <1>6 DEF Queues

\* An owner that stops waiting, or waits for another key, leaves one order and
\* joins the other.
LEMMA QueuesKept ==
    ASSUME IInv, QueueInv, NEW o \in Owner, NEW w \in Key \cup {None}, NEW queue,
           waits' = [waits EXCEPT ![o] = w], ahead' = Unqueued(o, queue),
           w # None => queue = Waiters(w) \ {o}
    PROVE  QueueInv'
<1> SUFFICES ASSUME NEW k \in Key PROVE \E q : Queues(q, Waiters(k)', ahead')
  BY DEF QueueInv
<1>1. \A x \in Owner : /\ waits'[x] = IF x = o THEN w ELSE waits[x]
                       /\ ahead'[x] = IF x = o THEN queue ELSE ahead[x] \ {o}
  BY DEF IInv, TypeOK, Unqueued
<1>2. Waiters(k) \subseteq Owner
  BY DEF Waiters
<1>3. PICK q : Queues(q, Waiters(k), ahead)
  BY DEF QueueInv
<1>4. \A x \in Waiters(k) \ {o} : ahead'[x] = ahead[x] \ {o}
  BY <1>1, <1>2
<1>5. PICK r : Queues(r, Waiters(k) \ {o}, ahead')
  BY <1>3, <1>4, QueueLeft
<1>6. CASE w = k
  <2>1. Waiters(k)' = (Waiters(k) \ {o}) \cup {o}
    BY <1>1, <1>6 DEF Waiters
  <2>2. ahead'[o] = Waiters(k) \ {o}
    BY <1>1, <1>6, ResourceAssumption
  <2>3. \E s : Queues(s, (Waiters(k) \ {o}) \cup {o}, ahead')
    BY <1>5, <2>2, QueueJoined
  <2> QED
    BY <2>1, <2>3
<1>7. CASE w # k
  <2>1. Waiters(k)' = Waiters(k) \ {o}
    BY <1>1, <1>7 DEF Waiters
  <2> QED
    BY <1>5, <2>1
<1> QED
  BY <1>6, <1>7

LEMMA StepQueueInv == IInv /\ QueueInv /\ [Next]_vars => QueueInv'
<1> SUFFICES ASSUME IInv, QueueInv, [Next]_vars PROVE QueueInv'
  OBVIOUS
<1>1. ASSUME NEW o \in Owner, NEW S \in SUBSET Key, NEW granted, NEW stack,
             Take(o, S, granted, stack)
      PROVE  QueueInv'
  <2>1. CASE waits' = [waits EXCEPT ![o] = None] /\ ahead' = Unqueued(o, {})
    BY <2>1, QueuesKept
  <2>2. ASSUME NEW k \in S, waits' = [waits EXCEPT ![o] = k],
               ahead' = Unqueued(o, Waiters(k) \ {o})
        PROVE  QueueInv'
    BY <2>2, QueuesKept
  <2> QED
    BY <1>1, <2>1, <2>2 DEF Take
<1>2. ASSUME NEW o \in Owner, Release(o) PROVE QueueInv'
  <2>1. waits' = [waits EXCEPT ![o] = None] /\ ahead' = Unqueued(o, {})
    BY <1>2 DEF Release
  <2> QED
    BY <2>1, QueuesKept
<1>3. ASSUME NEW o \in Owner, Enter(o) PROVE QueueInv'
  BY <1>1, <1>3 DEF Enter
<1>4. ASSUME NEW o \in Owner, Wake(o) PROVE QueueInv'
  <2>1. blocks[o] \in Seq(Block) /\ Len(blocks[o]) > 0
    BY <1>4 DEF IInv, TypeOK, Wake, WaitsInBlock, Depth
  <2>2. blocks[o][Len(blocks[o])] \in Block
    BY <2>1
  <2>3. blocks[o][Depth(o)].keys \in SUBSET Key
    BY <2>2 DEF Block, Depth
  <2> QED
    BY <1>1, <1>4, <2>3 DEF Wake
<1>5. CASE UNCHANGED vars
  BY <1>5 DEF vars, QueueInv, Waiters
<1> QED
  BY <1>2, <1>3, <1>4, <1>5 DEF Next, Leave, CancelWait

\* A key that is given back while others wait for it is never left idle: one of the
\* waiters has nobody before it, whoever was cancelled in the queue meanwhile
\* (skills/resources.py, acquire(), on an asyncio.Lock).
THEOREM WakeUpsAreKept == Spec => []NoLostWakeUp
<1>1. Init => QueueInv
  <2> SUFFICES ASSUME Init, NEW k \in Key PROVE Queues(<<>>, Waiters(k), ahead)
    BY DEF QueueInv
  <2>1. Waiters(k) = {}
    BY ResourceAssumption DEF Init, Waiters
  <2>2. <<>> \in Seq(Owner) /\ 1..Len(<<>>) = {}
    BY EmptySeq
  <2> QED
    BY <2>1, <2>2 DEF Queues
<1>2. QueueInv => NoLostWakeUp
  <2> SUFFICES ASSUME QueueInv, NEW k \in Key, Waiters(k) # {}
               PROVE  \E o \in Waiters(k) : ahead[o] = {}
    BY DEF NoLostWakeUp
  <2>1. PICK q : Queues(q, Waiters(k), ahead)
    BY DEF QueueInv
  <2>2. Len(q) \in Nat
    BY <2>1, LenProperties DEF Queues
  <2>3. 1 \in 1..Len(q)
    BY <2>1, <2>2 DEF Queues
  <2>4. q[1] \in Waiters(k) /\ ahead[q[1]] = {q[j] : j \in 1..(1 - 1)}
    BY <2>1, <2>3 DEF Queues
  <2>5. 1..(1 - 1) = {}
    OBVIOUS
  <2> QED
    BY <2>4, <2>5
<1> QED
  BY <1>1, <1>2, InitIInv, StepIInv, StepQueueInv, PTL DEF Spec

=============================================================================
