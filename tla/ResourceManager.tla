--------------------------- MODULE ResourceManager ---------------------------
(***************************************************************************)
(* skills/resources.py: exclusive, re-entrant ownership of resource keys.  *)
(* An owner enters nested acquire() blocks; each takes its keys in sorted  *)
(* order, waiting on the asyncio.Lock of a key it does not own yet, and    *)
(* gives them back when the block is left.  _owners[key] is the dictionary *)
(* that tells an owner it may re-enter: acquire() looks it up before it    *)
(* waits and writes to it afterwards, and releasing a key drops it.        *)
(***************************************************************************)
EXTENDS Integers, Sequences, FiniteSets

CONSTANTS
    Owner,     \* owners (run ids)
    Key,       \* resource keys of a robot, numbered in sort order
    None,      \* no owner, no key
    MaxDepth   \* bound: nesting of acquire() blocks of one owner

ASSUME ResourceAssumption ==
    /\ Key \subseteq Nat
    /\ None \notin Owner \cup Key
    /\ MaxDepth \in Nat \ {0}

VARIABLES
    holder,   \* who holds the asyncio.Lock of each key
    owners,   \* the counts in the dictionary _owners[key] now holds
    blocks,   \* of each owner, the acquire() blocks it is in, outermost first
    waits,    \* the key an owner's innermost acquire() is suspended on
    stale,    \* suspended owners whose dictionary is no longer in _owners
    ahead     \* of a suspended owner, the lock's earlier waiters

vars == <<holder, owners, blocks, waits, stale, ahead>>

Block == [keys : SUBSET Key, acquired : SUBSET Key]

Init ==
    /\ holder = [k \in Key |-> None]
    /\ owners = [k \in Key |-> [o \in Owner |-> 0]]
    /\ blocks = [o \in Owner |-> <<>>]
    /\ waits = [o \in Owner |-> None]
    /\ stale = {}
    /\ ahead = [o \in Owner |-> {}]

-----------------------------------------------------------------------------
Depth(o) == Len(blocks[o])
Waiters(k) == {o \in Owner : waits[o] = k}

\* mutant: the lock is not waited for
FreeForAnyone(k) == TRUE

\* Lock.acquire() returns at once: the lock is free and nobody queues for it.
Free(k) == holder[k] = None /\ Waiters(k) = {}

\* The keys of S taken before the first one that suspends: keys the dictionary
\* shows the owner to have already, free locks, and the one just handed over.
Obtained(o, S, granted) ==
    {k \in S : \A j \in S : j <= k =>
        j \in granted \/ owners[j][o] > 0 \/ Free(j)}

\* mutant: a waiter that is cancelled stays in front of the others
UnqueuedLate(o, queue) ==
    [x \in Owner |-> IF x = o THEN queue ELSE ahead[x]]

\* An owner leaves the queue it was in, and stands behind queue in another one.
Unqueued(o, queue) ==
    [x \in Owner |-> IF x = o THEN queue ELSE ahead[x] \ {o}]

\* The loop of acquire() over the keys S still to take for the innermost block of
\* stack; an owner woken with a stale dictionary counts the granted key in vain.
Take(o, S, granted, stack) ==
    LET got  == Obtained(o, S, granted)
        rest == S \ got
        lost == IF o \in stale THEN granted ELSE {}
        top  == Len(stack)
    IN  /\ holder' = [k \in Key |-> IF k \in got THEN o ELSE holder[k]]
        /\ owners' = [k \in Key |-> IF k \in got \ lost
                                    THEN [owners[k] EXCEPT ![o] = @ + 1]
                                    ELSE owners[k]]
        /\ blocks' = [blocks EXCEPT ![o] =
                         [stack EXCEPT ![top].acquired = @ \cup got]]
        /\ stale' = stale \ {o}
        /\ \/ /\ rest = {}
              /\ waits' = [waits EXCEPT ![o] = None]
              /\ ahead' = Unqueued(o, {})
           \/ \E k \in rest :
                 /\ \A j \in rest : k <= j
                 /\ waits' = [waits EXCEPT ![o] = k]
                 /\ ahead' = Unqueued(o, Waiters(k) \ {o})

\* async with acquire(...): the owner opens a block.
Enter(o) ==
    /\ waits[o] = None
    /\ Depth(o) < MaxDepth
    /\ \E S \in SUBSET Key \ {{}} :
          Take(o, S, {}, Append(blocks[o], [keys |-> S, acquired |-> {}]))

\* A released lock resumes its first waiter.
Wake(o) ==
    /\ waits[o] # None
    /\ holder[waits[o]] = None
    /\ ahead[o] = {}
    /\ LET b == blocks[o][Depth(o)]
       IN  Take(o, b.keys \ b.acquired, {waits[o]}, blocks[o])

\* mutant: the count is stored back whatever it is
CountLeftUnchecked(count) == count - 1

\* What releasing a key once leaves of its owner's count; no entry counts as 0.
CountLeft(count) == IF count > 1 THEN count - 1 ELSE 0

\* finally: the innermost block gives back what it acquired; a key whose count is
\* used up loses its dictionary and its lock.
Release(o) ==
    LET mine == blocks[o][Depth(o)].acquired
        gone == {k \in mine : /\ CountLeft(owners[k][o]) = 0
                              /\ \A x \in Owner \ {o} : owners[k][x] = 0}
    IN  /\ holder' = [k \in Key |-> IF k \in gone THEN None ELSE holder[k]]
        /\ owners' = [k \in Key |->
                         IF k \in mine THEN [owners[k] EXCEPT ![o] = CountLeft(@)]
                         ELSE owners[k]]
        /\ blocks' = [blocks EXCEPT ![o] = SubSeq(@, 1, Depth(o) - 1)]
        /\ stale' = (stale \cup {x \in Owner : waits[x] \in gone}) \ {o}
        /\ waits' = [waits EXCEPT ![o] = None]
        /\ ahead' = Unqueued(o, {})

\* The body of the innermost block ends.
Leave(o) ==
    /\ waits[o] = None
    /\ Depth(o) > 0
    /\ Release(o)

\* The owner is cancelled while it waits.
CancelWait(o) ==
    /\ waits[o] # None
    /\ Release(o)

Next == \E o \in Owner : Enter(o) \/ Wake(o) \/ Leave(o) \/ CancelWait(o)

Spec == Init /\ [][Next]_vars

-----------------------------------------------------------------------------
Acquired(o) == UNION {blocks[o][i].acquired : i \in 1..Depth(o)}

TypeOK ==
    /\ holder \in [Key -> Owner \cup {None}]
    /\ owners \in [Key -> [Owner -> Nat]]
    /\ blocks \in [Owner -> Seq(Block)]
    /\ \A o \in Owner : Depth(o) <= MaxDepth
    /\ waits \in [Owner -> Key \cup {None}]
    /\ stale \in SUBSET Owner
    /\ ahead \in [Owner -> SUBSET Owner]

\* acquire() excludes other owners for as long as a block is open, although the
\* count of an owner that had to wait is written to a dictionary nobody reads: a key
\* is acquired in some block of exactly the owner that holds its lock.
Exclusive ==
    \A k \in Key, o \in Owner : k \in Acquired(o) <=> holder[k] = o

\* A released lock is never left idle with a queue: a free key that somebody waits
\* for has a waiter with nobody before it, which the event loop resumes.
NoLostWakeUp ==
    \A k \in Key : holder[k] = None /\ Waiters(k) # {} =>
        \E o \in Waiters(k) : ahead[o] = {}

\* skills/resources.py:1, "Re-entrant resource ownership for nested skills": an owner
\* never waits for a key it owns itself.
NestedBlocksReenter ==
    \A o \in Owner : waits[o] # None => holder[waits[o]] # o
=============================================================================
