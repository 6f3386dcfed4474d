----------------------------- MODULE MediaStore -----------------------------
(***************************************************************************)
(* One kind of objects in LocalMediaStore: pictures, artifacts or uploads. *)
(* The processes of a deployment that share the media root put objects     *)
(* into it with no lock between them. A put writes a file under a name of  *)
(* its own, reads it back for size and digest, lists all files of its kind *)
(* by the time they were last written, and unlinks the oldest of them      *)
(* beyond max_items one by one; then it hands out the reference. A put may *)
(* fail, find its own file gone, or die between any two steps. Objects are *)
(* numbered as they are named; two files never carry the same time.        *)
(***************************************************************************)
EXTENDS Naturals, FiniteSets

CONSTANTS
    Putters,    \* processes that put objects of this kind
    MaxKept,    \* max_items
    MaxMade,    \* bound: objects
    MaxBroken   \* bound: puts that fail half way, or die

VARIABLES
    made,     \* objects named so far
    there,    \* the files in the directory
    born,     \* when the file of an object was created
    written,  \* when it was last written: its mtime
    clock,
    put,      \* what each process is doing
    refs,     \* objects whose reference was handed out
    left,     \* history: what broken puts have left since the last listing
    broken    \* puts that broke off

mediaVars == <<made, there, born, written, clock, put, refs, left, broken>>

MediaIds == 1..MaxMade
NoMedia == 0
Idle == [at |-> "idle", object |-> NoMedia, doomed |-> {}]

TypeOK ==
    /\ made \in 0..MaxMade /\ there \subseteq 1..made /\ refs \subseteq 1..made
    /\ born \in [MediaIds -> Nat] /\ written \in [MediaIds -> Nat] /\ clock \in Nat
    /\ put \in [Putters -> [at : {"idle", "write", "seal", "list", "evict"},
                            object : 0..MaxMade, doomed : SUBSET MediaIds]]
    /\ left \subseteq 1..made /\ broken \in 0..MaxBroken

Init ==
    /\ made = 0 /\ there = {} /\ refs = {}
    /\ born = [o \in MediaIds |-> 0] /\ written = [o \in MediaIds |-> 0] /\ clock = 0
    /\ put = [p \in Putters |-> Idle]
    /\ left = {} /\ broken = 0

Goto(p, step) == put' = [put EXCEPT ![p].at = step]
files == <<made, there, born, written, clock>>
history == <<left, broken>>

-----------------------------------------------------------------------------
(* Writing. The file is there, and as old as its creation, before all of   *)
(* it is written.                                                          *)
Create(p) ==
    /\ put[p].at = "idle" /\ made < MaxMade
    /\ LET o == made + 1 IN
       /\ made' = o /\ there' = there \cup {o}
       /\ born' = [born EXCEPT ![o] = clock + 1]
       /\ written' = [written EXCEPT ![o] = clock + 1]
       /\ put' = [put EXCEPT ![p] = [Idle EXCEPT !.at = "write", !.object = o]]
    /\ clock' = clock + 1
    /\ UNCHANGED <<refs, history>>

(* A file that was unlinked in the meantime is written to all the same.    *)
Write(p) ==
    /\ put[p].at = "write" /\ Goto(p, "seal")
    /\ written' = [written EXCEPT ![put[p].object] = clock + 1]
    /\ clock' = clock + 1
    /\ UNCHANGED <<made, there, born, refs, history>>

(* Size and digest are read from the file.                                 *)
Seal(p) ==
    /\ put[p].at = "seal" /\ put[p].object \in there /\ Goto(p, "list")
    /\ UNCHANGED <<files, refs, history>>

SealFails(p) ==
    /\ put[p].at = "seal" /\ put[p].object \notin there
    /\ put' = [put EXCEPT ![p] = Idle]
    /\ UNCHANGED <<files, refs, history>>

-----------------------------------------------------------------------------
(* _enforce_limit. *)
After(o, all) == {other \in all : written[other] > written[o]}

(* The files that at least max_items files follow in the order of time.    *)
Overflow == {o \in there : Cardinality(After(o, there)) >= MaxKept}

List(p) ==
    /\ put[p].at = "list"
    /\ put' = [put EXCEPT ![p].at = "evict", ![p].doomed = Overflow]
    /\ left' = {}
    /\ UNCHANGED <<files, refs, broken>>

(* Another process may have unlinked it before.                            *)
Evict(p, o) ==
    /\ put[p].at = "evict" /\ o \in put[p].doomed
    /\ there' = there \ {o}
    /\ put' = [put EXCEPT ![p].doomed = @ \ {o}]
    /\ UNCHANGED <<made, born, written, clock, refs, history>>

HandOut(p) ==
    /\ put[p].at = "evict" /\ put[p].doomed = {}
    /\ refs' = refs \cup {put[p].object}
    /\ put' = [put EXCEPT ![p] = Idle]
    /\ UNCHANGED <<files, history>>

(* The process dies, or the disk is full: the files that were still to go  *)
(* stay, and so does its own, unless the failing writer takes it away.     *)
Break(p) ==
    /\ put[p].at # "idle" /\ broken < MaxBroken
    /\ broken' = broken + 1
    /\ \/ there' = there
       \/ put[p].at = "write" /\ there' = there \ {put[p].object}
    /\ left' = left \cup {put[p].object} \cup put[p].doomed
    /\ put' = [put EXCEPT ![p] = Idle]
    /\ UNCHANGED <<made, born, written, clock, refs>>

Next ==
    \E p \in Putters :
        \/ Create(p) \/ Write(p) \/ Seal(p) \/ SealFails(p) \/ List(p)
        \/ \E o \in MediaIds : Evict(p, o)
        \/ HandOut(p) \/ Break(p)

Spec == Init /\ [][Next]_mediaVars

-----------------------------------------------------------------------------
(* What a reader finds under a reference: path_for_uri.                    *)
Resolves(o) == o \in there

(* A reference that was handed out resolves until max_items other objects  *)
(* were written since its own file appeared: no order of two processes'    *)
(* listings and unlinks takes a newer object away.                         *)
Newer(o) == {other \in (1..made) \ {o} : written[other] > born[o]}
NewestAreKept == \A o \in refs : Resolves(o) \/ Cardinality(Newer(o)) >= MaxKept

(* Once no put is under way at most max_items objects are there, besides   *)
(* what broken puts have left since the last listing.                      *)
Quiet == \A p \in Putters : put[p].at = "idle"
LimitIsKept == Quiet => Cardinality(there \ left) <= MaxKept
=============================================================================
