------------------------------ MODULE WebChat ------------------------------
(***************************************************************************)
(* The web channel and the chat page: one reply, streamed in parts and     *)
(* closed by its whole text, is sent to every websocket the channel knows. *)
(* The loop over the websockets awaits each send while connections come    *)
(* and go; a set that changed its size ends it with an exception. A page   *)
(* puts the frames of a reply together by their stream key, reconnects     *)
(* after a lost connection without asking for what it missed, asks over    *)
(* HTTP and polls while it has no connection. All pages show one chat.     *)
(* Runtime events, sent by a loop like that of a reply and shown apart     *)
(* from it, and the history of a new page are left out.                    *)
(***************************************************************************)
EXTENDS Naturals, Sequences, FiniteSets, Functions

CONSTANTS
    Pages,         \* the browser pages
    Parts,         \* how many parts the reply has
    MaxConnects    \* bound: connections of a page, and of all pages together

VARIABLES
    link,       \* is the page connected
    connects,   \* connections a page has had; the last one may be open
    known,      \* WebChannel._websockets
    wire,       \* frames on their way on a websocket
    sent,       \* parts of the reply sent so far
    stored,     \* WebChannel._replies has the reply
    loop,       \* the loop of send over the websockets
    asked,      \* somebody asked: the agent answers
    polling,    \* the page polls /replies/recent
    shown,      \* the reply under its stream key on the page
    polled      \* the page shows the reply that the poll found

chatVars == <<link, connects, known, wire, sent, stored, loop, asked, polling, shown,
              polled>>

Sockets == Pages \X (1..MaxConnects)
Whole == [i \in 1..Parts |-> i]
Delta(i) == [final |-> FALSE, text |-> <<i>>]
Final == [final |-> TRUE, text |-> Whole]
Frames == {Delta(i) : i \in 1..Parts} \cup {Final}
NoLoop == [on |-> FALSE, frame |-> Final, over |-> {}, visited |-> {}, stale |-> {}]
Nothing == [final |-> FALSE, text |-> <<>>]

TypeOK ==
    /\ link \in [Pages -> BOOLEAN] /\ connects \in [Pages -> 0..MaxConnects]
    /\ known \subseteq Sockets
    /\ \A s \in Sockets : Range(wire[s]) \subseteq Frames
    /\ sent \in 0..(Parts + 1) /\ stored \in BOOLEAN
    /\ loop.on \in BOOLEAN /\ loop.frame \in Frames
    /\ loop.over \cup loop.visited \cup loop.stale \subseteq Sockets
    /\ asked \in BOOLEAN /\ polling \in [Pages -> BOOLEAN]
    /\ shown \in [Pages -> [final : BOOLEAN, text : Seq(1..Parts)]]
    /\ polled \in [Pages -> BOOLEAN]

Init ==
    /\ link = [p \in Pages |-> FALSE] /\ connects = [p \in Pages |-> 0]
    /\ known = {} /\ wire = [s \in Sockets |-> <<>>]
    /\ sent = 0 /\ stored = FALSE /\ loop = NoLoop
    /\ asked = FALSE /\ polling = [p \in Pages |-> FALSE]
    /\ shown = [p \in Pages |-> Nothing] /\ polled = [p \in Pages |-> FALSE]

page == <<polling, shown, polled>>
reply == <<sent, stored, asked>>

-----------------------------------------------------------------------------
(* Connections. The channel learns of a lost one later: from its receive,  *)
(* or from a send that fails.                                              *)
Socket(p) == <<p, connects[p]>>
Open(s) == link[s[1]] /\ s = Socket(s[1])

Connect(p) ==
    /\ ~link[p]
    /\ connects[p] < MaxConnects /\ FoldFunction(+, 0, connects) < MaxConnects
    /\ link' = [link EXCEPT ![p] = TRUE]
    /\ connects' = [connects EXCEPT ![p] = @ + 1]
    /\ known' = known \cup {<<p, connects[p] + 1>>}
    /\ UNCHANGED <<wire, reply, loop, page>>

Drop(p) ==
    /\ link[p] /\ link' = [link EXCEPT ![p] = FALSE]
    /\ wire' = [wire EXCEPT ![Socket(p)] = <<>>]
    /\ UNCHANGED <<connects, known, reply, loop, page>>

NoticeDrop(s) ==
    /\ s \in known /\ ~Open(s) /\ known' = known \ {s}
    /\ UNCHANGED <<link, connects, wire, reply, loop, page>>

(* A reloaded page starts empty.                                           *)
Reload(p) ==
    /\ ~link[p] /\ shown' = [shown EXCEPT ![p] = Nothing]
    /\ polled' = [polled EXCEPT ![p] = FALSE] /\ polling' = [polling EXCEPT ![p] = FALSE]
    /\ UNCHANGED <<link, connects, known, wire, reply, loop>>

-----------------------------------------------------------------------------
(* The channel. A reply is stored before it is sent, when it is final.     *)
SendReply ==
    /\ asked /\ sent <= Parts /\ ~loop.on
    /\ loop' = [NoLoop EXCEPT !.on = TRUE, !.over = known,
                              !.frame = IF sent = Parts THEN Final ELSE Delta(sent + 1)]
    /\ sent' = sent + 1 /\ stored' = (sent = Parts)
    /\ UNCHANGED <<link, connects, known, wire, asked, page>>

(* The next websocket of the loop. The order is that of a Python set.      *)
Changed == Cardinality(known) # Cardinality(loop.over)
Left == known \ loop.visited

Step(s) ==
    /\ loop.on /\ ~Changed /\ s \in Left
    /\ wire' = IF Open(s) THEN [wire EXCEPT ![s] = Append(@, loop.frame)] ELSE wire
    /\ loop' = [loop EXCEPT !.visited = @ \cup {s},
                            !.stale = IF Open(s) THEN @ ELSE @ \cup {s}]
    /\ UNCHANGED <<link, connects, known, reply, page>>

(* One that was added for one that went may be passed over.                *)
EndLoop ==
    /\ loop.on /\ ~Changed /\ (Left = {} \/ known # loop.over)
    /\ known' = known \ loop.stale /\ loop' = NoLoop
    /\ UNCHANGED <<link, connects, wire, reply, page>>

BreakLoop ==
    /\ loop.on /\ Changed /\ loop' = NoLoop
    /\ UNCHANGED <<link, connects, known, wire, reply, page>>

-----------------------------------------------------------------------------
(* The page.                                                               *)
\* mutant: every frame is appended to what is shown
AppendsAll(now, frame) == now.text \o frame.text

(* A part is appended, the final text replaces the parts.                  *)
Text(now, frame) == IF frame.final THEN frame.text ELSE now.text \o frame.text

Upsert(now, frame) == [final |-> frame.final, text |-> Text(now, frame)]

Read(p) ==
    /\ link[p] /\ wire[Socket(p)] # <<>>
    /\ shown' = [shown EXCEPT ![p] = Upsert(@, Head(wire[Socket(p)]))]
    /\ wire' = [wire EXCEPT ![Socket(p)] = Tail(@)]
    /\ UNCHANGED <<link, connects, known, reply, loop, polling, polled>>

(* Over the websocket, or over HTTP with a poll for the reply.             *)
Ask(p) ==
    /\ ~asked /\ asked' = TRUE
    /\ polling' = [polling EXCEPT ![p] = ~link[p]]
    /\ UNCHANGED <<link, connects, known, wire, sent, stored, loop, shown, polled>>

(* What /replies/recent finds for a turn: final replies only.              *)
recent_replies == stored

(* The poll adds a message of its own, or gives up.                        *)
Poll(p) ==
    /\ polling[p] /\ polling' = [polling EXCEPT ![p] = FALSE]
    /\ polled' = [polled EXCEPT ![p] = recent_replies]
    /\ UNCHANGED <<link, connects, known, wire, reply, loop, shown>>

-----------------------------------------------------------------------------
Next ==
    \/ \E p \in Pages : Connect(p) \/ Drop(p) \/ Reload(p) \/ Read(p) \/ Ask(p) \/ Poll(p)
    \/ \E s \in Sockets : NoticeDrop(s) \/ Step(s)
    \/ SendReply \/ EndLoop \/ BreakLoop

Spec == Init /\ [][Next]_chatVars

-----------------------------------------------------------------------------
(* Whatever parts a page missed, and however often it came back: what it   *)
(* shows as a finished reply is the whole text, once.                      *)
FinalIsWhole == \A p \in Pages : shown[p].final => shown[p].text = Whole
=============================================================================
