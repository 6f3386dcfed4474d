--------------------------- MODULE SpeechSynthesis ---------------------------
(***************************************************************************)
(* The speech of one reply on its way from the service to the player:      *)
(* DoubaoTTSClient.synthesize_stream. The client opens a connection and an *)
(* episode, each of which the service has to confirm, sends the text in    *)
(* chunks and the end of the episode, and yields the audio it receives     *)
(* until the service has finished. The service answers the chunks with     *)
(* audio while others are still on their way, reports on its progress in   *)
(* messages the client passes over, fails, or closes the connection.       *)
(***************************************************************************)
EXTENDS Naturals, Sequences

CONSTANTS
    TextChunks,   \* chunks of the text
    MaxReports    \* bound: messages of the service that carry no speech

VARIABLES
    speaker,     \* where synthesize_stream is; in the end, how it went
    asked,       \* chunks of text sent
    finishing,   \* the end of the episode was sent
    inbox,       \* messages of the service on their way; piece: audio sent by then
    rendered,    \* pieces of audio the service has sent, one for each chunk
    service,     \* the other end: new, connected, started, finished, failed, closed
    reports,
    yielded      \* what the player got

synthesisVars == <<speaker, asked, finishing, inbox, rendered, service, reports, yielded>>

Done == {"done", "raised"}
Kinds == {"connected", "started", "audio", "silence", "report", "finished", "error"}

TypeOK ==
    /\ speaker \in {"connect", "open", "send", "receive"} \cup Done
    /\ asked \in 0..TextChunks /\ finishing \in BOOLEAN
    /\ \A i \in DOMAIN inbox : inbox[i] \in [kind : Kinds, piece : 0..TextChunks]
    /\ rendered \in 0..TextChunks
    /\ service \in {"new", "connected", "started", "finished", "failed", "closed"}
    /\ reports \in 0..MaxReports
    /\ \A i \in DOMAIN yielded : yielded[i] \in 1..TextChunks

Init ==
    /\ speaker = "connect" /\ asked = 0 /\ finishing = FALSE
    /\ inbox = <<>> /\ rendered = 0 /\ service = "new" /\ reports = 0
    /\ yielded = <<>>

own == <<speaker, asked, finishing, yielded>>

-----------------------------------------------------------------------------
(* The service.                                                            *)
Sends(kind, piece) == inbox' = Append(inbox, [kind |-> kind, piece |-> piece])

Connected ==
    /\ service = "new" /\ service' = "connected" /\ Sends("connected", 0)
    /\ UNCHANGED <<rendered, reports, own>>

Started ==
    /\ service = "connected" /\ speaker = "open" /\ service' = "started" /\ Sends("started", 0)
    /\ UNCHANGED <<rendered, reports, own>>

(* The speech for a chunk that has arrived.                                *)
Render ==
    /\ service = "started" /\ rendered < asked
    /\ rendered' = rendered + 1 /\ Sends("audio", rendered')
    /\ UNCHANGED <<service, reports, own>>

Finished ==
    /\ service = "started" /\ finishing /\ rendered = asked
    /\ service' = "finished" /\ Sends("finished", rendered)
    /\ UNCHANGED <<rendered, reports, own>>

(* A report, or audio without content, at any time.                        *)
Report ==
    /\ service \in {"new", "connected", "started"} /\ reports < MaxReports
    /\ reports' = reports + 1 /\ \E kind \in {"silence", "report"} : Sends(kind, rendered)
    /\ UNCHANGED <<rendered, service, own>>

Fail ==
    /\ service \in {"new", "connected", "started"} /\ service' = "failed"
    /\ Sends("error", rendered)
    /\ UNCHANGED <<rendered, reports, own>>

Close ==
    /\ service # "closed" /\ service' = "closed"
    /\ UNCHANGED <<inbox, rendered, reports, own>>

-----------------------------------------------------------------------------
(* The client.                                                             *)
Goto(from, to) == speaker = from /\ speaker' = to
Reads(kind) == inbox # <<>> /\ Head(inbox).kind = kind /\ inbox' = Tail(inbox)

ExpectConnected ==
    /\ Goto("connect", "open") /\ Reads("connected")
    /\ UNCHANGED <<asked, finishing, rendered, service, reports, yielded>>

ExpectStarted ==
    /\ Goto("open", "send") /\ Reads("started")
    /\ UNCHANGED <<asked, finishing, rendered, service, reports, yielded>>

SendText ==
    /\ speaker = "send" /\ asked < TextChunks /\ asked' = asked + 1
    /\ UNCHANGED <<speaker, finishing, inbox, rendered, service, reports, yielded>>

FinishEpisode ==
    /\ Goto("send", "receive") /\ asked = TextChunks /\ finishing' = TRUE
    /\ UNCHANGED <<asked, inbox, rendered, service, reports, yielded>>

Yield ==
    /\ speaker = "receive" /\ Reads("audio")
    /\ yielded' = Append(yielded, Head(inbox).piece)
    /\ UNCHANGED <<speaker, asked, finishing, rendered, service, reports>>

PassOver ==
    /\ speaker = "receive" /\ \E kind \in {"silence", "report"} : Reads(kind)
    /\ UNCHANGED <<speaker, asked, finishing, rendered, service, reports, yielded>>

ReadFinished ==
    /\ Goto("receive", "done") /\ Reads("finished")
    /\ UNCHANGED <<asked, finishing, rendered, service, reports, yielded>>

(* What comes is not what is expected, or an error, or the end of the      *)
(* connection.                                                             *)
Raise ==
    /\ \/ speaker = "connect" /\ inbox # <<>> /\ Head(inbox).kind # "connected"
       \/ speaker = "open" /\ inbox # <<>> /\ Head(inbox).kind # "started"
       \/ speaker = "receive" /\ inbox # <<>> /\ Head(inbox).kind = "error"
       \/ speaker \notin Done /\ service = "closed" /\ (inbox = <<>> \/ speaker = "send")
    /\ speaker' = "raised"
    /\ UNCHANGED <<asked, finishing, inbox, rendered, service, reports, yielded>>

(* The player fails at a piece, or the channel stops: no more is read.     *)
Abandon ==
    /\ speaker \notin Done /\ speaker' = "raised"
    /\ UNCHANGED <<asked, finishing, inbox, rendered, service, reports, yielded>>

Next ==
    \/ Connected \/ Started \/ Render \/ Finished \/ Report \/ Fail \/ Close
    \/ ExpectConnected \/ ExpectStarted \/ SendText \/ FinishEpisode
    \/ Yield \/ PassOver \/ ReadFinished \/ Raise \/ Abandon

Spec == Init /\ [][Next]_synthesisVars

-----------------------------------------------------------------------------
(* The player gets the speech of the text from its beginning, in order and *)
(* without a gap, also when it begins while the text is still being sent;  *)
(* a stream that ends without an exception has brought all of it.          *)
InOrder == \A i \in DOMAIN yielded : yielded[i] = i
SpeechIsWhole == InOrder /\ (speaker = "done" => Len(yielded) = TextChunks)
=============================================================================
