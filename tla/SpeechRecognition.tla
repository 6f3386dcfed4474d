-------------------------- MODULE SpeechRecognition --------------------------
(***************************************************************************)
(* One utterance on its way to a text. DoubaoASRClient sends it over a     *)
(* websocket in chunks, the last one marked, takes what answers there are  *)
(* after each chunk and, after the last, waits for the answer marked last  *)
(* or for a silence of timeout_sec. The service answers in between with    *)
(* hypotheses, may answer with an error and closes the connection. The     *)
(* streaming engine decodes what the microphone hears as it hears it; the  *)
(* other clients hand over the whole utterance in one call. A text is      *)
(* named by how much of the utterance it covers, 0 being the empty one.    *)
(***************************************************************************)
EXTENDS Naturals, Sequences

CONSTANTS
    Pieces,       \* chunks of the utterance; reads of the microphone at most
    MaxQuiet,     \* reads without a new text that end an utterance (listen_timeout_sec)
    MaxAnswers    \* bound: answers of the service

VARIABLES
    client,    \* what the recognizer's client does; in the end, how it went
    piece,     \* chunks sent, or reads done
    quiet,     \* reads since the text changed
    text,      \* latest_text, current_text; in the end what the caller gets
    service,   \* the other end: listens, ended (its last answer is out), closed
    wire,      \* its answers on their way
    answers,
    said,      \* history: the last text that is not empty among the answers so far
    end        \* history: the answer marked last was read, or given up, or neither

recognitionVars == <<client, piece, quiet, text, service, wire, answers, said, end>>

Texts == 0..Pieces
Answers == [kind : {"response", "other", "error"}, text : Texts, last : BOOLEAN]
Online == {"doubao", "drain", "final"}
Done == {"text", "raised", "cancelled"}

TypeOK ==
    /\ client \in Online \cup {"streaming", "call"} \cup Done
    /\ piece \in Texts /\ quiet \in 0..(MaxQuiet + 1) /\ text \in Texts
    /\ service \in {"listens", "ended", "closed"}
    /\ \A i \in DOMAIN wire : wire[i] \in Answers
    /\ answers \in 0..MaxAnswers
    /\ said \in Texts /\ end \in {"open", "last", "silent"}

Init ==
    /\ client \in {"doubao", "streaming", "call"}
    /\ piece = 0 /\ quiet = 0 /\ text = 0
    /\ service = "listens" /\ wire = <<>> /\ answers = 0
    /\ said = 0 /\ end = "open"

peer == <<service, wire, answers, said>>
own == <<client, piece, quiet, text, end>>
Latest(old, new) == IF new = 0 THEN old ELSE new

-----------------------------------------------------------------------------
(* The service answers with what it makes of the chunks it has heard.      *)
Send(answer) ==
    /\ client \in Online /\ service = "listens" /\ answers < MaxAnswers
    /\ wire' = Append(wire, answer) /\ answers' = answers + 1
    /\ said' = IF answer.kind = "response" THEN Latest(said, answer.text) ELSE said

Hypothesis(t) ==
    /\ t <= piece /\ Send([kind |-> "response", text |-> t, last |-> FALSE])
    /\ UNCHANGED <<service, own>>

LastAnswer(t) ==
    /\ t <= piece /\ Send([kind |-> "response", text |-> t, last |-> TRUE])
    /\ service' = "ended" /\ UNCHANGED own

Acknowledge ==
    /\ Send([kind |-> "other", text |-> 0, last |-> FALSE])
    /\ UNCHANGED <<service, own>>

Refuse ==
    /\ Send([kind |-> "error", text |-> 0, last |-> FALSE])
    /\ service' = "ended" /\ UNCHANGED own

Close ==
    /\ client \in Online /\ service # "closed" /\ service' = "closed"
    /\ UNCHANGED <<wire, answers, said, own>>

-----------------------------------------------------------------------------
(* DoubaoASRClient. *)
SendChunk ==
    /\ client = "doubao" /\ client' = "drain" /\ piece' = piece + 1
    /\ UNCHANGED <<quiet, text, end, peer>>

GoOn == client' = IF piece = Pieces THEN "final" ELSE "doubao"

Arrives(kind) ==
    /\ client \in {"drain", "final"} /\ wire # <<>> /\ Head(wire).kind = kind
    /\ wire' = Tail(wire)

(* An answer is read. The one marked last ends the wait for others.        *)
Read ==
    /\ Arrives("response") /\ text' = Latest(text, Head(wire).text)
    /\ end' = IF Head(wire).last THEN "last" ELSE end
    /\ IF ~Head(wire).last THEN UNCHANGED client
       ELSE IF client = "final" THEN client' = "text" ELSE GoOn
    /\ UNCHANGED <<piece, quiet, service, answers, said>>

PassOver ==
    /\ Arrives("other")
    /\ UNCHANGED <<own, service, answers, said>>

(* Nothing came for 10 ms.                                                 *)
NothingYet ==
    /\ client = "drain" /\ GoOn
    /\ UNCHANGED <<piece, quiet, text, end, peer>>

(* Nothing came for timeout_sec: what there is will do.                    *)
Timeout ==
    /\ client = "final" /\ client' = "text"
    /\ end' = IF end = "last" THEN end ELSE "silent"
    /\ UNCHANGED <<piece, quiet, text, peer>>

(* An error was answered, the connection is gone, or a local one failed.   *)
Raise ==
    /\ \/ client \in {"drain", "final"} /\ wire # <<>> /\ Head(wire).kind = "error"
       \/ client \in {"drain", "final"} /\ wire = <<>> /\ service = "closed"
       \/ client \in {"doubao", "streaming", "call"}
    /\ client' = "raised"
    /\ UNCHANGED <<piece, quiet, text, end, peer>>

-----------------------------------------------------------------------------
(* SherpaStreamingVoiceEngine: one read, and the text decoded by then. It  *)
(* ends with a text and a silence, or with max_speech_sec.                 *)
Hear(t) ==
    /\ client = "streaming" /\ t <= piece + 1
    /\ piece' = piece + 1 /\ text' = Latest(text, t) /\ said' = Latest(said, t)
    /\ quiet' = IF text' # text \/ text' = 0 THEN 0 ELSE quiet + 1
    /\ client' = IF quiet' > MaxQuiet \/ piece' = Pieces THEN "text" ELSE client
    /\ UNCHANGED <<service, wire, answers, end>>

(* SherpaONNXASRClient and OpenAIASRClient. *)
Call(t) ==
    /\ client = "call" /\ t \in {0, Pieces} /\ client' = "text"
    /\ text' = t /\ said' = t
    /\ UNCHANGED <<piece, quiet, service, wire, answers, end>>

(* The voice channel stops, and cancels its task.                          *)
Cancel ==
    /\ client \notin Done /\ client' = "cancelled"
    /\ UNCHANGED <<piece, quiet, text, end, peer>>

Next ==
    \/ \E t \in Texts : Hypothesis(t) \/ LastAnswer(t) \/ Hear(t) \/ Call(t)
    \/ Acknowledge \/ Refuse \/ Close
    \/ SendChunk \/ Read \/ PassOver \/ NothingYet \/ Timeout \/ Raise \/ Cancel

Spec == Init /\ [][Next]_recognitionVars

-----------------------------------------------------------------------------
(* No hypothesis is handed on as the text of an utterance that the service *)
(* is still busy with: however its answers fall between the chunks and the *)
(* waits, the text is the last one it gave. Only when the service falls    *)
(* silent before its last answer, what there is by then is taken.          *)
UtteranceIsWhole == client = "text" /\ end # "silent" => text = said
=============================================================================
