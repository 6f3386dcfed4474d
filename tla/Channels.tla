------------------------------ MODULE Channels -------------------------------
(***************************************************************************)
(* The gateway and the channels of the conversation side by side: message  *)
(* processing, the replies of Feishu and of the web page, the voice loop,  *)
(* the recognition and the synthesis of speech and its player. They share  *)
(* no variable, so a step of one leaves the others alone.                  *)
(***************************************************************************)
EXTENDS Naturals

CONSTANTS
    \* Gateway
    Msgs, Kind, Sender, WithMedia, User, Account, NoOne, MaxSeen, MaxDeliveries,
    MaxCrashes, MaxAnswers,
    \* FeishuReply
    MaxAttempts, Attachments, MaxReplies,
    \* WebChat
    Pages, ReplyParts, MaxConnects,
    \* VoiceLoop
    Speech, Clarify, MaxErrors, MaxUtterances,
    \* PcmPlayer
    MaxQueue, MaxChunks,
    \* SpeechRecognition
    Pieces, MaxQuiet, MaxHeard,
    \* SpeechSynthesis
    TextChunks, MaxReports

(* What is counted, and the bounds of the counts. A post is attempted, and *)
(* a capture begun, at least once; there is speech to recognize.           *)
ASSUME ChannelsAssumption ==
    /\ MaxAttempts \in Nat \ {0} /\ MaxErrors \in Nat \ {0} /\ Pieces \in Nat \ {0}
    /\ MaxSeen \in Nat /\ MaxCrashes \in Nat /\ MaxAnswers \in Nat
    /\ Attachments \in Nat /\ MaxReplies \in Nat
    /\ ReplyParts \in Nat /\ MaxConnects \in Nat
    /\ MaxUtterances \in Nat /\ MaxQueue \in Nat /\ MaxChunks \in Nat
    /\ MaxQuiet \in Nat /\ MaxHeard \in Nat
    /\ TextChunks \in Nat /\ MaxReports \in Nat

VARIABLES
    gatewayUp, agentUp, pc, claim, seen, keys, pending, saved, receipts,
    gatewayHistory, turns, gatewayControls, gatewayResults, replies, sending,
    answers, open, published, answered, claims, gatewayCrashes,   \* Gateway
    reply, feishuPart, feishuAt, attempt, threaded, chat, ackAt,   \* FeishuReply
    link, connects, known, wire, sent, webStored, webLoop, webAsked, polling,
    shown, polled,   \* WebChat
    voiceLoop, errors, safe, voiceTalk, guards, guard, echoTime, voiceSession,
    heard, quit,   \* VoiceLoop
    synth, pcm, unfinished, writer, put, written, device,   \* PcmPlayer
    recognizer, piece, quiet, heardText, asrService, asrWire, asrAnswers, said,
    asrEnd,   \* SpeechRecognition
    speaker, chunksAsked, finishing, inbox, rendered, ttsService, reports,
    yielded   \* SpeechSynthesis

Gw == INSTANCE Gateway WITH
    None <- NoOne, up <- gatewayUp, history <- gatewayHistory, controls <- gatewayControls,
    results <- gatewayResults, crashes <- gatewayCrashes
Fr == INSTANCE FeishuReply WITH
    part <- feishuPart, at <- feishuAt
Wc == INSTANCE WebChat WITH
    Parts <- ReplyParts, stored <- webStored, loop <- webLoop, asked <- webAsked
Vl == INSTANCE VoiceLoop WITH
    None <- NoOne, loop <- voiceLoop, talk <- voiceTalk, session <- voiceSession
Pp == INSTANCE PcmPlayer
Sr == INSTANCE SpeechRecognition WITH
    MaxAnswers <- MaxHeard, client <- recognizer, text <- heardText,
    service <- asrService, wire <- asrWire, answers <- asrAnswers, end <- asrEnd
Ss == INSTANCE SpeechSynthesis WITH
    asked <- chunksAsked, service <- ttsService

gatewayVars ==
    <<gatewayUp, agentUp, pc, claim, seen, keys, pending, saved, receipts,
      gatewayHistory, turns, gatewayControls, gatewayResults, replies,
      sending, answers, open, published, answered, claims, gatewayCrashes>>
feishuVars == <<reply, feishuPart, feishuAt, attempt, threaded, chat, ackAt>>
webVars ==
    <<link, connects, known, wire, sent, webStored, webLoop, webAsked,
      polling, shown, polled>>
voiceVars ==
    <<voiceLoop, errors, safe, voiceTalk, guards, guard, echoTime,
      voiceSession, heard, quit>>
audioVars == <<synth, pcm, unfinished, writer, put, written, device>>
recognitionVars ==
    <<recognizer, piece, quiet, heardText, asrService, asrWire, asrAnswers, said,
      asrEnd>>
synthesisVars ==
    <<speaker, chunksAsked, finishing, inbox, rendered, ttsService, reports, yielded>>
speechVars == <<recognitionVars, synthesisVars>>
channelVars ==
    <<gatewayVars, feishuVars, webVars, voiceVars, audioVars, speechVars>>

ChannelsInit ==
    /\ Gw!Init /\ Fr!Init /\ Wc!Init /\ Vl!Init /\ Pp!Init
    /\ Sr!Init /\ Ss!Init

GatewayStep ==
    Gw!Next /\ UNCHANGED <<feishuVars, webVars, voiceVars, audioVars, speechVars>>
FeishuStep ==
    Fr!Next /\ UNCHANGED <<gatewayVars, webVars, voiceVars, audioVars, speechVars>>
WebStep ==
    Wc!Next /\ UNCHANGED <<gatewayVars, feishuVars, voiceVars, audioVars, speechVars>>
VoiceStep ==
    Vl!Next /\ UNCHANGED <<gatewayVars, feishuVars, webVars, audioVars, speechVars>>
AudioStep ==
    Pp!Next /\ UNCHANGED <<gatewayVars, feishuVars, webVars, voiceVars, speechVars>>

RecognitionStep ==
    /\ Sr!Next
    /\ UNCHANGED <<gatewayVars, feishuVars, webVars, voiceVars, audioVars, synthesisVars>>
SynthesisStep ==
    /\ Ss!Next
    /\ UNCHANGED <<gatewayVars, feishuVars, webVars, voiceVars, audioVars, recognitionVars>>

ChannelsNext ==
    \/ GatewayStep \/ FeishuStep \/ WebStep \/ VoiceStep \/ AudioStep
    \/ RecognitionStep \/ SynthesisStep

ChannelsSpec == ChannelsInit /\ [][ChannelsNext]_channelVars

-----------------------------------------------------------------------------
(* Each channel keeps its types.                                           *)
ChannelTypes ==
    /\ Gw!TypeOK /\ Fr!TypeOK /\ Wc!TypeOK /\ Vl!TypeOK /\ Pp!TypeOK
    /\ Sr!TypeOK /\ Ss!TypeOK

(* An interaction is routed to the agent at most once, however often the   *)
(* upstream redelivers it and the gateway restarts.                        *)
RoutedOnce == Gw!RoutedOnce

(* A text arrives as it was given: the web page shows the final text       *)
(* whole, Feishu shows the parts in order and none again that it has       *)
(* acknowledged, and what the user said is no hypothesis that the          *)
(* recognizer was still to correct.                                        *)
TextsArriveWhole ==
    Wc!FinalIsWhole /\ Fr!ShownInOrder /\ Sr!UtteranceIsWhole

(* Speech is not cut off: the player is given all of it, in order, and the *)
(* device is closed when it has taken every chunk.                         *)
NothingCutOff == Ss!SpeechIsWhole /\ Pp!NothingCutOff
=============================================================================
