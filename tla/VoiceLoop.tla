---------------------------- MODULE VoiceLoop ----------------------------
(***************************************************************************)
(* The voice channel: one task listens, transcribes, routes by wake word   *)
(* and session, and hands the text on; replies, events and its own         *)
(* requests for clarification are spoken one after the other. Speech       *)
(* closes the microphone and an echo guard opens it again. Nothing bounds  *)
(* synthesis, and a writer of the sound device that dies while pieces wait *)
(* leaves the call, and with it the event loop, waiting for ever.          *)
(***************************************************************************)
EXTENDS Naturals

CONSTANTS
    Speech,          \* calls of speak() from the channel (replies and events)
    Clarify,         \* the call of speak() from inside the handler
    None,
    MaxErrors,       \* consecutive errors that switch the loop off (5 in the code)
    MaxUtterances    \* bound: captures

Speak == Speech \cup {Clarify}

VARIABLES
    loop,       \* where VoiceInteractionLoop._run is
    errors,     \* _consecutive_errors
    safe,       \* _capture_safe
    talk,       \* each call of speak(); hung: it blocks the event loop
    guards,     \* echo guard tasks that still sleep, named by their call
    guard,      \* _echo_guard_task
    echoTime,   \* less than tts_echo_guard_sec since _last_tts_finished_at
    session,    \* the session of VoiceSessionRouter is active
    heard,      \* captures so far
    quit        \* _stopped

voiceVars == <<loop, errors, safe, talk, guards, guard, echoTime, session, heard, quit>>

TypeOK ==
    /\ loop \in {"ready", "capture", "text", "handle", "speak", "backoff", "off"}
    /\ errors \in 0..MaxErrors
    /\ safe \in BOOLEAN /\ echoTime \in BOOLEAN /\ session \in BOOLEAN /\ quit \in BOOLEAN
    /\ talk \in [Speak -> {"none", "lock", "play", "hung", "done"}]
    /\ guards \subseteq Speak
    /\ guard \in Speak \cup {None}
    /\ heard \in 0..MaxUtterances

Init ==
    /\ loop = "ready" /\ errors = 0 /\ safe = TRUE
    /\ talk = [s \in Speak |-> "none"]
    /\ guards = {} /\ guard = None /\ echoTime = FALSE
    /\ session = FALSE /\ heard = 0 /\ quit = FALSE

-----------------------------------------------------------------------------
(* Speaking. The microphone is closed before the call waits for its turn.  *)

BeginSpeak(s) ==
    /\ talk[s] = "none"
    /\ talk' = [talk EXCEPT ![s] = "lock"]
    /\ guards' = guards \ {guard}
    /\ safe' = FALSE
    /\ UNCHANGED <<guard, echoTime>>

Say(s) ==
    /\ s \in Speech /\ BeginSpeak(s)
    /\ UNCHANGED <<loop, errors, session, heard, quit>>

Playing == \E s \in Speak : talk[s] = "play"

TakeTurn(s) ==
    /\ talk[s] = "lock" /\ ~Playing
    /\ talk' = [talk EXCEPT ![s] = "play"]
    /\ UNCHANGED <<loop, errors, safe, guards, guard, echoTime, session, heard, quit>>

\* mutant: the guard is started after playback only, not in the finally
EndSpeakPlayed(s) ==
    /\ talk[s] = "play"
    /\ talk' = [talk EXCEPT ![s] = "done"]
    /\ \/ guards' = guards \cup {s} /\ guard' = s /\ echoTime' = TRUE
       \/ UNCHANGED <<guards, guard, echoTime>>
    /\ UNCHANGED <<loop, errors, safe, session, heard, quit>>

(* Played, or synthesis or the sound device failed.                        *)
EndSpeak(s) ==
    /\ talk[s] = "play"
    /\ talk' = [talk EXCEPT ![s] = "done"]
    /\ guards' = guards \cup {s} /\ guard' = s
    /\ echoTime' = TRUE
    /\ UNCHANGED <<loop, errors, safe, session, heard, quit>>

(* The writer died: queue.join() or queue.put() never returns.             *)
Hangs(s) ==
    /\ talk[s] = "play"
    /\ talk' = [talk EXCEPT ![s] = "hung"]
    /\ UNCHANGED <<loop, errors, safe, guards, guard, echoTime, session, heard, quit>>

LoopRuns == \A s \in Speak : talk[s] # "hung"

EchoFades ==
    /\ echoTime /\ echoTime' = FALSE
    /\ UNCHANGED <<loop, errors, safe, talk, guards, guard, session, heard, quit>>

(* The sleep of a guard is over. A guard that a later call has replaced    *)
(* without cancelling it opens the microphone all the same.                *)
GuardEnds(s) ==
    /\ s \in guards /\ guards' = guards \ {s}
    /\ s = guard => ~echoTime
    /\ safe' = TRUE
    /\ UNCHANGED <<loop, errors, talk, guard, echoTime, session, heard, quit>>

-----------------------------------------------------------------------------
(* Listening.                                                              *)

Goto(from, to) == loop = from /\ loop' = to

StartCapture ==
    /\ Goto("ready", "capture")
    /\ safe /\ ~quit /\ heard < MaxUtterances
    /\ heard' = heard + 1
    /\ UNCHANGED <<errors, safe, talk, guards, guard, echoTime, session, quit>>

Blocked == Playing \/ echoTime

(* Nothing was said, or the robot has just been talking itself.            *)
DropCapture ==
    /\ Goto("capture", "ready")
    /\ errors' = 0
    /\ UNCHANGED <<safe, talk, guards, guard, echoTime, session, heard, quit>>

EndCapture ==
    /\ Goto("capture", "text")
    /\ ~Blocked
    /\ errors' = 0
    /\ UNCHANGED <<safe, talk, guards, guard, echoTime, session, heard, quit>>

(* The microphone, the recognizer or the handler raised.                   *)
Raises ==
    /\ loop \in {"capture", "text", "handle"}
    /\ errors' = errors + 1
    /\ loop' = IF errors' = MaxErrors THEN "off" ELSE "backoff"
    /\ UNCHANGED <<safe, talk, guards, guard, echoTime, session, heard, quit>>

(* A package, a model or a key is missing: no second try.                  *)
Misconfigured ==
    /\ loop \in {"capture", "text"}
    /\ loop' = "off"
    /\ UNCHANGED <<errors, safe, talk, guards, guard, echoTime, session, heard, quit>>

Retry ==
    /\ Goto("backoff", "ready")
    /\ UNCHANGED <<errors, safe, talk, guards, guard, echoTime, session, heard, quit>>

(* VoiceSessionRouter.route: the wake word opens the session, with or      *)
(* without a command behind it; a command inside the session extends it;   *)
(* outside it only an emergency phrase gets through, and opens nothing.    *)
(* Shorter texts than min_route_chars are dropped before that.             *)
Wake ==
    /\ loop = "text" /\ loop' \in {"handle", "ready"}
    /\ session' = TRUE
    /\ UNCHANGED <<errors, safe, talk, guards, guard, echoTime, heard, quit>>

Follow ==
    /\ Goto("text", "handle") /\ session
    /\ UNCHANGED <<errors, safe, talk, guards, guard, echoTime, session, heard, quit>>

Emergency ==
    /\ Goto("text", "handle") /\ ~session
    /\ UNCHANGED <<errors, safe, talk, guards, guard, echoTime, session, heard, quit>>

DropText ==
    /\ Goto("text", "ready")
    /\ UNCHANGED <<errors, safe, talk, guards, guard, echoTime, session, heard, quit>>

SessionExpires ==
    /\ session /\ session' = FALSE
    /\ UNCHANGED <<loop, errors, safe, talk, guards, guard, echoTime, heard, quit>>

(* The channel's handler: the turn goes to the gateway, is ignored as      *)
(* noise, or a clarification is spoken before the loop listens again.      *)
HandOver ==
    /\ Goto("handle", "ready")
    /\ UNCHANGED <<errors, safe, talk, guards, guard, echoTime, session, heard, quit>>

AskAgain ==
    /\ Goto("handle", "speak")
    /\ BeginSpeak(Clarify)
    /\ UNCHANGED <<errors, session, heard, quit>>

Asked ==
    /\ Goto("speak", "ready")
    /\ talk[Clarify] = "done"
    /\ UNCHANGED <<errors, safe, talk, guards, guard, echoTime, session, heard, quit>>

(* The channel stops: the task is cancelled wherever it is; the call of    *)
(* speak() it was in ends with it.                                         *)
Stop ==
    /\ ~quit /\ quit' = TRUE /\ loop' = "off"
    /\ IF talk[Clarify] \in {"lock", "play"}
       THEN /\ talk' = [talk EXCEPT ![Clarify] = "done"]
            /\ IF talk[Clarify] = "play"
               THEN guards' = guards \cup {Clarify} /\ guard' = Clarify /\ echoTime' = TRUE
               ELSE UNCHANGED <<guards, guard, echoTime>>
       ELSE UNCHANGED <<talk, guards, guard, echoTime>>
    /\ UNCHANGED <<errors, safe, session, heard>>

-----------------------------------------------------------------------------
Voicing ==
    \E s \in Speak : Say(s) \/ TakeTurn(s) \/ EndSpeak(s) \/ Hangs(s) \/ GuardEnds(s)

Listening ==
    \/ StartCapture \/ DropCapture \/ EndCapture
    \/ Raises \/ Misconfigured \/ Retry
    \/ Wake \/ Follow \/ Emergency \/ DropText \/ HandOver \/ AskAgain \/ Asked

(* Time passes even while the event loop is blocked.                       *)
Next == EchoFades \/ (LoopRuns /\ (Voicing \/ Listening \/ SessionExpires \/ Stop))

(* The lock is fair and timers go off; that playback ends is not assumed.  *)
Fairness ==
    /\ WF_voiceVars(LoopRuns /\ \E s \in Speak : TakeTurn(s) \/ GuardEnds(s))
    /\ WF_voiceVars(EchoFades)

Spec == Init /\ [][Next]_voiceVars /\ Fairness

-----------------------------------------------------------------------------
(* If no call of speak() plays or hangs for ever, the microphone opens     *)
(* again, however the calls overlap and whichever guards they cancel,      *)
(* unless the channel is stopped.                                          *)
MicReopens ==
    (\A s \in Speak : []<>(talk[s] \notin {"play", "hung"})) => []<>(safe \/ quit)
=============================================================================
