---------------------------- MODULE PcmPlayer ----------------------------
(***************************************************************************)
(* Playback of one spoken text. The event loop puts the chunks of the      *)
(* synthesis into a bounded queue, from which a thread writes to the sound *)
(* device; put() and join() block the event loop itself. When the          *)
(* synthesis ends or raises, the queue is drained before the thread is     *)
(* told to stop and the device is closed.                                  *)
(***************************************************************************)
EXTENDS Naturals, Sequences

CONSTANTS
    MaxQueue,     \* chunks the queue holds (256 in the code)
    MaxChunks     \* bound: chunks of one text

VARIABLES
    synth,      \* the event loop, in speak()
    pcm,        \* the queue: chunk numbers, and 0 for the end
    unfinished, \* chunks put and not yet task_done
    writer,     \* the thread
    put,        \* chunks handed to enqueue()
    written,    \* chunks the device has taken
    device      \* "open", "closed"

pcmVars == <<synth, pcm, unfinished, writer, put, written, device>>

TypeOK ==
    /\ synth \in {"stream", "enqueue", "drain", "finish", "stopped", "done"}
    /\ pcm \in Seq(0..MaxChunks) /\ Len(pcm) <= MaxQueue
    /\ unfinished \in 0..(MaxChunks + 1)
    /\ writer \in {"get", "write", "dead", "ended"}
    /\ put \in 0..MaxChunks /\ written \in 0..MaxChunks
    /\ device \in {"open", "closed"}

Init ==
    /\ synth = "stream" /\ pcm = <<>> /\ unfinished = 0 /\ writer = "get"
    /\ put = 0 /\ written = 0 /\ device = "open"

Goto(from, to) == synth = from /\ synth' = to

(* The service has sent another chunk.                                     *)
NextChunk ==
    /\ Goto("stream", "enqueue")
    /\ put < MaxChunks
    /\ UNCHANGED <<pcm, unfinished, writer, put, written, device>>

Put(chunk) ==
    /\ Len(pcm) < MaxQueue
    /\ pcm' = Append(pcm, chunk)
    /\ unfinished' = unfinished + 1

Enqueue ==
    /\ Goto("enqueue", "stream")
    /\ Put(put + 1)
    /\ put' = put + 1
    /\ UNCHANGED <<writer, written, device>>

(* The text is spoken, or the synthesis raises.                            *)
EndSynthesis ==
    /\ Goto("stream", "drain")
    /\ UNCHANGED <<pcm, unfinished, writer, put, written, device>>

\* mutant: nobody waits for the queue before the end is put
DrainedAtOnce ==
    /\ Goto("drain", "finish")
    /\ UNCHANGED <<pcm, unfinished, writer, put, written, device>>

Drained ==
    /\ Goto("drain", "finish")
    /\ unfinished = 0
    /\ UNCHANGED <<pcm, unfinished, writer, put, written, device>>

PutEnd ==
    /\ Goto("finish", "stopped")
    /\ Put(0)
    /\ UNCHANGED <<writer, put, written, device>>

(* The thread has ended, or five seconds are over.                         *)
CloseDevice ==
    /\ Goto("stopped", "done")
    /\ device' = "closed"
    /\ UNCHANGED <<pcm, unfinished, writer, put, written>>

-----------------------------------------------------------------------------
Get ==
    /\ writer = "get" /\ pcm # <<>>
    /\ pcm' = Tail(pcm)
    /\ IF Head(pcm) = 0 THEN writer' = "ended" /\ unfinished' = unfinished - 1
                        ELSE writer' = "write" /\ UNCHANGED unfinished
    /\ UNCHANGED <<synth, put, written, device>>

Write ==
    /\ writer = "write"
    /\ writer' = "get" /\ written' = written + 1 /\ unfinished' = unfinished - 1
    /\ UNCHANGED <<synth, pcm, put, device>>

(* The device raises: the chunk is done with, and so is the thread.        *)
WriteFails ==
    /\ writer = "write"
    /\ writer' = "dead" /\ unfinished' = unfinished - 1
    /\ UNCHANGED <<synth, pcm, put, written, device>>

-----------------------------------------------------------------------------
Loop == NextChunk \/ Enqueue \/ EndSynthesis \/ Drained \/ PutEnd \/ CloseDevice
Thread == Get \/ Write \/ WriteFails

Next == Loop \/ Thread

Spec == Init /\ [][Next]_pcmVars

-----------------------------------------------------------------------------
(* Nothing is cut off: the device is closed when it has taken every chunk, *)
(* unless it has failed.                                                   *)
NothingCutOff == device = "closed" /\ writer # "dead" => written = put
=============================================================================
