------------------------------ MODULE RunStore ------------------------------
(***************************************************************************)
(* The files of one skill run: command.json, events.jsonl, result.json,    *)
(* pinned observations and the execution trace. The process that owns the  *)
(* run may die between any two writes, and inside an append, which leaves  *)
(* the last line torn, or whole but without its newline: the next append   *)
(* then continues that line. A reader stops at a last line it cannot       *)
(* parse, and an append first drops such a line. Some lines no reader gets *)
(* past: one torn inside a character, for the file is decoded as a whole,  *)
(* and one whose text holds a line separator that JSON does not escape,    *)
(* for it is read as two. From then on every read and every append raises. *)
(***************************************************************************)
EXTENDS Naturals, Sequences, SequencesExt

CONSTANTS
    MaxEvents,    \* events of a run before its outcome
    MaxCrashes

VARIABLES
    command,   \* command.json: none, temporary (beside it), written
    lines,     \* events.jsonl: an event's phase, corrupt, or unreadable
    ended,     \* whether its last line has its newline
    result,    \* result.json: a phase or none
    pinned,    \* whether the observations of the outcome were copied
    trace,     \* the trace artifact: none, stored, evicted
    owner,     \* the worker: dead, idle, submitting, running
    write,     \* the append under way: step and phase
    crashes

storeVars == <<command, lines, ended, result, pinned, trace, owner, write, crashes>>

Outcomes == {"completed", "cancelled", "lost"}
Phases == {"running"} \cup Outcomes
Steps == {"none", "repair", "pin", "store", "append", "result"}
NoWrite == [step |-> "none", phase |-> "running"]

TypeOK ==
    /\ command \in {"none", "temporary", "written"}
    /\ lines \in Seq(Phases \cup {"corrupt", "unreadable"}) /\ ended \in BOOLEAN
    /\ result \in Outcomes \cup {"none"}
    /\ pinned \in BOOLEAN /\ trace \in {"none", "stored", "evicted"}
    /\ owner \in {"dead", "idle", "submitting", "running"}
    /\ write \in [step: Steps, phase: Phases] /\ crashes \in 0..MaxCrashes

Init ==
    /\ command = "none" /\ lines = <<>> /\ ended = TRUE /\ result = "none"
    /\ pinned = FALSE /\ trace = "none"
    /\ owner = "idle" /\ write = NoWrite /\ crashes = 0

files == <<command, lines, ended, result>>
media == <<pinned, trace>>

-----------------------------------------------------------------------------
(* What a reader sees.                                                     *)
Corrupt(i) == lines[i] = "corrupt"
Readable ==
    \A i \in 1..Len(lines) :
        lines[i] # "unreadable" /\ (Corrupt(i) => i = Len(lines))
Read == SelectSeq(lines, LAMBDA phase : phase # "corrupt")
Latest == IF Read = <<>> THEN "none" ELSE Last(Read)
Terminal(phase) == phase \in Outcomes

-----------------------------------------------------------------------------
(* The submission is recorded once, by a file put in place in one step. A  *)
(* worker that finds it does not run the command again.                    *)
Submit ==
    /\ owner = "idle" /\ command # "written"
    /\ command' = "temporary" /\ owner' = "submitting"
    /\ UNCHANGED <<lines, ended, result, media, write, crashes>>

Recorded ==
    /\ owner = "submitting"
    /\ command' = "written" /\ owner' = "running"
    /\ UNCHANGED <<lines, ended, result, media, write, crashes>>

(* The runner emits an event, or the worker the verdict on a run that      *)
(* nobody runs, once the events so far have been read.                     *)
Emit(phase) ==
    /\ owner = "running" /\ write = NoWrite /\ Readable /\ phase # "lost"
    /\ ~Terminal(Latest) /\ (phase = "running" => Len(lines) < MaxEvents)
    /\ write' = [step |-> "repair", phase |-> phase]
    /\ UNCHANGED <<files, media, owner, crashes>>

Status ==
    /\ owner = "idle" /\ write = NoWrite /\ command = "written"
    /\ Readable /\ ~Terminal(Latest)
    /\ write' = [step |-> "repair", phase |-> "lost"]
    /\ UNCHANGED <<files, media, owner, crashes>>

(* Reading raises in the runner: it ends the run without an outcome.       *)
EmitRaises ==
    /\ owner = "running" /\ write = NoWrite /\ ~Readable
    /\ owner' = "idle"
    /\ UNCHANGED <<files, media, write, crashes>>

\* mutant: a corrupt last line stays where it is
KeepsTail == lines

(* The file without a corrupt last line, put in place in one step.         *)
Repaired == IF lines # <<>> /\ Corrupt(Len(lines)) THEN Front(lines) ELSE lines

Repair ==
    /\ write.step = "repair"
    /\ lines' = Repaired /\ ended' = (ended \/ lines' # lines)
    /\ write' = [write EXCEPT !.step = IF Terminal(write.phase) THEN "pin" ELSE "append"]
    /\ UNCHANGED <<command, result, media, owner, crashes>>

(* Observations are copied; one that was forgotten keeps its old name.     *)
Pin ==
    /\ write.step = "pin" /\ pinned' \in {pinned, TRUE}
    /\ write' = [write EXCEPT !.step = "store"]
    /\ UNCHANGED <<files, trace, owner, crashes>>

(* An artifact is written; the oldest ones make room for it (Evict).       *)
PutArtifact == trace' = "stored"

(* A long result becomes an artifact, and the event refers to it.          *)
StoreTrace ==
    /\ write.step = "store" /\ (PutArtifact \/ UNCHANGED trace)
    /\ write' = [write EXCEPT !.step = "append"]
    /\ UNCHANGED <<files, pinned, owner, crashes>>

(* The artifacts of other runs push this one's out.                        *)
Evict ==
    /\ trace = "stored" /\ trace' = "evicted"
    /\ UNCHANGED <<files, pinned, owner, write, crashes>>

(* A line is appended, or continues one that has no newline.               *)
Joined(line) == IF line = "unreadable" THEN line ELSE "corrupt"

Appended(line) ==
    IF ended THEN Append(lines, line) ELSE Append(Front(lines), Joined(line))

AppendLine ==
    /\ write.step = "append"
    /\ \E line \in {write.phase, "unreadable"} : lines' = Appended(line)
    /\ ended' = TRUE
    /\ write' = IF Terminal(write.phase) THEN [write EXCEPT !.step = "result"] ELSE NoWrite
    /\ UNCHANGED <<command, result, media, owner, crashes>>

WriteResult ==
    /\ write.step = "result"
    /\ result' = write.phase /\ write' = NoWrite /\ owner' = "idle"
    /\ UNCHANGED <<command, lines, ended, media, crashes>>

-----------------------------------------------------------------------------
(* The process dies: between two writes, or while it appends.              *)
Dies ==
    /\ owner # "dead" /\ crashes < MaxCrashes
    /\ owner' = "dead" /\ write' = NoWrite /\ crashes' = crashes + 1

Crash ==
    /\ Dies
    /\ UNCHANGED <<files, media>>

CrashInAppend ==
    /\ write.step = "append" /\ Dies
    /\ \E part \in {"corrupt", "unreadable", write.phase} : lines' = Appended(part)
    /\ ended' = FALSE
    /\ UNCHANGED <<command, result, media>>

Restart ==
    /\ owner = "dead" /\ owner' = "idle"
    /\ UNCHANGED <<files, media, write, crashes>>

Next ==
    \/ Submit \/ Recorded \/ Status \/ Repair \/ Pin \/ StoreTrace \/ Evict
    \/ \E phase \in Phases : Emit(phase)
    \/ EmitRaises \/ AppendLine \/ WriteResult \/ Crash \/ CrashInAppend \/ Restart

Spec == Init /\ [][Next]_storeVars

-----------------------------------------------------------------------------
(* What a crash or a text has damaged is the last line: no append writes   *)
(* behind a line that no reader understands.                               *)
OnlyTheTailIsDamaged ==
    \A i \in 1..Len(lines) : lines[i] \notin Phases => i = Len(lines)

(* An event whose append has returned stays where it is, over crashes and  *)
(* repairs. (One that was cut off before its newline may be joined by the  *)
(* next and lost with it.)                                                 *)
RecordedStays ==
    [][\A i \in 1..Len(lines) :
        lines[i] \in Phases /\ (i < Len(lines) \/ ended)
            => i <= Len(lines') /\ lines'[i] = lines[i]]_storeVars

(* tests/persistence/test_run_store.py:63 preserves the events before a    *)
(* torn last record and repairs it: whatever part of a line an append that *)
(* was cut off leaves, the events of the run can still be read.            *)
TornTailsAreRead == ~ended => Readable
=============================================================================
