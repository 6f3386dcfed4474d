----------------------------- MODULE FeishuReply -----------------------------
(***************************************************************************)
(* The Feishu channel hands a final reply to the upstream: each attachment *)
(* is uploaded and posted, then the text. A post is first tried as a reply *)
(* to the message it answers, then as a new message, up to _SEND_MAX_-     *)
(* ATTEMPTS times. The upstream may have shown a post whose answer is lost *)
(* or an error, so a repetition may show it twice.                         *)
(***************************************************************************)
EXTENDS Naturals, Sequences

CONSTANTS
    MaxAttempts,    \* _SEND_MAX_ATTEMPTS
    Attachments,    \* attachments of a reply
    MaxReplies      \* bound: replies the gateway hands over

VARIABLES
    reply,      \* the reply being sent, counted from 1; 0 before the first
    part,       \* its attachment being sent, or Attachments + 1 for its text
    at,         \* "idle", "file", "text", "reply" (message.reply) or "create"
    attempt,    \* of message.create
    threaded,   \* reply_to_message is configured and the message is known
    chat,       \* the posts <<reply, part>> the upstream shows
    ackAt       \* length of chat when a post was acknowledged, 0 if it was not

feishuVars == <<reply, part, at, attempt, threaded, chat, ackAt>>

Posts == (1..MaxReplies) \X (1..(Attachments + 1))

TypeOK ==
    /\ reply \in 0..MaxReplies /\ part \in 1..(Attachments + 1)
    /\ at \in {"idle", "file", "text", "reply", "create"}
    /\ attempt \in 1..MaxAttempts /\ threaded \in BOOLEAN
    /\ chat \in Seq(Posts) /\ ackAt \in [Posts -> Nat]

Init ==
    /\ reply = 0 /\ part = 1 /\ at = "idle" /\ attempt = 1
    /\ threaded \in BOOLEAN
    /\ chat = <<>> /\ ackAt = [p \in Posts |-> 0]

PartAt(p) == IF p <= Attachments THEN "file" ELSE "text"

(* FeishuChannel.send goes on with the next part of the reply.             *)
Advance ==
    /\ attempt' = 1
    /\ IF part <= Attachments
       THEN part' = part + 1 /\ at' = PartAt(part + 1)
       ELSE part' = 1 /\ at' = "idle"

Send ==
    /\ at = "idle" /\ reply < MaxReplies
    /\ reply' = reply + 1 /\ part' = 1 /\ at' = PartAt(1)
    /\ UNCHANGED <<attempt, threaded, chat, ackAt>>

(* The file is gone, its upload is refused, or the text is empty.          *)
SkipPart ==
    /\ at \in {"file", "text"}
    /\ Advance
    /\ UNCHANGED <<reply, threaded, chat, ackAt>>

(* An upload that raises leaves send() with the rest of the reply unsent.  *)
UploadRaises ==
    /\ at = "file"
    /\ at' = "idle" /\ part' = 1
    /\ UNCHANGED <<reply, attempt, threaded, chat, ackAt>>

Post ==
    /\ at \in {"file", "text"}
    /\ at' = IF threaded THEN "reply" ELSE "create"
    /\ UNCHANGED <<reply, part, attempt, threaded, chat, ackAt>>

Shown(shows) == chat' = IF shows THEN Append(chat, <<reply, part>>) ELSE chat

Acknowledged ==
    /\ Shown(TRUE)
    /\ ackAt' = [ackAt EXCEPT ![<<reply, part>>] = Len(chat')]
    /\ Advance
    /\ UNCHANGED <<reply, threaded>>

\* mutant: the answer of message.reply is not looked at
ReplyThenCreate ==
    /\ at = "reply" /\ at' = "create"
    /\ \/ Shown(TRUE) /\ ackAt' = [ackAt EXCEPT ![<<reply, part>>] = Len(chat')]
       \/ Shown(FALSE) /\ UNCHANGED ackAt
    /\ UNCHANGED <<reply, part, attempt, threaded>>

(* message.reply: any failure falls back to message.create.                *)
ReplyMessage ==
    /\ at = "reply"
    /\ \/ Acknowledged
       \/ /\ \E shows \in BOOLEAN : Shown(shows)
          /\ at' = "create"
          /\ UNCHANGED <<reply, part, attempt, threaded, ackAt>>

\* mutant: the attempts are counted after the check
RetryOnceMore ==
    /\ \E shows \in BOOLEAN : Shown(shows)
    /\ IF attempt <= MaxAttempts
       THEN attempt' = attempt + 1 /\ UNCHANGED <<part, at>>
       ELSE Advance
    /\ UNCHANGED <<reply, threaded, ackAt>>

(* message.create raises, or answers 429 or 5xx: it is tried again, and    *)
(* given up silently after the last attempt.                               *)
Retry ==
    /\ \E shows \in BOOLEAN : Shown(shows)
    /\ IF attempt < MaxAttempts
       THEN attempt' = attempt + 1 /\ UNCHANGED <<part, at>>
       ELSE Advance
    /\ UNCHANGED <<reply, threaded, ackAt>>

(* Another error is not retried.                                           *)
Refused == Shown(FALSE) /\ Advance /\ UNCHANGED <<reply, threaded, ackAt>>

SendMessage == at = "create" /\ (Acknowledged \/ Retry \/ Refused)

Next == Send \/ SkipPart \/ UploadRaises \/ Post \/ ReplyMessage \/ SendMessage

Spec == Init /\ [][Next]_feishuVars

-----------------------------------------------------------------------------
(* A post that was acknowledged is not shown again, and the chat shows the *)
(* replies and their parts in order however often a post is repeated.      *)
ShownInOrder ==
    \A i \in 1..Len(chat) :
        /\ ackAt[chat[i]] # 0 => i <= ackAt[chat[i]]
        /\ \A j \in 1..i : \/ chat[j][1] < chat[i][1]
                           \/ chat[j][1] = chat[i][1] /\ chat[j][2] <= chat[i][2]
=============================================================================
