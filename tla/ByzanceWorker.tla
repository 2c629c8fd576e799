---------------------------- MODULE ByzanceWorker ----------------------------
(***************************************************************************)
(* The byzance thread between the mailboxes: it takes an incoming message, *)
(* ByzanceWorker::process carries it out and answers, and MsgIdBuffer      *)
(* drops a command whose mid has been seen.                                *)
(***************************************************************************)
EXTENDS MqttMails

CONSTANTS IdCapacity        \* MESSAGE_ID_BUFF_CAPACITY

ASSUME WorkerAssumption == IdCapacity \in Nat \ {0}

VARIABLES
    bpc,            \* where _thread_byzance_function is
    msg,            \* the message it works on, or none
    ids,            \* _msg_list of MsgIdBuffer: mids, the newest first
    done            \* history: mids of the commands carried out, in order

workerVars == <<bpc, msg, ids, done>>

InitWorker ==
    /\ bpc = "wait"
    /\ msg = "none"
    /\ ids = <<>>
    /\ done = <<>>

\* MsgIdBuffer.
Known(m) == \E k \in 1 .. Len(ids) : ids[k] = m

\* Variant: the new mid is not stored.
addNothing(m) == ids

add(m) == <<m>> \o (IF Len(ids) >= IdCapacity THEN SubSeq(ids, 1, Len(ids) - 1) ELSE ids)

\* The client is connected: the thread listens, for 20 ms at a time.
Listen ==
    /\ bpc = "wait"
    /\ is_connected
    /\ bpc' = "listen"
    /\ UNCHANGED <<msg, ids, done, mailVars>>

\* signal_wait expires.
ListenExpires ==
    /\ bpc = "listen"
    /\ ~ signal
    /\ bpc' = "wait"
    /\ UNCHANGED <<msg, ids, done, mailVars>>

\* Variant: the mail is only looked into if the client is still connected.
WakeConnected ==
    /\ bpc = "listen"
    /\ signal
    /\ signal' = FALSE
    /\ bpc' = IF is_connected THEN "drain" ELSE "wait"
    /\ UNCHANGED <<msg, ids, done, recvMail, recvPool, sendVars, connected, subscribed>>

\* signal_wait returns the signal, whether the client is still connected or not.
Wake ==
    /\ bpc = "listen"
    /\ signal
    /\ signal' = FALSE
    /\ bpc' = "drain"
    /\ UNCHANGED <<msg, ids, done, recvMail, recvPool, sendVars, connected, subscribed>>

\* get_message(0), until the mail is empty.
GetMessage ==
    /\ bpc = "drain"
    /\ IF recvMail = <<>>
       THEN bpc' = "wait" /\ UNCHANGED <<msg, recvMail>>
       ELSE /\ msg' = Head(recvMail)
            /\ recvMail' = Tail(recvMail)
            /\ bpc' = "process"
    /\ UNCHANGED <<ids, done, recvPool, signal, sendVars, connected, subscribed>>

\* ByzanceWorker::process. A value goes to the callback of the user; an
\* invalid JSON is answered at once; a repeated mid is dropped without an
\* answer; any other command is carried out and answered.
process ==
    /\ bpc = "process"
    /\ IF msg \in Mids /\ ~ Known(msg)
       THEN ids' = add(msg) /\ done' = Append(done, msg)
       ELSE UNCHANGED <<ids, done>>
    /\ bpc' = IF msg = "bad" \/ (msg \in Mids /\ ~ Known(msg)) THEN "answer" ELSE "free"
    /\ UNCHANGED <<msg, mailVars>>

Answer == IF msg = "bad" THEN "error" ELSE msg

send_response ==
    /\ bpc = "answer"
    /\ send_message("byzance")
    /\ bpc' = "free"
    /\ UNCHANGED <<msg, ids, done, recvVars, connected, subscribed>>

\* Variant: the block of a message without an answer is not freed.
DeleteIncomingAnswered ==
    /\ bpc = "free"
    /\ spc["byzance"] = "idle"
    /\ recvPool' = IF msg = "d_in" THEN recvPool ELSE recvPool + 1
    /\ msg' = "none"
    /\ bpc' = "drain"
    /\ UNCHANGED <<ids, done, recvMail, signal, sendVars, connected, subscribed>>

\* delete_incomming_msg, when process has returned.
DeleteIncoming ==
    /\ bpc = "free"
    /\ spc["byzance"] = "idle"
    /\ recvPool' = recvPool + 1
    /\ msg' = "none"
    /\ bpc' = "drain"
    /\ UNCHANGED <<ids, done, recvMail, signal, sendVars, connected, subscribed>>

ByzanceStep ==
    \/ Listen \/ ListenExpires \/ Wake \/ GetMessage \/ process \/ send_response \/ DeleteIncoming
    \/ SendStep("byzance", Answer) /\ UNCHANGED workerVars

WorkerTypeOK ==
    /\ bpc \in {"wait", "listen", "drain", "process", "answer", "free"}
    /\ msg \in Incoming \cup {"none"}
    /\ ids \in Seq(Mids)
    /\ Len(ids) <= IdCapacity
    /\ done \in Seq(Mids)
=============================================================================
