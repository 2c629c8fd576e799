-------------------------- MODULE MessagePathProofs --------------------------
(* Proofs about MessagePath, for every size of the mailboxes, every list of *)
(* topics, every capacity of MsgIdBuffer and any number of user threads.   *)
EXTENDS MessagePath, FiniteSetTheorems, TLAPS

-----------------------------------------------------------------------------
(* The socket and the client.                                              *)

\* Past the top of its loop the connection thread has a client.
SocketInv == ClientHasSocket /\ (cpc # "top" => client # "null")

LEMMA SocketStep ==
    ASSUME SocketInv, [Next]_vars
    PROVE  SocketInv'
  <1> USE DEF SocketInv, ClientHasSocket, clientVars, sessionVars, rxVars, netVars
  <1>1. CASE ConnectionStep
    BY <1>1 DEF ConnectionStep, ConnectSocket, CheckClient, ConnectClient, destroy_client, SubscribeOk, SubscribeFails,
       SubscribeAllFails, ThrowUnsubscribed, ReportWelcome, Announced, Publish, FreeSent,
       ReleaseSent, Yield, Deliver, Signal, SendStep
  <1>2. CASE UNCHANGED clientVars
    BY <1>2
  <1>3. CASE Network
    BY <1>3 DEF Network, ConnectionLost, HomerPublishes
  <1> QED BY <1>1, <1>2, <1>3 DEF Next, vars

-----------------------------------------------------------------------------
(* The signal of the byzance thread.                                       *)

LEMMA WakeupStep ==
    ASSUME NoLostWakeup, [Next]_vars
    PROVE  NoLostWakeup'
  <1> USE DEF NoLostWakeup, clientVars, sessionVars, rxVars, netVars, workerVars, mailVars,
              recvVars
  <1>1. CASE ConnectionStep /\ UNCHANGED workerVars
    BY <1>1 DEF ConnectionStep, ConnectSocket, CheckClient, ConnectClient, destroy_client, SubscribeOk, SubscribeFails,
       SubscribeAllFails, ThrowUnsubscribed, ReportWelcome, Announced, Publish, FreeSent,
       ReleaseSent, Yield, Deliver, Signal, SendStep
  <1>2. CASE ByzanceStep /\ UNCHANGED clientVars
    BY <1>2 DEF ByzanceStep, Listen, ListenExpires, Wake, GetMessage, process, send_response,
       DeleteIncoming, SendStep
  <1>3. ASSUME NEW a \in Apps, AppStep(a), UNCHANGED <<clientVars, workerVars>>
        PROVE  NoLostWakeup'
    BY <1>3 DEF AppStep, OutputSetValue, SendStep
  <1>4. CASE Network /\ UNCHANGED workerVars
    BY <1>4 DEF Network, ConnectionLost, HomerPublishes
  <1>5. CASE UNCHANGED vars
    BY <1>5 DEF vars
  <1> QED BY <1>1, <1>2, <1>3, <1>4, <1>5 DEF Next

-----------------------------------------------------------------------------
(* Threads in send_message.                                                *)

SendPc == {"idle", "blocked", "granted", "expired", "filling"}

\* The byzance thread sends only the answer to the message it works on.
WorkInv ==
    /\ bpc = "answer" => msg \in Mids \cup {"bad"}
    /\ spc["byzance"] # "idle" => bpc = "free" /\ msg \in Mids \cup {"bad"}

\* A thread other than the byzance thread moves no other thread out of idle.
LEMMA OthersIdle ==
    ASSUME spc \in [Senders -> SendPc], NEW s \in Senders, s # "byzance", NEW m,
           send_message(s) \/ SemExpires(s) \/ Alloc(s) \/ Put(s, m)
    PROVE  spc'["byzance"] = spc["byzance"]
  BY DEF send_message, SemExpires, Alloc, Put, Senders

LEMMA WorkStep ==
    ASSUME spc \in [Senders -> SendPc], WorkInv, [Next]_vars
    PROVE  WorkInv'
  <1> USE DEF clientVars, sessionVars, rxVars, netVars, workerVars, mailVars, sendVars, recvVars
  <1>1. CASE ConnectionStep /\ UNCHANGED workerVars
    <2>1. CASE SendStep("connection", "welcome") \/ ReportWelcome
      BY <1>1, <2>1, OthersIdle DEF SendStep, ReportWelcome, Senders, WorkInv
    <2>2. CASE ReleaseSent
      <3>1. spc["byzance"] = "idle" => spc'["byzance"] = "idle"
        BY <2>2 DEF ReleaseSent, Release, Senders
      <3>2. spc["byzance"] # "idle" => WorkInv'
        BY <1>1 DEF WorkInv
      <3> QED BY <1>1, <3>1, <3>2 DEF WorkInv
    <2>3. CASE UNCHANGED spc
      BY <1>1, <2>3 DEF WorkInv
    <2> QED BY <1>1, <2>1, <2>2, <2>3 DEF ConnectionStep, ConnectSocket, CheckClient, ConnectClient, SubscribeOk,
       SubscribeFails, ThrowUnsubscribed, Announced, Publish, FreeSent, Yield, Deliver, Signal
  <1>2. CASE ByzanceStep /\ UNCHANGED clientVars
    <2>1. CASE SendStep("byzance", Answer) /\ UNCHANGED workerVars
      BY <2>1 DEF SendStep, SemExpires, Alloc, Put, WorkInv
    <2>2. CASE send_response
      BY <2>2 DEF send_response, WorkInv
    <2>3. CASE DeleteIncoming
      BY <2>3 DEF DeleteIncoming, WorkInv
    <2>4. CASE Listen \/ ListenExpires \/ Wake \/ GetMessage \/ process
      BY <2>4 DEF Listen, ListenExpires, Wake, GetMessage, process, WorkInv
    <2> QED BY <1>2, <2>1, <2>2, <2>3, <2>4 DEF ByzanceStep
  <1>3. ASSUME NEW a \in Apps, AppStep(a), UNCHANGED <<clientVars, workerVars>>
        PROVE  WorkInv'
    <2>1. a \in Senders /\ a # "byzance"
      BY MailAssumption DEF Senders
    <2> QED BY <1>3, <2>1, OthersIdle DEF AppStep, OutputSetValue, SendStep, WorkInv
  <1>4. CASE Network /\ UNCHANGED workerVars
    BY <1>4 DEF Network, ConnectionLost, HomerPublishes, WorkInv
  <1>5. CASE UNCHANGED vars
    BY <1>5 DEF vars, WorkInv
  <1> QED BY <1>1, <1>2, <1>3, <1>4, <1>5 DEF Next

-----------------------------------------------------------------------------
(* The loops of subscribe_all and deliverMessage, and the handler table.   *)

\* The loops stay within their bounds.
LoopInv ==
    /\ cpc = "subscribe" => cnt < Len(Topics) /\ attempt < Retry
    /\ cpc \in {"deliver", "signal"} => rx \in Incoming

LEMMA LoopStep ==
    ASSUME TypeOK, LoopInv, [Next]_vars
    PROVE  LoopInv'
  <1> USE DEF LoopInv, clientVars, sessionVars, rxVars, netVars
  <1>t. /\ cnt \in Nat /\ attempt \in Nat /\ inbox \in Seq(Incoming)
        /\ Len(Topics) \in Nat \ {0} /\ Retry \in Nat \ {0}
    BY ClientAssumption DEF TypeOK, ClientTypeOK
  <1>1. CASE ConnectClient
    BY <1>1, <1>t DEF ConnectClient, destroy_client
  <1>2. CASE SubscribeOk
    BY <1>2, <1>t DEF SubscribeOk
  <1>3. CASE SubscribeFails
    BY <1>3, <1>t DEF SubscribeFails, SubscribeAllFails, destroy_client
  <1>4. CASE Yield
    BY <1>4, <1>t DEF Yield
  <1>5. CASE ConnectionStep /\ ~ (ConnectClient \/ SubscribeOk \/ SubscribeFails \/ Yield)
    BY <1>5 DEF ConnectionStep, ConnectSocket, CheckClient, ThrowUnsubscribed, ReportWelcome,
       Announced, Publish, FreeSent, ReleaseSent, Deliver, Signal
  <1>6. CASE UNCHANGED clientVars
    BY <1>6
  <1>7. CASE Network
    BY <1>7 DEF Network, ConnectionLost, HomerPublishes
  <1> QED BY <1>1, <1>2, <1>3, <1>4, <1>5, <1>6, <1>7 DEF Next, vars

\* The table begins with the topics in order; it is short of one only before
\* the first subscribe_all of a client is through, and then the client does not
\* say subscribed, or has been found dead.
HandlersInv ==
    /\ \A k \in 1 .. Len(handlers) : k <= Len(Topics) => handlers[k] = Topics[k]
    /\ Len(handlers) < Len(Topics) =>
           IF cpc = "subscribe" THEN Len(handlers) = cnt ELSE Len(handlers) = 0
    /\ cpc \in {"connect", "subscribe"} => ~ subscribed
    /\ subscribed /\ client = "up" => Len(handlers) >= Len(Topics)

\* A subscription that succeeds adds the next topic, or finds a full table,
\* which has all topics.
LEMMA SubscribeOkHandlers ==
    ASSUME TypeOK, LoopInv, HandlersInv, SubscribeOk
    PROVE  HandlersInv'
  <1>t. /\ handlers \in Seq({"d_in", "command_in"})
        /\ Topics \in Seq({"d_in", "command_in"})
        /\ cnt \in Nat /\ cnt < Len(Topics)
        /\ Len(Topics) \in Nat /\ Len(handlers) \in Nat
        /\ MaxHandlers \in Nat /\ MaxHandlers >= Len(Topics)
        /\ Topics[cnt + 1] \in {"d_in", "command_in"}
    BY ClientAssumption DEF TypeOK, ClientTypeOK, LoopInv, SubscribeOk
  <1>1. CASE Len(handlers) < MaxHandlers
    <2>1. /\ handlers' = Append(handlers, Topics[cnt + 1])
          /\ cnt' = cnt + 1
          /\ client' = client
      BY <1>1 DEF SubscribeOk
    <2>2. /\ Len(handlers') = Len(handlers) + 1
          /\ \A k \in 1 .. Len(handlers) : handlers'[k] = handlers[k]
          /\ handlers'[Len(handlers) + 1] = Topics[cnt + 1]
      BY <2>1, <1>t
    <2>3. Len(handlers) < Len(Topics) => Len(handlers) = cnt
      BY DEF HandlersInv, SubscribeOk
    <2>4. \A k \in 1 .. Len(handlers') : k <= Len(Topics) => handlers'[k] = Topics[k]
      BY <2>2, <2>3, <1>t DEF HandlersInv
    <2>5. Len(handlers') < Len(Topics) => cpc' = "subscribe" /\ Len(handlers') = cnt'
      BY <2>1, <2>2, <2>3, <1>t DEF SubscribeOk
    <2>6. cpc' \in {"connect", "subscribe"} => ~ subscribed'
      BY DEF HandlersInv, SubscribeOk
    <2>7. subscribed' => Len(handlers') >= Len(Topics)
      BY <2>2, <2>3, <2>5, <2>6, <1>t
    <2> QED BY <2>4, <2>5, <2>6, <2>7 DEF HandlersInv
  <1>2. CASE ~ (Len(handlers) < MaxHandlers)
    BY <1>2, <1>t DEF HandlersInv, SubscribeOk
  <1> QED BY <1>1, <1>2

LEMMA HandlersStep ==
    ASSUME TypeOK, LoopInv, HandlersInv, [Next]_vars
    PROVE  HandlersInv'
  <1>t. /\ handlers \in Seq({"d_in", "command_in"})
        /\ Len(Topics) \in Nat \ {0} /\ Len(handlers) \in Nat /\ cnt \in Nat
    BY ClientAssumption DEF TypeOK, ClientTypeOK
  <1>1. CASE SubscribeOk
    BY <1>1, SubscribeOkHandlers
  <1>2. CASE ConnectClient \/ SubscribeFails
    <2>1. CASE destroy_client
      BY <2>1, <1>t DEF destroy_client, HandlersInv
    <2>2. CASE ConnectClient /\ ~ destroy_client
      BY <2>2, <1>t DEF ConnectClient, HandlersInv
    <2>3. CASE SubscribeFails /\ ~ destroy_client
      BY <2>3, <1>t DEF SubscribeFails, SubscribeAllFails, HandlersInv
    <2> QED BY <1>2, <2>1, <2>2, <2>3
  <1>3. CASE CheckClient
    BY <1>3 DEF CheckClient, HandlersInv
  <1>4. CASE ConnectSocket \/ Publish \/ Yield
    BY <1>4, <1>t DEF ConnectSocket, Publish, Yield, HandlersInv, mailVars
  <1>5. CASE ThrowUnsubscribed \/ ReportWelcome \/ Announced \/ FreeSent \/ ReleaseSent
                \/ Deliver \/ Signal
    BY <1>5 DEF ThrowUnsubscribed, ReportWelcome, Announced, FreeSent, ReleaseSent, Deliver,
       Signal, HandlersInv, sessionVars, mailVars
  <1>6. CASE Network
    BY <1>6 DEF Network, ConnectionLost, HomerPublishes, HandlersInv, sessionVars, mailVars
  <1>7. CASE UNCHANGED <<clientVars, subscribed>>
    BY <1>7 DEF HandlersInv, clientVars, sessionVars
  <1>8. CASE ByzanceStep /\ UNCHANGED clientVars
    BY <1>7, <1>8 DEF ByzanceStep, Listen, ListenExpires, Wake, GetMessage, process,
       send_response, DeleteIncoming, SendStep, mailVars
  <1>9. ASSUME NEW a \in Apps, AppStep(a), UNCHANGED clientVars
        PROVE  HandlersInv'
    BY <1>7, <1>9 DEF AppStep, OutputSetValue, SendStep
  <1>10. CASE SendStep("connection", "welcome") /\ UNCHANGED clientVars
    BY <1>7, <1>10 DEF SendStep
  <1>11. CASE UNCHANGED vars
    BY <1>7, <1>11 DEF vars, mailVars
  <1> QED BY <1>1, <1>2, <1>3, <1>4, <1>5, <1>6, <1>8, <1>9, <1>10, <1>11
          DEF Next, ConnectionStep

\* A full first part of the table has every topic.
LEMMA HandlersSubscribed ==
    ASSUME TypeOK, HandlersInv
    PROVE  SubscribedWhileUp
  <1> SUFFICES ASSUME subscribed, client = "up", NEW k \in 1 .. Len(Topics)
               PROVE  Subscribed(Topics[k])
    BY DEF SubscribedWhileUp, is_connected
  <1>1. Len(handlers) \in Nat /\ Len(Topics) \in Nat
    BY ClientAssumption DEF TypeOK, ClientTypeOK
  <1>2. k \in 1 .. Len(handlers) /\ handlers[k] = Topics[k]
    BY <1>1 DEF HandlersInv
  <1> QED BY <1>2 DEF Subscribed

-----------------------------------------------------------------------------
(* The list of recent message ids.                                         *)

\* The list holds the last commands carried out, the newest first.
IdsInv ==
    /\ Len(ids) = IF Len(done) < IdCapacity THEN Len(done) ELSE IdCapacity
    /\ \A k \in 1 .. Len(ids) : ids[k] = done[Len(done) + 1 - k]

\* What MsgIdBuffer::add returns: the new id in front, the oldest one dropped
\* when the list is full.
LEMMA AddFacts ==
    ASSUME ids \in Seq(Mids), Len(ids) <= IdCapacity, NEW m \in Mids
    PROVE  /\ add(m) \in Seq(Mids)
           /\ Len(add(m)) = IF Len(ids) < IdCapacity THEN Len(ids) + 1 ELSE IdCapacity
           /\ add(m)[1] = m
           /\ \A k \in 2 .. Len(add(m)) : add(m)[k] = ids[k - 1]
  <1> DEFINE old == IF Len(ids) >= IdCapacity THEN SubSeq(ids, 1, Len(ids) - 1) ELSE ids
  <1>1. IdCapacity \in Nat \ {0} /\ Len(ids) \in Nat
    BY WorkerAssumption
  <1>2. /\ old \in Seq(Mids)
        /\ Len(old) = IF Len(ids) < IdCapacity THEN Len(ids) ELSE IdCapacity - 1
        /\ \A k \in 1 .. Len(old) : old[k] = ids[k]
    <2>1. CASE Len(ids) >= IdCapacity
      BY <1>1, <2>1
    <2>2. CASE Len(ids) < IdCapacity
      BY <1>1, <2>2
    <2> QED BY <1>1, <2>1, <2>2
  <1>3. add(m) = <<m>> \o old
    BY DEF add
  <1> HIDE DEF old
  <1>4. /\ <<m>> \in Seq(Mids) /\ Len(<<m>>) = 1 /\ <<m>>[1] = m
        /\ Len(old) \in Nat
    BY <1>2
  <1>5. /\ add(m) \in Seq(Mids)
        /\ Len(add(m)) = 1 + Len(old)
        /\ \A k \in 1 .. 1 + Len(old) : add(m)[k] = IF k <= 1 THEN <<m>>[k] ELSE old[k - 1]
    BY <1>2, <1>3, <1>4
  <1>6. Len(add(m)) = IF Len(ids) < IdCapacity THEN Len(ids) + 1 ELSE IdCapacity
    BY <1>1, <1>2, <1>5
  <1>7. add(m)[1] = m
    BY <1>4, <1>5
  <1>8. ASSUME NEW k \in 2 .. Len(add(m))
        PROVE  add(m)[k] = ids[k - 1]
    <2>1. k \in 1 .. 1 + Len(old) /\ ~ (k <= 1) /\ k - 1 \in 1 .. Len(old)
      BY <1>4, <1>5
    <2>2. add(m)[k] = old[k - 1]
      BY <2>1, <1>5
    <2> QED BY <2>1, <2>2, <1>2
  <1> QED BY <1>5, <1>6, <1>7, <1>8

\* A command that is carried out is not in the list, so it is none of the last
\* IdCapacity.
LEMMA CarriedOut ==
    ASSUME WorkerTypeOK, IdsInv, NoRepeat, msg \in Mids, ~ Known(msg),
           ids' = add(msg), done' = Append(done, msg)
    PROVE  IdsInv' /\ NoRepeat'
  <1>1. /\ IdCapacity \in Nat \ {0} /\ Len(ids) \in Nat /\ Len(done) \in Nat
        /\ ids \in Seq(Mids) /\ done \in Seq(Mids) /\ Len(ids) <= IdCapacity
    BY WorkerAssumption DEF WorkerTypeOK
  <1>2. /\ Len(done') = Len(done) + 1
        /\ done'[Len(done) + 1] = msg
        /\ \A j \in 1 .. Len(done) : done'[j] = done[j]
    BY <1>1
  <1>3. /\ Len(ids') = IF Len(ids) < IdCapacity THEN Len(ids) + 1 ELSE IdCapacity
        /\ ids'[1] = msg
        /\ \A k \in 2 .. Len(ids') : ids'[k] = ids[k - 1]
    BY <1>1, AddFacts
  <1>4. IdsInv'
    <2>1. Len(ids') = IF Len(done') < IdCapacity THEN Len(done') ELSE IdCapacity
      BY <1>1, <1>2, <1>3 DEF IdsInv
    <2>2. ASSUME NEW k \in 1 .. Len(ids') PROVE ids'[k] = done'[Len(done') + 1 - k]
      <3>1. CASE k = 1
        BY <3>1, <1>1, <1>2, <1>3
      <3>2. CASE k # 1
        <4>1. k \in 2 .. Len(ids') /\ k - 1 \in 1 .. Len(ids)
          BY <3>2, <2>2, <1>1, <1>3
        <4>2. ids'[k] = done[Len(done) + 1 - (k - 1)]
          BY <4>1, <1>3 DEF IdsInv
        <4>3. Len(done) + 1 - (k - 1) = Len(done') + 1 - k
          BY <4>1, <1>1, <1>2
        <4>4. Len(done') + 1 - k \in 1 .. Len(done)
          BY <4>1, <1>1, <1>2 DEF IdsInv
        <4> QED BY <4>2, <4>3, <4>4, <1>2
      <3> QED BY <3>1, <3>2
    <2> QED BY <2>1, <2>2 DEF IdsInv
  <1>5. NoRepeat'
    <2> SUFFICES ASSUME NEW j \in 1 .. Len(done'), NEW k \in 1 .. Len(done'),
                        j < k, k - j <= IdCapacity
                 PROVE  done'[j] # done'[k]
      BY DEF NoRepeat
    <2>1. CASE k \in 1 .. Len(done)
      <3>1. j \in 1 .. Len(done)
        BY <2>1, <1>1, <1>2
      <3> QED BY <2>1, <3>1, <1>2 DEF NoRepeat
    <2>2. CASE k = Len(done) + 1
      <3> DEFINE n == Len(done) + 1 - j
      <3>1. n \in 1 .. Len(ids) /\ j \in 1 .. Len(done)
        BY <2>2, <1>1, <1>2 DEF IdsInv
      <3>2. ids[n] = done[j]
        <4>1. Len(done) + 1 - n = j
          BY <3>1, <1>1
        <4> QED BY <3>1, <4>1 DEF IdsInv
      <3>3. ids[n] # msg
        BY <3>1 DEF Known
      <3> QED BY <2>2, <3>1, <3>2, <3>3, <1>2
    <2> QED BY <2>1, <2>2, <1>1, <1>2
  <1> QED BY <1>4, <1>5

LEMMA IdsStep ==
    ASSUME TypeOK, IdsInv, NoRepeat, [Next]_vars
    PROVE  IdsInv' /\ NoRepeat'
  <1>1. CASE UNCHANGED <<ids, done>>
    BY <1>1 DEF IdsInv, NoRepeat
  <1>2. CASE process
    BY <1>1, <1>2, CarriedOut DEF process, TypeOK
  <1>3. CASE ByzanceStep
    BY <1>1, <1>2, <1>3 DEF ByzanceStep, Listen, ListenExpires, Wake, GetMessage, send_response,
       DeleteIncoming, workerVars
  <1>4. CASE UNCHANGED workerVars
    BY <1>1, <1>4 DEF workerVars
  <1> QED BY <1>3, <1>4 DEF Next, vars

-----------------------------------------------------------------------------
(* Counting the blocks and the permits.                                    *)

At(f, q) == {s \in Senders : f[s] = q}

LEMMA AtFinite ==
    ASSUME NEW f, NEW q
    PROVE  IsFiniteSet(At(f, q)) /\ Cardinality(At(f, q)) \in Nat
  <1>1. IsFiniteSet(Senders)
    <2>1. IsFiniteSet({"byzance", "connection"})
      <3>1. IsFiniteSet({"byzance"} \cup {"connection"})
        BY FS_Singleton, FS_Union
      <3>2. {"byzance", "connection"} = {"byzance"} \cup {"connection"}
        OBVIOUS
      <3> QED BY <3>1, <3>2
    <2>2. IsFiniteSet(Apps \cup {"byzance", "connection"})
      BY <2>1, MailAssumption, FS_Union
    <2> QED BY <2>2 DEF Senders
  <1>2. At(f, q) \in SUBSET Senders
    BY DEF At
  <1>3. IsFiniteSet(At(f, q))
    BY <1>1, <1>2, FS_Subset
  <1> QED BY <1>3, FS_CardinalityType

Filling == Cardinality(In("filling"))
Granted == Cardinality(In("granted"))

LEMMA CountsAt ==
    /\ Filling = Cardinality(At(spc, "filling")) /\ Filling \in Nat
    /\ Granted = Cardinality(At(spc, "granted")) /\ Granted \in Nat
    /\ Filling' = Cardinality(At(spc', "filling")) /\ Filling' \in Nat
    /\ Granted' = Cardinality(At(spc', "granted")) /\ Granted' \in Nat
  <1>1. /\ In("filling") = At(spc, "filling") /\ In("granted") = At(spc, "granted")
        /\ In("filling")' = At(spc', "filling") /\ In("granted")' = At(spc', "granted")
    BY DEF In, At
  <1> QED BY <1>1, AtFinite DEF Filling, Granted

\* The outgoing mailbox; the bound on its pool follows from the count.
SendType ==
    /\ sendMail \in Seq(Outgoing)
    /\ sendPool \in Nat
    /\ sendSem \in Nat
    /\ spc \in [Senders -> SendPc]

Same(x, y) == IF x = y THEN 1 ELSE 0

\* A thread that moves on in send_message is counted at its new place.
LEMMA CountMoved ==
    ASSUME SendType, NEW s \in Senders, NEW q \in SendPc, spc[s] # q,
           spc' = [spc EXCEPT ![s] = q], NEW r
    PROVE  Cardinality(At(spc', r)) = Cardinality(At(spc, r))
               + Same(r, q) - Same(r, spc[s])
  <1>f. \A x \in Senders : spc'[x] = IF x = s THEN q ELSE spc[x]
    BY DEF SendType
  <1>n. IsFiniteSet(At(spc, r)) /\ Cardinality(At(spc, r)) \in Nat
    BY AtFinite
  <1>1. CASE r = q
    <2>1. At(spc', r) = At(spc, r) \cup {s} /\ s \notin At(spc, r)
      BY <1>f, <1>1 DEF At
    <2>2. Cardinality(At(spc, r) \cup {s}) = Cardinality(At(spc, r)) + 1
      BY <2>1, <1>n, FS_AddElement
    <2>3. Cardinality(At(spc', r)) = Cardinality(At(spc, r)) + 1
      BY <2>1, <2>2, Zenon
    <2> QED BY <1>1, <1>n, <2>3 DEF Same
  <1>2. CASE r = spc[s]
    <2>1. At(spc', r) = At(spc, r) \ {s} /\ s \in At(spc, r)
      BY <1>f, <1>2 DEF At
    <2>2. Cardinality(At(spc, r) \ {s}) = Cardinality(At(spc, r)) - 1
      BY <2>1, <1>n, FS_RemoveElement
    <2>3. Cardinality(At(spc', r)) = Cardinality(At(spc, r)) - 1
      BY <2>1, <2>2, Zenon
    <2> QED BY <1>2, <1>n, <2>3 DEF Same
  <1>3. CASE r # q /\ r # spc[s]
    <2>1. At(spc', r) = At(spc, r)
      BY <1>f, <1>3 DEF At
    <2> QED BY <1>3, <1>n, <2>1 DEF Same
  <1> QED BY <1>1, <1>2, <1>3

LEMMA ThreadMoved ==
    ASSUME SendType, NEW s \in Senders, NEW q \in SendPc, spc[s] # q,
           spc' = [spc EXCEPT ![s] = q]
    PROVE  /\ spc' \in [Senders -> SendPc]
           /\ Filling' = Filling + Same("filling", q)
                                 - Same("filling", spc[s])
           /\ Granted' = Granted + Same("granted", q)
                                 - Same("granted", spc[s])
  <1>1. spc' \in [Senders -> SendPc]
    BY DEF SendType
  <1>2. Cardinality(At(spc', "filling")) = Cardinality(At(spc, "filling"))
            + Same("filling", q) - Same("filling", spc[s])
    BY CountMoved, Zenon
  <1>3. Cardinality(At(spc', "granted")) = Cardinality(At(spc, "granted"))
            + Same("granted", q) - Same("granted", spc[s])
    BY CountMoved, Zenon
  <1> QED BY <1>1, <1>2, <1>3, CountsAt

\* A step in send_message keeps the sum of the blocks and takes no permit from
\* a free block.
SendKeeps ==
    /\ SendType'
    /\ sendPool' + Len(sendMail') + Filling' = sendPool + Len(sendMail) + Filling
    /\ sendPool' + sendSem + Granted <= sendPool + sendSem' + Granted'
           \/ sendPool' = 0

LEMMA SendCounts ==
    ASSUME SendType, NEW s \in Senders, NEW m,
           \/ send_message(s)
           \/ SemExpires(s)
           \/ Alloc(s)
           \/ Put(s, m) /\ m \in Outgoing
    PROVE  SendKeeps
  <1>t. /\ sendMail \in Seq(Outgoing) /\ Len(sendMail) \in Nat
        /\ sendPool \in Nat /\ sendSem \in Nat /\ spc \in [Senders -> SendPc]
    BY DEF SendType
  <1>0. CASE UNCHANGED sendVars
    <2>1. Filling' = Filling /\ Granted' = Granted
      BY <1>0 DEF Filling, Granted, In, sendVars
    <2> QED BY <1>0, <1>t, <2>1, CountsAt DEF sendVars, SendKeeps, SendType
  <1>1. CASE send_message(s)
    <2>1. CASE is_connected /\ sendSem > 0
      <3>1. spc' = [spc EXCEPT ![s] = "granted"] /\ spc[s] = "idle" /\ sendSem' = sendSem - 1
            /\ UNCHANGED <<sendMail, sendPool>>
        BY <1>1, <2>1 DEF send_message
      <3>2. Granted' = Granted + 1 /\ Filling' = Filling
        <4>1. "granted" \in SendPc /\ spc[s] # "granted"
          BY <3>1 DEF SendPc
        <4>2. /\ Filling' = Filling + Same("filling", "granted") - Same("filling", spc[s])
             /\ Granted' = Granted + Same("granted", "granted") - Same("granted", spc[s])
          BY <3>1, <4>1, ThreadMoved, Zenon
        <4> QED BY <3>1, <4>2, CountsAt DEF Same
      <3>3. spc' \in [Senders -> SendPc]
        BY <3>1, <1>t DEF SendPc
      <3> QED BY <3>1, <3>2, <3>3, <2>1, <1>t, CountsAt DEF SendKeeps, SendType
    <2>2. CASE is_connected /\ ~ (sendSem > 0)
      <3>1. spc' = [spc EXCEPT ![s] = "blocked"] /\ spc[s] = "idle"
            /\ UNCHANGED <<sendMail, sendPool, sendSem>>
        BY <1>1, <2>2 DEF send_message
      <3>2. Granted' = Granted /\ Filling' = Filling
        <4>1. "blocked" \in SendPc /\ spc[s] # "blocked"
          BY <3>1 DEF SendPc
        <4>2. /\ Filling' = Filling + Same("filling", "blocked") - Same("filling", spc[s])
             /\ Granted' = Granted + Same("granted", "blocked") - Same("granted", spc[s])
          BY <3>1, <4>1, ThreadMoved, Zenon
        <4> QED BY <3>1, <4>2, CountsAt DEF Same
      <3>3. spc' \in [Senders -> SendPc]
        BY <3>1, <1>t DEF SendPc
      <3> QED BY <3>1, <3>2, <3>3, <1>t, CountsAt DEF SendKeeps, SendType
    <2>3. CASE ~ is_connected
      BY <1>0, <1>1, <2>3 DEF send_message, sendVars
    <2> QED BY <2>1, <2>2, <2>3
  <1>2. CASE SemExpires(s)
    <2>1. spc' = [spc EXCEPT ![s] = "expired"] /\ spc[s] = "blocked"
          /\ UNCHANGED <<sendMail, sendPool, sendSem>>
      BY <1>2 DEF SemExpires
    <2>2. Granted' = Granted /\ Filling' = Filling
      <3>1. "expired" \in SendPc /\ spc[s] # "expired"
        BY <2>1 DEF SendPc
      <3>2. /\ Filling' = Filling + Same("filling", "expired") - Same("filling", spc[s])
           /\ Granted' = Granted + Same("granted", "expired") - Same("granted", spc[s])
        BY <2>1, <3>1, ThreadMoved, Zenon
      <3> QED BY <2>1, <3>2, CountsAt DEF Same
    <2>3. spc' \in [Senders -> SendPc]
      BY <2>1, <1>t DEF SendPc
    <2> QED BY <2>1, <2>2, <2>3, <1>t, CountsAt DEF SendKeeps, SendType
  <1>3. CASE Alloc(s)
    <2>1. spc[s] \in {"granted", "expired"} /\ UNCHANGED <<sendMail, sendSem>>
      BY <1>3 DEF Alloc
    <2>2. CASE sendPool > 0
      <3>1. spc' = [spc EXCEPT ![s] = "filling"] /\ sendPool' = sendPool - 1
        BY <1>3, <2>2 DEF Alloc
      <3>2. Filling' = Filling + 1 /\ Granted' >= Granted - 1
        <4>1. "filling" \in SendPc /\ spc[s] # "filling"
          BY <2>1, <3>1 DEF SendPc
        <4>2. /\ Filling' = Filling + Same("filling", "filling") - Same("filling", spc[s])
             /\ Granted' = Granted + Same("granted", "filling") - Same("granted", spc[s])
          BY <2>1, <3>1, <4>1, ThreadMoved, Zenon
        <4> QED BY <2>1, <3>1, <4>2, CountsAt DEF Same
      <3>3. spc' \in [Senders -> SendPc]
        BY <3>1, <1>t DEF SendPc
      <3>4. SendType'
        BY <2>1, <2>2, <3>1, <3>3, <1>t DEF SendType
      <3>5. sendPool' + sendSem + Granted <= sendPool + sendSem' + Granted'
        BY <2>1, <3>1, <3>2, <1>t, CountsAt
      <3>6. sendPool' + Len(sendMail') + Filling' = sendPool + Len(sendMail) + Filling
        BY <2>1, <3>1, <3>2, <1>t, CountsAt
      <3> QED BY <3>4, <3>5, <3>6 DEF SendKeeps
    <2>3. CASE ~ (sendPool > 0)
      <3>1. spc' = [spc EXCEPT ![s] = "idle"] /\ sendPool' = sendPool
        BY <1>3, <2>3 DEF Alloc
      <3>2. Filling' = Filling
        <4>1. "idle" \in SendPc /\ spc[s] # "idle"
          BY <2>1, <3>1 DEF SendPc
        <4>2. /\ Filling' = Filling + Same("filling", "idle") - Same("filling", spc[s])
             /\ Granted' = Granted + Same("granted", "idle") - Same("granted", spc[s])
          BY <2>1, <3>1, <4>1, ThreadMoved, Zenon
        <4> QED BY <2>1, <3>1, <4>2, CountsAt DEF Same
      <3>3. spc' \in [Senders -> SendPc]
        BY <3>1, <1>t DEF SendPc
      <3> QED BY <2>1, <2>3, <3>1, <3>2, <3>3, <1>t, CountsAt DEF SendKeeps, SendType
    <2> QED BY <2>2, <2>3
  <1>4. CASE Put(s, m) /\ m \in Outgoing
    <2>1. spc' = [spc EXCEPT ![s] = "idle"] /\ spc[s] = "filling"
          /\ sendMail' = Append(sendMail, m) /\ UNCHANGED <<sendPool, sendSem>>
      BY <1>4 DEF Put
    <2>2. Granted' = Granted /\ Filling' = Filling - 1
      <3>1. "idle" \in SendPc /\ spc[s] # "idle"
        BY <2>1 DEF SendPc
      <3>2. /\ Filling' = Filling + Same("filling", "idle") - Same("filling", spc[s])
           /\ Granted' = Granted + Same("granted", "idle") - Same("granted", spc[s])
        BY <2>1, <3>1, ThreadMoved, Zenon
      <3> QED BY <2>1, <3>2, CountsAt DEF Same
    <2>3. spc' \in [Senders -> SendPc]
      BY <2>1, <1>t DEF SendPc
    <2>4. sendMail' \in Seq(Outgoing) /\ Len(sendMail') = Len(sendMail) + 1
      BY <2>1, <1>4, <1>t
    <2> QED BY <2>1, <2>2, <2>3, <2>4, <1>t, CountsAt DEF SendKeeps, SendType
  <1> QED BY <1>1, <1>2, <1>3, <1>4

\* The permit that is released is free or goes to a waiting thread.
LEMMA ReleaseCounts ==
    ASSUME SendType, Release
    PROVE  /\ SendType'
           /\ Filling' = Filling
           /\ sendSem' + Granted' = sendSem + Granted + 1
           /\ UNCHANGED <<sendMail, sendPool>>
  <1>t. sendSem \in Nat /\ spc \in [Senders -> SendPc]
    BY DEF SendType
  <1>1. CASE \E s \in Senders : spc[s] = "blocked"
    <2>1. PICK s \in Senders : spc[s] = "blocked" /\ spc' = [spc EXCEPT ![s] = "granted"]
      BY <1>1 DEF Release
    <2>2. sendSem' = sendSem
      BY <1>1 DEF Release
    <2>3. Granted' = Granted + 1 /\ Filling' = Filling
      <3>1. "granted" \in SendPc /\ spc[s] # "granted"
        BY <2>1 DEF SendPc
      <3>2. /\ Filling' = Filling + Same("filling", "granted") - Same("filling", spc[s])
           /\ Granted' = Granted + Same("granted", "granted") - Same("granted", spc[s])
        BY <2>1, <3>1, ThreadMoved, Zenon
      <3> QED BY <2>1, <3>2, CountsAt DEF Same
    <2>4. spc' \in [Senders -> SendPc]
      BY <2>1, <1>t DEF SendPc
    <2> QED BY <2>2, <2>3, <2>4, <1>t, CountsAt DEF SendType, Release
  <1>2. CASE ~ \E s \in Senders : spc[s] = "blocked"
    <2>1. spc' = spc /\ sendSem' = sendSem + 1
      BY <1>2 DEF Release
    <2>2. Granted' = Granted /\ Filling' = Filling
      BY <2>1 DEF Granted, Filling, In
    <2> QED BY <2>1, <2>2, <1>t, CountsAt DEF SendType, Release
  <1> QED BY <1>1, <1>2

\* NoBlockLeaks and NoPermitLost in terms of the counts.
SendBlocks == sendPool + Len(sendMail) + Filling + Same(cpc, "held") = SendSize
Permits == sendPool <= sendSem + Granted + Same(cpc, "freed")
RecvBlocks ==
    recvPool + Len(recvMail) + (IF bpc \in {"process", "answer", "free"} THEN 1 ELSE 0) = RecvSize

LEMMA BlocksAre ==
    /\ (NoBlockLeaks <=> SendBlocks /\ RecvBlocks) /\ (NoPermitLost <=> Permits)
    /\ (NoBlockLeaks' <=> SendBlocks' /\ RecvBlocks') /\ (NoPermitLost' <=> Permits')
  BY DEF NoBlockLeaks, NoPermitLost, SendBlocks, Permits, RecvBlocks, Filling, Granted, Same

LEMMA SendTypeOf ==
    ASSUME TypeOK
    PROVE  SendType
  BY MailAssumption DEF TypeOK, MailTypeOK, SendType, SendPc

LEMMA Shifted ==
    ASSUME NEW p \in Nat, NEW c \in Nat, NEW g \in Nat, NEW k \in Nat,
           NEW q \in Nat, NEW d \in Nat, NEW h \in Nat,
           q + c + g <= p + d + h, p <= c + g + k
    PROVE  q <= d + h + k
  BY SMT

\* A step of send_message, wherever the connection thread is.
LEMMA SendingKeeps ==
    ASSUME SendType, SendBlocks, Permits, SendKeeps,
           Same(cpc, "held")' = Same(cpc, "held"), Same(cpc, "freed")' = Same(cpc, "freed")
    PROVE  SendType' /\ SendBlocks' /\ Permits'
  <1>1. /\ SendType'
        /\ sendPool \in Nat /\ sendSem \in Nat /\ Len(sendMail) \in Nat
        /\ sendPool' \in Nat /\ sendSem' \in Nat /\ Len(sendMail') \in Nat
        /\ Same(cpc, "held") \in Nat /\ Same(cpc, "freed") \in Nat
    BY DEF SendType, SendKeeps, Same
  <1>2. SendBlocks'
    BY <1>1, CountsAt DEF SendKeeps, SendBlocks
  <1>n. Granted \in Nat /\ Granted' \in Nat /\ Same(cpc, "freed")' \in Nat
    BY <1>1, CountsAt
  <1>3. Permits'
    <2>1. CASE sendPool' = 0
      BY <1>1, <1>n, <2>1 DEF Permits
    <2>2. CASE sendPool' + sendSem + Granted <= sendPool + sendSem' + Granted'
      <3>1. sendPool <= sendSem + Granted + Same(cpc, "freed")
        BY DEF Permits
      <3>2. sendPool' <= sendSem' + Granted' + Same(cpc, "freed")
        <4>1. PICK p \in Nat : p = sendPool
          BY <1>1
        <4>2. PICK c \in Nat : c = sendSem
          BY <1>1
        <4>3. PICK q \in Nat : q = sendPool'
          BY <1>1
        <4>4. PICK d \in Nat : d = sendSem'
          BY <1>1
        <4>5. PICK g \in Nat : g = Granted
          BY <1>n
        <4>6. PICK h \in Nat : h = Granted'
          BY <1>n
        <4>7. PICK k \in Nat : k = Same(cpc, "freed")
          BY <1>1
        <4>8. q + c + g <= p + d + h
          BY <2>2, <4>1, <4>2, <4>3, <4>4, <4>5, <4>6
        <4>9. p <= c + g + k
          BY <3>1, <4>1, <4>2, <4>5, <4>7
        <4>10. q <= d + h + k
          BY <4>8, <4>9, Shifted
        <4> QED BY <4>10, <4>3, <4>4, <4>6, <4>7
      <3> QED BY <3>2 DEF Permits
    <2> QED BY <2>1, <2>2 DEF SendKeeps
  <1> QED BY <1>1, <1>2, <1>3

LEMMA UnsentKeeps ==
    ASSUME SendType, SendBlocks, Permits, UNCHANGED sendVars,
           Same(cpc, "held")' = Same(cpc, "held"), Same(cpc, "freed")' = Same(cpc, "freed")
    PROVE  SendType' /\ SendBlocks' /\ Permits'
  <1>1. Filling' = Filling /\ Granted' = Granted
    BY DEF sendVars, Filling, Granted, In
  <1> QED BY <1>1 DEF sendVars, SendType, SendBlocks, Permits

\* The connection thread: what it takes out of the queue it frees, and then it
\* releases a permit.
LEMMA ConnectionBlocks ==
    ASSUME SendType, SendBlocks, Permits, ConnectionStep
    PROVE  SendType' /\ SendBlocks' /\ Permits'
  <1>t. /\ sendMail \in Seq(Outgoing) /\ Len(sendMail) \in Nat
        /\ sendPool \in Nat /\ sendSem \in Nat
        /\ "connection" \in Senders /\ "welcome" \in Outgoing
    BY DEF SendType, Senders, Outgoing
  <1>1. CASE ReportWelcome
    <2>1. SendKeeps
      BY <1>1, <1>t, SendCounts DEF ReportWelcome
    <2> QED BY <1>1, <2>1, SendingKeeps DEF ReportWelcome, Same
  <1>2. CASE SendStep("connection", "welcome") /\ UNCHANGED clientVars
    <2>1. SendKeeps
      BY <1>2, <1>t, SendCounts DEF SendStep
    <2> QED BY <1>2, <2>1, SendingKeeps DEF clientVars, Same
  <1>3. CASE Publish
    <2>1. /\ sendMail' = Tail(sendMail) /\ sendMail # <<>>
          /\ cpc = "send" /\ cpc' = "held"
          /\ UNCHANGED <<sendPool, sendSem, spc>>
      BY <1>3 DEF Publish
    <2>2. sendMail' \in Seq(Outgoing) /\ Len(sendMail') = Len(sendMail) - 1
      BY <2>1, <1>t
    <2>3. Filling' = Filling /\ Granted' = Granted
      BY <2>1 DEF Filling, Granted, In
    <2> QED BY <2>1, <2>2, <2>3, <1>t, CountsAt DEF SendType, SendBlocks, Permits, Same
  <1>4. CASE FreeSent
    <2>1. /\ sendPool' = sendPool + 1
          /\ cpc = "held" /\ cpc' = "freed"
          /\ UNCHANGED <<sendMail, sendSem, spc>>
      BY <1>4 DEF FreeSent
    <2>2. Filling' = Filling /\ Granted' = Granted
      BY <2>1 DEF Filling, Granted, In
    <2> QED BY <2>1, <2>2, <1>t, CountsAt DEF SendType, SendBlocks, Permits, Same
  <1>5. CASE ReleaseSent
    <2>1. cpc = "freed" /\ cpc' = "send" /\ Release
      BY <1>5 DEF ReleaseSent
    <2>2. /\ SendType'
          /\ Filling' = Filling
          /\ sendSem' + Granted' = sendSem + Granted + 1
          /\ UNCHANGED <<sendMail, sendPool>>
      BY <2>1, ReleaseCounts
    <2>3. sendSem' \in Nat
      BY <2>2 DEF SendType
    <2> QED BY <2>1, <2>2, <2>3, <1>t, CountsAt DEF SendBlocks, Permits, Same
  <1>6. CASE UNCHANGED sendVars /\ cpc \notin {"held", "freed"} /\ cpc' \notin {"held", "freed"}
    <2>1. Same(cpc, "held")' = Same(cpc, "held") /\ Same(cpc, "freed")' = Same(cpc, "freed")
      BY <1>6 DEF Same
    <2> QED BY <1>6, <2>1, UnsentKeeps
  <1>7. CASE \/ ConnectSocket \/ CheckClient \/ ConnectClient
             \/ SubscribeOk \/ SubscribeFails \/ ThrowUnsubscribed
             \/ Announced \/ Yield \/ Deliver \/ Signal
    BY <1>6, <1>7 DEF ConnectSocket, CheckClient, ConnectClient, destroy_client, SubscribeOk,
       SubscribeFails, SubscribeAllFails, ThrowUnsubscribed, Announced, Yield, Deliver, Signal,
       mailVars
  <1> QED BY <1>1, <1>2, <1>3, <1>4, <1>5, <1>7 DEF ConnectionStep

LEMMA SendBlocksStep ==
    ASSUME SendType, WorkInv, SendBlocks, Permits, [Next]_vars
    PROVE  SendType' /\ SendBlocks' /\ Permits'
  <1>1. CASE ConnectionStep
    BY <1>1, ConnectionBlocks
  <1>2. CASE ByzanceStep /\ UNCHANGED clientVars
    <2>c. Same(cpc, "held")' = Same(cpc, "held") /\ Same(cpc, "freed")' = Same(cpc, "freed")
      BY <1>2 DEF clientVars, Same
    <2>s. "byzance" \in Senders
      BY DEF Senders
    <2>1. CASE SendStep("byzance", Answer) /\ UNCHANGED workerVars
      <3>1. Put("byzance", Answer) => Answer \in Outgoing
        BY DEF Put, WorkInv, Answer, Outgoing
      <3>2. \/ SemExpires("byzance") \/ Alloc("byzance")
            \/ Put("byzance", Answer) /\ Answer \in Outgoing
        BY <2>1, <3>1 DEF SendStep
      <3>3. SendKeeps
        BY <3>2, <2>s, SendCounts
      <3> QED BY <3>3, <2>c, SendingKeeps
    <2>2. CASE send_response
      <3>1. SendKeeps
        BY <2>2, <2>s, SendCounts DEF send_response
      <3> QED BY <3>1, <2>c, SendingKeeps
    <2>3. CASE Listen \/ ListenExpires \/ Wake \/ GetMessage \/ process \/ DeleteIncoming
      <3>1. UNCHANGED sendVars
        BY <2>3 DEF Listen, ListenExpires, Wake, GetMessage, process, DeleteIncoming, mailVars
      <3> QED BY <3>1, <2>c, UnsentKeeps
    <2> QED BY <1>2, <2>1, <2>2, <2>3 DEF ByzanceStep
  <1>3. ASSUME NEW a \in Apps, AppStep(a), UNCHANGED <<clientVars, workerVars>>
        PROVE  SendType' /\ SendBlocks' /\ Permits'
    <2>1. a \in Senders /\ a \in Outgoing
      BY DEF Senders, Outgoing
    <2>2. SendKeeps
      BY <1>3, <2>1, SendCounts DEF AppStep, OutputSetValue, SendStep
    <2>3. Same(cpc, "held")' = Same(cpc, "held") /\ Same(cpc, "freed")' = Same(cpc, "freed")
      BY <1>3 DEF clientVars, Same
    <2> QED BY <2>2, <2>3, SendingKeeps
  <1>4. CASE Network \/ UNCHANGED vars
    <2>1. UNCHANGED <<sendVars, cpc>>
      BY <1>4 DEF Network, ConnectionLost, HomerPublishes, mailVars, vars, clientVars
    <2> QED BY <2>1, UnsentKeeps DEF Same
  <1> QED BY <1>1, <1>2, <1>3, <1>4 DEF Next

-----------------------------------------------------------------------------
(* The incoming mailbox.                                                   *)

\* A block is free, in the queue or held by the byzance thread.
LEMMA RecvBlocksStep ==
    ASSUME TypeOK, LoopInv, RecvBlocks, [Next]_vars
    PROVE  RecvBlocks' /\ recvMail' \in Seq(Incoming) /\ recvPool' \in Nat
  <1>t. /\ recvMail \in Seq(Incoming) /\ Len(recvMail) \in Nat
        /\ recvPool \in Nat /\ RecvSize \in Nat
    BY MailAssumption DEF TypeOK, MailTypeOK
  <1>0. CASE UNCHANGED <<recvMail, recvPool, bpc>>
    BY <1>0, <1>t DEF RecvBlocks
  <1>1. CASE Deliver /\ UNCHANGED workerVars
    <2>1. bpc' = bpc
      BY <1>1 DEF workerVars
    <2>2. CASE recvMail' = Append(recvMail, rx) /\ recvPool' = recvPool - 1 /\ recvPool > 0
      <3>1. rx \in Incoming
        BY <1>1 DEF Deliver, LoopInv
      <3>2. recvMail' \in Seq(Incoming) /\ Len(recvMail') = Len(recvMail) + 1
        BY <2>2, <3>1, <1>t
      <3> QED BY <2>1, <2>2, <3>2, <1>t DEF RecvBlocks
    <2>3. CASE UNCHANGED <<recvMail, recvPool>>
      BY <1>0, <2>1, <2>3
    <2> QED BY <1>1, <2>2, <2>3 DEF Deliver
  <1>2. CASE ConnectionStep /\ ~ Deliver /\ UNCHANGED workerVars
    BY <1>0, <1>2 DEF ConnectionStep, ConnectSocket, CheckClient, ConnectClient, destroy_client,
       SubscribeOk, SubscribeFails, SubscribeAllFails, ThrowUnsubscribed, ReportWelcome, Announced,
       Publish, FreeSent, ReleaseSent, Yield, Signal, SendStep, recvVars, mailVars, workerVars
  <1>3. CASE GetMessage
    <2>1. CASE recvMail = <<>>
      BY <1>3, <2>1, <1>t DEF GetMessage, RecvBlocks
    <2>2. CASE recvMail # <<>>
      <3>1. recvMail' \in Seq(Incoming) /\ Len(recvMail') = Len(recvMail) - 1
        BY <1>3, <2>2, <1>t DEF GetMessage
      <3> QED BY <1>3, <2>2, <3>1, <1>t DEF GetMessage, RecvBlocks
    <2> QED BY <2>1, <2>2
  <1>4. CASE Listen \/ ListenExpires \/ Wake \/ process \/ send_response \/ DeleteIncoming
    BY <1>4, <1>t DEF Listen, ListenExpires, Wake, process, send_response, DeleteIncoming,
       recvVars, mailVars, RecvBlocks
  <1>5. CASE SendStep("byzance", Answer) /\ UNCHANGED workerVars
    BY <1>0, <1>5 DEF SendStep, recvVars, workerVars
  <1>6. ASSUME NEW a \in Apps, AppStep(a), UNCHANGED <<clientVars, workerVars>>
        PROVE  RecvBlocks' /\ recvMail' \in Seq(Incoming) /\ recvPool' \in Nat
    BY <1>0, <1>6 DEF AppStep, OutputSetValue, SendStep, recvVars, workerVars
  <1>7. CASE (Network /\ UNCHANGED workerVars) \/ UNCHANGED vars
    BY <1>0, <1>7 DEF Network, ConnectionLost, HomerPublishes, mailVars, recvVars, workerVars, vars
  <1> QED BY <1>1, <1>2, <1>3, <1>4, <1>5, <1>6, <1>7 DEF Next, ByzanceStep

-----------------------------------------------------------------------------
(* Types.                                                                  *)

LEMMA EmptySeq ==
    ASSUME NEW S
    PROVE  <<>> \in Seq(S) /\ Len(<<>>) = 0
  OBVIOUS

LEMMA ClientTypeStep ==
    ASSUME TypeOK, LoopInv, [Next]_vars
    PROVE  ClientTypeOK'
  <1>t. /\ ClientTypeOK
        /\ Len(Topics) \in Nat \ {0} /\ MaxHandlers \in Nat /\ Retry \in Nat \ {0}
        /\ Budget \in Nat /\ Len(handlers) \in Nat /\ Len(inbox) \in Nat
        /\ \A k \in 1 .. Len(Topics) : Topics[k] \in {"d_in", "command_in"}
    BY ClientAssumption DEF TypeOK, ClientTypeOK
  <1>1. CASE UNCHANGED clientVars
    BY <1>1, <1>t DEF ClientTypeOK, clientVars, sessionVars, rxVars, netVars
  <1>2. CASE ConnectSocket \/ CheckClient
    BY <1>2, <1>t DEF ConnectSocket, CheckClient, ClientTypeOK, rxVars, netVars
  <1>d. ASSUME destroy_client, cnt' \in 0 .. Len(Topics), attempt' \in 0 .. Retry,
               UNCHANGED <<rx, handler, budget>>
        PROVE  ClientTypeOK'
    <2>1. /\ handlers' = <<>> /\ inbox' = <<>>
          /\ cpc' = "top" /\ sock' = "null" /\ client' = "null"
          /\ announced' = FALSE /\ alive' = FALSE
      BY <1>d DEF destroy_client
    <2>2. handlers' \in Seq({"d_in", "command_in"}) /\ Len(handlers') = 0
      BY <2>1, EmptySeq, Zenon
    <2>3. inbox' \in Seq(Incoming)
      BY <2>1, EmptySeq, Zenon
    <2>4. Len(handlers') <= MaxHandlers
      BY <2>2, <1>t
    <2> QED BY <1>d, <2>1, <2>2, <2>3, <2>4, <1>t DEF ClientTypeOK
  <1>3. CASE ConnectClient
    <2>1. CASE destroy_client /\ UNCHANGED <<cnt, attempt>>
      BY <1>3, <1>d, <1>t, <2>1 DEF ConnectClient, ClientTypeOK, rxVars
    <2>2. CASE ~ (destroy_client /\ UNCHANGED <<cnt, attempt>>)
      BY <1>3, <2>2, <1>t DEF ConnectClient, ClientTypeOK, rxVars
    <2> QED BY <2>1, <2>2
  <1>4. CASE SubscribeOk
    <2>1. cnt + 1 \in 1 .. Len(Topics)
      BY <1>4, <1>t DEF SubscribeOk, LoopInv, ClientTypeOK
    <2>2. handlers' \in Seq({"d_in", "command_in"}) /\ Len(handlers') <= MaxHandlers
      BY <1>4, <2>1, <1>t DEF SubscribeOk, ClientTypeOK
    <2> QED BY <1>4, <2>1, <2>2, <1>t DEF SubscribeOk, ClientTypeOK, rxVars, netVars
  <1>5. CASE SubscribeFails
    <2>1. attempt' \in 0 .. Retry
      BY <1>5, <1>t DEF SubscribeFails, LoopInv, ClientTypeOK
    <2>2. UNCHANGED <<cnt, rx, handler, budget>>
      BY <1>5 DEF SubscribeFails, rxVars
    <2>3. CASE destroy_client
      BY <1>d, <1>t, <2>1, <2>2, <2>3 DEF ClientTypeOK
    <2>4. CASE ~ destroy_client
      BY <1>5, <2>1, <2>2, <2>4, <1>t DEF SubscribeFails, SubscribeAllFails, ClientTypeOK
    <2> QED BY <2>3, <2>4
  <1>6. CASE ThrowUnsubscribed
    <2>1. inbox' \in Seq(Incoming)
      BY <1>6, <1>t DEF ThrowUnsubscribed, ClientTypeOK
    <2> QED BY <1>6, <2>1, <1>t DEF ThrowUnsubscribed, ClientTypeOK, sessionVars, rxVars
  <1>7. CASE ReportWelcome \/ Announced \/ FreeSent \/ ReleaseSent \/ Signal
    BY <1>7, <1>t DEF ReportWelcome, Announced, FreeSent, ReleaseSent, Signal, ClientTypeOK,
       sessionVars, rxVars, netVars
  <1>8. CASE Publish
    BY <1>8, <1>t DEF Publish, ClientTypeOK, rxVars, netVars
  <1>9. CASE Yield
    <2>1. /\ inbox' \in Seq(Incoming)
          /\ rx' \in Incoming \cup {"none"}
      <3>1. CASE UNCHANGED <<inbox, rx>>
        BY <3>1, <1>t DEF ClientTypeOK
      <3>2. CASE inbox # <<>> /\ rx' = Head(inbox) /\ inbox' = Tail(inbox)
        BY <3>2, <1>t DEF ClientTypeOK
      <3> QED BY <1>9, <3>1, <3>2 DEF Yield, rxVars
    <2> QED BY <1>9, <2>1, <1>t DEF Yield, ClientTypeOK, rxVars
  <1>10. CASE Deliver
    <2>1. handler' \in 1 .. MaxHandlers + 1
      BY <1>10, <1>t DEF Deliver, ClientTypeOK
    <2> QED BY <1>10, <2>1, <1>t DEF Deliver, ClientTypeOK, sessionVars, netVars
  <1>11. CASE Network
    <2>1. ASSUME NEW p \in Incoming, HomerPublishes(p)
          PROVE  ClientTypeOK'
      BY <2>1, <1>t DEF HomerPublishes, ClientTypeOK, sessionVars, rxVars
    <2>2. CASE ConnectionLost
      <3>1. inbox' \in Seq(Incoming)
        BY <2>2, EmptySeq DEF ConnectionLost
      <3> QED BY <2>2, <3>1, <1>t DEF ConnectionLost, ClientTypeOK, sessionVars, rxVars
    <2> QED BY <1>11, <2>1, <2>2 DEF Network
  <1> QED BY <1>1, <1>2, <1>3, <1>4, <1>5, <1>6, <1>7, <1>8, <1>9, <1>10, <1>11
          DEF Next, ConnectionStep, vars

LEMMA WorkerTypeStep ==
    ASSUME TypeOK, [Next]_vars
    PROVE  WorkerTypeOK'
  <1>t. /\ WorkerTypeOK /\ recvMail \in Seq(Incoming)
        /\ IdCapacity \in Nat \ {0} /\ Len(ids) \in Nat
    BY WorkerAssumption DEF TypeOK, MailTypeOK, WorkerTypeOK
  <1>1. CASE UNCHANGED workerVars
    BY <1>1, <1>t DEF WorkerTypeOK, workerVars
  <1>2. CASE Listen \/ ListenExpires \/ Wake \/ send_response \/ DeleteIncoming
    BY <1>2, <1>t DEF Listen, ListenExpires, Wake, send_response, DeleteIncoming, WorkerTypeOK
  <1>3. CASE GetMessage
    <2>1. msg' \in Incoming \cup {"none"}
      BY <1>3, <1>t DEF GetMessage, WorkerTypeOK
    <2> QED BY <1>3, <2>1, <1>t DEF GetMessage, WorkerTypeOK
  <1>4. CASE process
    <2>1. CASE msg \in Mids /\ ~ Known(msg)
      <3>1. ids' = add(msg) /\ done' = Append(done, msg)
        BY <1>4, <2>1 DEF process
      <3>2. add(msg) \in Seq(Mids) /\ Len(add(msg)) <= IdCapacity
        BY <2>1, <1>t, AddFacts DEF WorkerTypeOK
      <3>3. done' \in Seq(Mids)
        BY <2>1, <3>1, <1>t DEF WorkerTypeOK
      <3> QED BY <1>4, <3>1, <3>2, <3>3, <1>t DEF process, WorkerTypeOK
    <2>2. CASE ~ (msg \in Mids /\ ~ Known(msg))
      <3>1. UNCHANGED <<ids, done, msg>> /\ bpc' \in {"answer", "free"}
        BY <1>4, <2>2 DEF process
      <3> QED BY <3>1, <1>t DEF WorkerTypeOK
    <2> QED BY <2>1, <2>2
  <1> QED BY <1>1, <1>2, <1>3, <1>4 DEF Next, ByzanceStep, vars

\* The flags and the signal.
LEMMA FlagsStep ==
    ASSUME TypeOK, [Next]_vars
    PROVE  signal' \in BOOLEAN /\ connected' \in BOOLEAN /\ subscribed' \in BOOLEAN
  <1>t. signal \in BOOLEAN /\ connected \in BOOLEAN /\ subscribed \in BOOLEAN
    BY DEF TypeOK, MailTypeOK
  <1> USE DEF mailVars, recvVars
  <1>1. CASE ConnectionStep
    BY <1>1, <1>t DEF ConnectionStep, ConnectSocket, CheckClient, ConnectClient, destroy_client,
       SubscribeOk, SubscribeFails, SubscribeAllFails, ThrowUnsubscribed, ReportWelcome, Announced,
       Publish, FreeSent, ReleaseSent, Yield, Deliver, Signal, SendStep
  <1>2. CASE ByzanceStep
    BY <1>2, <1>t DEF ByzanceStep, Listen, ListenExpires, Wake, GetMessage, process, send_response,
       DeleteIncoming, SendStep
  <1>3. ASSUME NEW a \in Apps, AppStep(a)
        PROVE  UNCHANGED <<signal, connected, subscribed>>
    BY <1>3 DEF AppStep, OutputSetValue, SendStep
  <1>4. CASE Network \/ UNCHANGED vars
    BY <1>4, <1>t DEF Network, ConnectionLost, HomerPublishes, vars
  <1> QED BY <1>1, <1>2, <1>3, <1>4, <1>t DEF Next

\* The sums of the blocks bound the pools.
LEMMA PoolsBounded ==
    ASSUME SendType', SendBlocks', RecvBlocks', recvMail' \in Seq(Incoming), recvPool' \in Nat
    PROVE  sendPool' \in 0 .. SendSize /\ recvPool' \in 0 .. RecvSize
  <1>1. /\ sendPool' \in Nat /\ Len(sendMail') \in Nat /\ Len(recvMail') \in Nat
        /\ Same(cpc, "held")' \in Nat /\ SendSize \in Nat /\ RecvSize \in Nat
        /\ Filling' \in Nat
    BY MailAssumption, CountsAt DEF SendType, Same
  <1>2. PICK b \in Nat : b = Len(sendMail')
    BY <1>1
  <1>3. sendPool' \in 0 .. SendSize
    <2>1. sendPool' + b + Filling' + Same(cpc, "held")' = SendSize
      BY <1>2 DEF SendBlocks
    <2> QED BY <1>1, <2>1
  <1>4. PICK n \in Nat : n = Len(recvMail')
    BY <1>1
  <1>5. recvPool' \in 0 .. RecvSize
    <2>1. PICK r \in Nat : r = recvPool'
      OBVIOUS
    <2>2. r + n + 1 = RecvSize \/ r + n + 0 = RecvSize
      BY <1>4, <2>1 DEF RecvBlocks
    <2>3. r <= RecvSize
      BY <1>1, <2>2
    <2> QED BY <1>1, <2>1, <2>3
  <1> QED BY <1>3, <1>5

-----------------------------------------------------------------------------
(* The inductive invariant.                                                *)

IInv ==
    /\ TypeOK
    /\ SocketInv
    /\ NoLostWakeup
    /\ WorkInv
    /\ LoopInv
    /\ HandlersInv
    /\ IdsInv
    /\ NoRepeat
    /\ NoBlockLeaks
    /\ NoPermitLost

LEMMA InitIInv ==
    ASSUME Init
    PROVE  IInv
  <1> USE DEF Init, InitMails, InitClient, InitWorker
  <1>1. TypeOK
    <2>1. MailTypeOK
      <3>1. sendMail \in Seq(Outgoing) /\ recvMail \in Seq(Incoming)
        BY EmptySeq
      <3>2. spc \in [Senders -> {"idle", "blocked", "granted", "expired", "filling"}]
        OBVIOUS
      <3>3. sendPool \in 0 .. SendSize /\ recvPool \in 0 .. RecvSize /\ sendSem \in Nat
        BY MailAssumption
      <3> QED BY <3>1, <3>2, <3>3 DEF MailTypeOK
    <2>2. ClientTypeOK
      <3>1. Len(Topics) \in Nat /\ Retry \in Nat /\ MaxHandlers \in Nat /\ Budget \in Nat
        BY ClientAssumption
      <3>2. handlers \in Seq({"d_in", "command_in"}) /\ Len(handlers) <= MaxHandlers
        BY <3>1, EmptySeq
      <3>3. inbox \in Seq(Incoming)
        BY EmptySeq
      <3>4. /\ cnt \in 0 .. Len(Topics) /\ attempt \in 0 .. Retry
            /\ handler \in 1 .. MaxHandlers + 1 /\ budget \in 0 .. Budget
        BY <3>1
      <3> QED BY <3>2, <3>3, <3>4 DEF ClientTypeOK
    <2>3. WorkerTypeOK
      <3>1. ids \in Seq(Mids) /\ done \in Seq(Mids) /\ Len(ids) = 0
        BY EmptySeq
      <3> QED BY <3>1, WorkerAssumption DEF WorkerTypeOK
    <2> QED BY <2>1, <2>2, <2>3 DEF TypeOK
  <1>2. SocketInv /\ NoLostWakeup /\ LoopInv
    BY DEF SocketInv, ClientHasSocket, NoLostWakeup, LoopInv
  <1>3. WorkInv
    BY DEF WorkInv, Senders
  <1>4. HandlersInv
    BY DEF HandlersInv
  <1>5. IdsInv /\ NoRepeat
    BY WorkerAssumption DEF IdsInv, NoRepeat
  <1>6. In("filling") = {} /\ In("granted") = {}
    BY DEF In
  <1>7. Filling = 0 /\ Granted = 0
    BY <1>6, FS_EmptySet, Zenon DEF Filling, Granted
  <1>8. SendBlocks /\ RecvBlocks /\ Permits
    BY <1>7, MailAssumption DEF SendBlocks, RecvBlocks, Permits, Same
  <1> QED BY <1>1, <1>2, <1>3, <1>4, <1>5, <1>8, BlocksAre DEF IInv

LEMMA NextIInv ==
    ASSUME IInv, [Next]_vars
    PROVE  IInv'
  <1>1. SendType /\ SendBlocks /\ RecvBlocks /\ Permits /\ TypeOK /\ LoopInv /\ WorkInv
    BY SendTypeOf, BlocksAre DEF IInv
  <1>2. SendType' /\ SendBlocks' /\ Permits'
    BY <1>1, SendBlocksStep
  <1>3. RecvBlocks' /\ recvMail' \in Seq(Incoming) /\ recvPool' \in Nat
    BY <1>1, RecvBlocksStep
  <1>4. sendPool' \in 0 .. SendSize /\ recvPool' \in 0 .. RecvSize
    BY <1>2, <1>3, PoolsBounded
  <1>5. MailTypeOK'
    BY <1>1, <1>2, <1>3, <1>4, FlagsStep DEF SendType, SendPc, MailTypeOK
  <1>6. TypeOK'
    BY <1>1, <1>5, ClientTypeStep, WorkerTypeStep DEF TypeOK
  <1>7. SocketInv'
    BY SocketStep DEF IInv
  <1>8. NoLostWakeup'
    BY WakeupStep DEF IInv
  <1>9. WorkInv'
    <2>1. spc \in [Senders -> SendPc]
      BY <1>1 DEF SendType
    <2> QED BY <1>1, <2>1, WorkStep
  <1>10. LoopInv'
    BY <1>1, LoopStep
  <1>11. HandlersInv'
    BY <1>1, HandlersStep DEF IInv
  <1>12. IdsInv' /\ NoRepeat'
    BY IdsStep DEF IInv, TypeOK
  <1>13. NoBlockLeaks' /\ NoPermitLost'
    BY <1>2, <1>3, BlocksAre
  <1> QED BY <1>6, <1>7, <1>8, <1>9, <1>10, <1>11, <1>12, <1>13 DEF IInv

\* The inductive invariant holds in every reachable state.
THEOREM Invariance == Spec => []IInv
  <1>1. Init => IInv
    BY InitIInv
  <1>2. IInv /\ [Next]_vars => IInv'
    BY NextIInv
  <1> QED BY <1>1, <1>2, PTL DEF Spec

\* The mailboxes, the connection thread and the byzance thread keep their
\* types; the pools stay within their sizes and the loops within their bounds.
THEOREM TypeCorrect == Spec => []TypeOK
  <1>1. IInv => TypeOK
    BY DEF IInv
  <1> QED BY <1>1, Invariance, PTL

\* Every block of the two mailboxes is free, queued or held by one thread,
\* whichever way send_message and the two threads leave it.
THEOREM NoBlockLost == Spec => []NoBlockLeaks
  <1>1. IInv => NoBlockLeaks
    BY DEF IInv
  <1> QED BY <1>1, Invariance, PTL

\* Timeouts of _send_sem.wait and failed allocations lose no permit, with any
\* number of threads in send_message.
THEOREM NoPermitIsLost == Spec => []NoPermitLost
  <1>1. IInv => NoPermitLost
    BY DEF IInv
  <1> QED BY <1>1, Invariance, PTL

\* The byzance thread does not sleep on a received message.
THEOREM NoWakeupIsLost == Spec => []NoLostWakeup
  <1>1. IInv => NoLostWakeup
    BY DEF IInv
  <1> QED BY <1>1, Invariance, PTL

\* The MQTT client has its socket for as long as it exists.
THEOREM SocketOutlives == Spec => []ClientHasSocket
  <1>1. IInv => ClientHasSocket
    BY DEF IInv, SocketInv
  <1> QED BY <1>1, Invariance, PTL

\* A client that is up and subscribed has a handler for every topic, through
\* failed rounds of subscribe_all, reconnections and a full handler table.
THEOREM AllTopicsSubscribed == Spec => []SubscribedWhileUp
  <1>1. IInv => SubscribedWhileUp
    BY HandlersSubscribed DEF IInv
  <1> QED BY <1>1, Invariance, PTL

\* MsgIdBuffer lets no command through twice among IdCapacity successive ones.
THEOREM NoCommandTwice == Spec => []NoRepeat
  <1>1. IInv => NoRepeat
    BY DEF IInv
  <1> QED BY <1>1, Invariance, PTL
=============================================================================
