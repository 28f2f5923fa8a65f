-------------------------- MODULE HTTPClientsProofs --------------------------
(***************************************************************************)
(* Proofs about HTTPClients for every number of callers, retries, buffers  *)
(* and requests and every set of answers: which bodies stay what they      *)
(* were, and that no socket and no request is lost from the accounts.      *)
(***************************************************************************)
EXTENDS HTTPClients, FiniteSetTheorems, TLAPS

\* What holds of a caller wherever it is in Request.
CallerInv(c) ==
    /\ attempt[c] <= Retries
    /\ attempt[c] > 0 => lastErr[c]
    /\ pc[c] # "idle" => made[c] > 0
    /\ pc[c] = "idle" => attempt[c] = 0 /\ ~lastErr[c]
    /\ pc[c] = "backoff" => attempt[c] < Retries /\ lastErr[c]
    /\ pc[c] = "result" /\ ~lastErr[c] => reply[c] \in Replies
    /\ pc[c] \in {"connecting", "silent"} => kind = "fasthttp" /\ ~tunnel[c]

CallersInv == TypeOK /\ (\A c \in Callers : CallerInv(c)) /\ SocketsAccountedFor

\* What holds of a response in use: a body of its own is what was sent; another
\* one came without an encoding, and its buffer holds that answer or a later one.
HeldInv(c) ==
    /\ held[c].of <= answers
    /\ held[c].at = None => held[c].own = held[c].of
    /\ held[c].at # None =>
          kind = "fasthttp" /\ ~held[c].encoded /\ content[held[c].at] >= held[c].of

\* A buffer belongs to one request at a time, from its answer to the return, and
\* holds its body all the while.
BuffersInv ==
    /\ \A c \in Callers : buffer[c] # None =>
          kind = "fasthttp" /\ pc[c] = "result" /\ content[buffer[c]] = answer[c]
    /\ \A c, d \in Callers : buffer[c] # None /\ buffer[c] = buffer[d] => c = d
    /\ \A c \in Callers : pc[c] = "result" /\ ~lastErr[c] /\ kind = "fasthttp" =>
          buffer[c] \in Buffers
    /\ \A c \in Callers : answer[c] <= answers
    /\ \A b \in Buffers : content[b] <= answers

BodiesInv == BuffersInv /\ \A c \in Callers : HeldInv(c)

LEMMA InitCallers == Init => CallersInv
<1> SUFFICES ASSUME Init PROVE CallersInv
  OBVIOUS
<1> USE RetriesAssumption, NoneAssumption
<1>1. NoReply \in Replies \union {NoReply} /\ NoBody \in Nat
  BY DEF NoBody
<1>2. Nothing \in [of : Nat, encoded : BOOLEAN, own : Nat, at : Buffers \union {None}]
  BY <1>1 DEF Nothing
<1>3. TypeOK
  BY <1>1, <1>2 DEF Init, TypeOK
<1>4. \A c \in Callers : CallerInv(c)
  BY DEF Init, CallerInv, Retries
<1>5. SocketsAccountedFor
  BY DEF Init, SocketsAccountedFor
<1> QED
  BY <1>3, <1>4, <1>5 DEF CallersInv

LEMMA CountedType == \A names : TypeOK => Counted(names) \in [Counters -> Nat]
BY DEF TypeOK, Counted

LEMMA NextCallers == CallersInv /\ BodiesInv /\ [Next]_vars => CallersInv'
<1> SUFFICES ASSUME CallersInv, BodiesInv, [Next]_vars PROVE CallersInv'
  OBVIOUS
<1> USE RetriesAssumption, NoneAssumption
<1>0. /\ TypeOK /\ SocketsAccountedFor
      /\ \A c \in Callers : CallerInv(c)
      /\ \A names : Counted(names) \in [Counters -> Nat]
  BY CountedType DEF CallersInv
<1>1. ASSUME NEW c \in Callers, Begin(c) PROVE CallersInv'
  <2>1. TypeOK'
    BY <1>0, <1>1 DEF TypeOK, Begin, Goes, netVars, bodyVars
  <2>2. \A d \in Callers : CallerInv(d)'
    BY <1>0, <1>1 DEF TypeOK, CallerInv, Begin, Goes, netVars, bodyVars, Retries
  <2>3. SocketsAccountedFor'
    BY <1>0, <1>1 DEF TypeOK, SocketsAccountedFor, Begin, Goes, netVars, bodyVars
  <2> QED
    BY <2>1, <2>2, <2>3 DEF CallersInv
<1>2. ASSUME NEW c \in Callers, Reuse(c) PROVE CallersInv'
  <2>1. TypeOK'
    BY <1>0, <1>2 DEF TypeOK, Reuse, Goes, netVars, bodyVars
  <2>2. \A d \in Callers : CallerInv(d)'
    BY <1>0, <1>2 DEF TypeOK, CallerInv, Reuse, Goes, netVars, bodyVars, Retries
  <2>3. SocketsAccountedFor'
    BY <1>0, <1>2 DEF TypeOK, SocketsAccountedFor, Reuse, Goes, netVars, bodyVars
  <2> QED
    BY <2>1, <2>2, <2>3 DEF CallersInv
<1>3. ASSUME NEW c \in Callers, DialFails(c) PROVE CallersInv'
  <2>1. TypeOK'
    BY <1>0, <1>3 DEF TypeOK, CallerInv, SocketsAccountedFor, DialFails, Fails, Goes, Retries, netVars, bodyVars
  <2>2. \A d \in Callers : CallerInv(d)'
    BY <1>0, <1>3 DEF TypeOK, CallerInv, DialFails, Fails, Goes, Retries, netVars, bodyVars
  <2>3. SocketsAccountedFor'
    BY <1>0, <1>3 DEF TypeOK, CallerInv, SocketsAccountedFor, DialFails, Fails, Goes, netVars, bodyVars
  <2> QED
    BY <2>1, <2>2, <2>3 DEF CallersInv
<1>4. ASSUME NEW c \in Callers, Connect(c) PROVE CallersInv'
  <2>1. TypeOK'
    BY <1>0, <1>4 DEF TypeOK, CallerInv, SocketsAccountedFor, Connect, Goes, Retries, netVars, bodyVars
  <2>2. \A d \in Callers : CallerInv(d)'
    BY <1>0, <1>4 DEF TypeOK, CallerInv, Connect, Goes, Retries, netVars, bodyVars
  <2>3. SocketsAccountedFor'
    BY <1>0, <1>4 DEF TypeOK, CallerInv, SocketsAccountedFor, Connect, Goes, netVars, bodyVars
  <2> QED
    BY <2>1, <2>2, <2>3 DEF CallersInv
<1>5. ASSUME NEW c \in Callers, Connected(c) PROVE CallersInv'
  <2>1. TypeOK'
    BY <1>0, <1>5 DEF TypeOK, CallerInv, SocketsAccountedFor, Connected, Goes, Retries, netVars, bodyVars
  <2>2. \A d \in Callers : CallerInv(d)'
    BY <1>0, <1>5 DEF TypeOK, CallerInv, Connected, Goes, Retries, netVars, bodyVars
  <2>3. SocketsAccountedFor'
    BY <1>0, <1>5 DEF TypeOK, CallerInv, SocketsAccountedFor, Connected, Goes, netVars, bodyVars
  <2> QED
    BY <2>1, <2>2, <2>3 DEF CallersInv
<1>6. ASSUME NEW c \in Callers, GoesSilent(c) PROVE CallersInv'
  <2>1. TypeOK'
    BY <1>0, <1>6 DEF TypeOK, CallerInv, SocketsAccountedFor, GoesSilent, Goes, Retries, netVars, bodyVars
  <2>2. \A d \in Callers : CallerInv(d)'
    BY <1>0, <1>6 DEF TypeOK, CallerInv, GoesSilent, Goes, Retries, netVars, bodyVars
  <2>3. SocketsAccountedFor'
    BY <1>0, <1>6 DEF TypeOK, CallerInv, SocketsAccountedFor, GoesSilent, Goes, netVars, bodyVars
  <2> QED
    BY <2>1, <2>2, <2>3 DEF CallersInv
<1>7. ASSUME NEW c \in Callers, Refused(c) PROVE CallersInv'
  <2>1. TypeOK'
    BY <1>0, <1>7 DEF TypeOK, CallerInv, SocketsAccountedFor, Refused, Fails, Closed, Goes, Retries, netVars, bodyVars
  <2>2. \A d \in Callers : CallerInv(d)'
    BY <1>0, <1>7 DEF TypeOK, CallerInv, Refused, Fails, Closed, Goes, Retries, netVars, bodyVars
  <2>3. SocketsAccountedFor'
    BY <1>0, <1>7 DEF TypeOK, CallerInv, SocketsAccountedFor, Refused, Fails, Closed, Goes, netVars, bodyVars
  <2> QED
    BY <2>1, <2>2, <2>3 DEF CallersInv
<1>8. ASSUME NEW c \in Callers, Lost(c) PROVE CallersInv'
  <2>1. TypeOK'
    BY <1>0, <1>8 DEF TypeOK, CallerInv, SocketsAccountedFor, Lost, Fails, Goes, Retries, netVars, bodyVars
  <2>2. \A d \in Callers : CallerInv(d)'
    BY <1>0, <1>8 DEF TypeOK, CallerInv, Lost, Fails, Goes, Retries, netVars, bodyVars
  <2>3. SocketsAccountedFor'
    BY <1>0, <1>8 DEF TypeOK, CallerInv, SocketsAccountedFor, Lost, Fails, Goes, netVars, bodyVars
  <2> QED
    BY <2>1, <2>2, <2>3 DEF CallersInv
<1>9. ASSUME NEW c \in Callers, Answered(c) PROVE CallersInv'
  <2>1. PICK r \in Replies : reply' = [reply EXCEPT ![c] = r]
    BY <1>9 DEF Answered
  <2>2. /\ buffer' \in [Callers -> Buffers \union {None}]
        /\ content' \in [Buffers -> Nat]
        /\ answer' \in [Callers -> Nat] /\ answers' \in Nat
    <3>1. answers + 1 \in Nat
      BY <1>0 DEF TypeOK
    <3>2. CASE kind = "fasthttp"
      <4>1. PICK b \in Buffers : /\ buffer' = [buffer EXCEPT ![c] = b]
                                 /\ content' = [content EXCEPT ![b] = answers + 1]
        BY <1>9, <3>2 DEF Answered
      <4> QED
        BY <1>0, <1>9, <3>1, <4>1 DEF TypeOK, Answered
    <3>3. CASE kind # "fasthttp"
      BY <1>0, <1>9, <3>1, <3>3 DEF TypeOK, Answered
    <3> QED
      BY <3>2, <3>3
  <2>3. /\ pc' = [pc EXCEPT ![c] = "result"]
        /\ UNCHANGED <<kind, metered, made, attempt, lastErr, tunnel, sockets, held, count>>
        /\ pc[c] = "onTheWire"
    BY <1>9 DEF Answered, Goes, netVars
  <2>4. TypeOK'
    BY <1>0, <2>1, <2>2, <2>3 DEF TypeOK
  <2>5. \A d \in Callers : CallerInv(d)'
    BY <1>0, <2>1, <2>3 DEF TypeOK, CallerInv, Retries
  <2>6. SocketsAccountedFor'
    BY <1>0, <2>3 DEF TypeOK, SocketsAccountedFor
  <2> QED
    BY <2>4, <2>5, <2>6 DEF CallersInv
<1>10. ASSUME NEW c \in Callers, Backoff(c) PROVE CallersInv'
  <2>1. TypeOK'
    BY <1>0, <1>10 DEF TypeOK, CallerInv, SocketsAccountedFor, Backoff, NextAttempt, Goes, Retries, netVars, bodyVars
  <2>2. \A d \in Callers : CallerInv(d)'
    BY <1>0, <1>10 DEF TypeOK, CallerInv, Backoff, NextAttempt, Goes, Retries, netVars, bodyVars
  <2>3. SocketsAccountedFor'
    BY <1>0, <1>10 DEF TypeOK, CallerInv, SocketsAccountedFor, Backoff, NextAttempt, Goes, netVars, bodyVars
  <2> QED
    BY <2>1, <2>2, <2>3 DEF CallersInv
<1>11. ASSUME NEW c \in Callers, ReturnError(c) PROVE CallersInv'
  <2>1. TypeOK'
    BY <1>0, <1>11 DEF TypeOK, CallerInv, SocketsAccountedFor, ReturnError, RequestFailed, Leave, NoBody, Goes, Retries, netVars, bodyVars
  <2>2. \A d \in Callers : CallerInv(d)'
    BY <1>0, <1>11 DEF TypeOK, CallerInv, ReturnError, RequestFailed, Leave, Goes, Retries, netVars, bodyVars
  <2>3. SocketsAccountedFor'
    BY <1>0, <1>11 DEF TypeOK, CallerInv, SocketsAccountedFor, ReturnError, RequestFailed, Leave, Goes, netVars, bodyVars
  <2> QED
    BY <2>1, <2>2, <2>3 DEF CallersInv
<1>12. ASSUME NEW c \in Callers, ReturnUnreadable(c) PROVE CallersInv'
  <2>1. TypeOK'
    BY <1>0, <1>12 DEF TypeOK, CallerInv, SocketsAccountedFor, ReturnUnreadable, RequestFailed, Leave, NoBody, Goes, Retries, netVars, bodyVars
  <2>2. \A d \in Callers : CallerInv(d)'
    BY <1>0, <1>12 DEF TypeOK, CallerInv, ReturnUnreadable, RequestFailed, Leave, Goes, Retries, netVars, bodyVars
  <2>3. SocketsAccountedFor'
    BY <1>0, <1>12 DEF TypeOK, CallerInv, SocketsAccountedFor, ReturnUnreadable, RequestFailed, Leave, Goes, netVars, bodyVars
  <2> QED
    BY <2>1, <2>2, <2>3 DEF CallersInv
<1>13. ASSUME NEW c \in Callers, ReturnResponse(c) PROVE CallersInv'
  <2> DEFINE h == IF Copied(reply[c])
                  THEN [of |-> answer[c], encoded |-> reply[c].encoded,
                        own |-> BodyNow(c), at |-> None]
                  ELSE [of |-> answer[c], encoded |-> reply[c].encoded,
                        own |-> NoBody, at |-> buffer[c]]
  <2>1. ~lastErr[c] /\ attempt[c] = 0 /\ reply[c] \in Replies
    BY <1>0, <1>13 DEF TypeOK, CallerInv, ReturnResponse, RequestFailed
  <2>2. h \in [of : Nat, encoded : BOOLEAN, own : Nat, at : Buffers \union {None}]
    <3>1. /\ answer[c] \in Nat /\ buffer[c] \in Buffers \union {None}
          /\ NoBody \in Nat
      BY <1>0 DEF TypeOK, NoBody
    <3>2. reply[c].encoded \in BOOLEAN
      BY <2>1, RepliesAssumption
    <3>3. BodyNow(c) \in Nat
      <4>1. kind = "fasthttp" => buffer[c] \in Buffers
        BY <1>13, <2>1 DEF BodiesInv, BuffersInv, ReturnResponse
      <4> QED
        BY <1>0, <3>1, <4>1 DEF BodyNow, TypeOK
    <3> QED
      BY <3>1, <3>2, <3>3
  <2>3. held' = [held EXCEPT ![c] = h]
    BY <1>13 DEF ReturnResponse
  <2> HIDE DEF h
  <2>4. TypeOK'
    <3>1. /\ pc' = [pc EXCEPT ![c] = "idle"]
          /\ attempt' = [attempt EXCEPT ![c] = 0]
          /\ lastErr' = [lastErr EXCEPT ![c] = FALSE]
          /\ buffer' = [buffer EXCEPT ![c] = None]
          /\ reply' = [reply EXCEPT ![c] = NoReply]
          /\ answer' = [answer EXCEPT ![c] = NoBody] /\ NoBody = 0
          /\ UNCHANGED <<kind, metered, made, tunnel, sockets, content, answers>>
      BY <1>13 DEF ReturnResponse, Leave, Goes, netVars, NoBody
    <3>2. count' \in [Counters -> Nat]
      BY <1>0, <1>13 DEF ReturnResponse
    <3> QED
      BY <1>0, <2>2, <2>3, <3>1, <3>2 DEF TypeOK
  <2>5. \A d \in Callers : CallerInv(d)'
    BY <1>0, <1>13
       DEF TypeOK, CallerInv, ReturnResponse, Leave, Goes, netVars, Retries
  <2>6. SocketsAccountedFor'
    BY <1>0, <1>13 DEF TypeOK, SocketsAccountedFor, ReturnResponse, Leave, Goes, netVars
  <2> QED
    BY <2>4, <2>5, <2>6 DEF CallersInv
<1>14. ASSUME NEW c \in Callers, TunnelCloses(c) PROVE CallersInv'
  <2>1. TypeOK'
    BY <1>0, <1>14 DEF TypeOK, CallerInv, SocketsAccountedFor, TunnelCloses, Goes, Retries, netVars, bodyVars
  <2>2. \A d \in Callers : CallerInv(d)'
    BY <1>0, <1>14 DEF TypeOK, CallerInv, TunnelCloses, Goes, Retries, netVars, bodyVars
  <2>3. SocketsAccountedFor'
    BY <1>0, <1>14 DEF TypeOK, CallerInv, SocketsAccountedFor, TunnelCloses, Goes, netVars, bodyVars
  <2> QED
    BY <2>1, <2>2, <2>3 DEF CallersInv
<1>15. CASE UNCHANGED vars
  BY <1>0, <1>15 DEF CallersInv, TypeOK, CallerInv, SocketsAccountedFor, Retries, vars, netVars, bodyVars
<1> QED
  BY <1>1, <1>2, <1>3, <1>4, <1>5, <1>6, <1>7, <1>8, <1>9, <1>10, <1>11, <1>12, <1>13, <1>14, <1>15 DEF Next, Proceeds
-----------------------------------------------------------------------------
(* The bodies. *)

LEMMA InitBodies == Init => BodiesInv
BY NoneAssumption DEF Init, BodiesInv, BuffersInv, HeldInv, Nothing, NoBody

\* A step that neither gets an answer nor returns leaves the bodies alone.
LEMMA BodiesUntouched ==
  ASSUME BodiesInv, UNCHANGED <<kind, bodyVars, held>>,
         \A d \in Callers : \/ pc'[d] = pc[d] /\ lastErr'[d] = lastErr[d]
                            \/ pc[d] # "result" /\ (pc'[d] = "result" => lastErr'[d])
  PROVE  BodiesInv'
<1>1. \A d \in Callers : HeldInv(d)'
  BY DEF BodiesInv, HeldInv, bodyVars
<1>2. BuffersInv'
  BY DEF BodiesInv, BuffersInv, bodyVars
<1> QED
  BY <1>1, <1>2 DEF BodiesInv

\* A new answer goes to a buffer that no other request has, and is later than
\* every answer in use.
LEMMA BodiesAnswered ==
  ASSUME CallersInv, BodiesInv, NEW c \in Callers, Answered(c)
  PROVE  BodiesInv'
<1>1. /\ TypeOK /\ BuffersInv
      /\ pc[c] = "onTheWire" /\ pc' = [pc EXCEPT ![c] = "result"]
      /\ answers \in Nat /\ answers' = answers + 1
      /\ answer' = [answer EXCEPT ![c] = answers + 1]
      /\ UNCHANGED <<kind, lastErr, held>>
  BY DEF CallersInv, BodiesInv, TypeOK, Answered, Goes
<1>2. CASE kind = "fasthttp"
  <2>1. PICK b \in Buffers \ InUse : /\ buffer' = [buffer EXCEPT ![c] = b]
                                     /\ content' = [content EXCEPT ![b] = answers + 1]
    BY <1>2 DEF Answered
  <2>2. \A d \in Callers : buffer[d] # b
    BY <2>1, NoneAssumption DEF InUse
  <2>3. b # None /\ buffer'[c] = b /\ content'[b] = answers + 1 /\ answer'[c] = answers + 1
    BY <1>1, <2>1, NoneAssumption DEF TypeOK
  <2>4. \A d \in Callers : d # c => /\ buffer'[d] = buffer[d] /\ pc'[d] = pc[d]
                                   /\ answer'[d] = answer[d] /\ lastErr'[d] = lastErr[d]
    BY <1>1, <2>1 DEF TypeOK
  <2>5. \A e \in Buffers : /\ content'[e] = content[e] \/ content'[e] = answers + 1
                           /\ e # b => content'[e] = content[e]
    BY <1>1, <2>1 DEF TypeOK
  <2>6. \A d \in Callers : HeldInv(d)'
    <3> SUFFICES ASSUME NEW d \in Callers PROVE HeldInv(d)'
      OBVIOUS
    <3>1. HeldInv(d) /\ held[d].of \in Nat /\ held[d].at \in Buffers \union {None}
      BY <1>1 DEF BodiesInv, TypeOK
    <3> QED
      BY <1>1, <2>5, <3>1 DEF HeldInv
  <2>7. \A d \in Callers : /\ buffer'[d] # None =>
                                 /\ pc'[d] = "result"
                                 /\ content'[buffer'[d]] = answer'[d]
                           /\ answer'[d] <= answers'
    <3> SUFFICES ASSUME NEW d \in Callers, d # c
                 PROVE  /\ buffer'[d] # None => /\ pc'[d] = "result"
                                                /\ content'[buffer'[d]] = answer'[d]
                        /\ answer'[d] <= answers'
      BY <1>1, <2>3 DEF TypeOK
    <3>1. answer[d] \in Nat /\ answer[d] <= answers
      BY <1>1 DEF TypeOK, BuffersInv
    <3>2. ASSUME buffer[d] # None
          PROVE  pc[d] = "result" /\ content[buffer[d]] = answer[d] /\ buffer[d] \in Buffers
      BY <1>1, <3>2 DEF TypeOK, BuffersInv
    <3> QED
      BY <1>1, <2>2, <2>4, <2>5, <3>1, <3>2
  <2>8. \A d, e \in Callers : buffer'[d] # None /\ buffer'[d] = buffer'[e] => d = e
    BY <1>1, <2>2, <2>3, <2>4 DEF BuffersInv
  <2>9. \A d \in Callers : pc'[d] = "result" /\ ~lastErr'[d] => buffer'[d] \in Buffers
    BY <1>1, <1>2, <2>1, <2>3, <2>4 DEF BuffersInv
  <2>10. \A e \in Buffers : content'[e] <= answers'
    <3> SUFFICES ASSUME NEW e \in Buffers PROVE content'[e] <= answers'
      OBVIOUS
    <3>1. content[e] \in Nat /\ content[e] <= answers
      BY <1>1 DEF TypeOK, BuffersInv
    <3> QED
      BY <1>1, <2>5, <3>1
  <2>11. BuffersInv'
    BY <1>1, <1>2, <2>7, <2>8, <2>9, <2>10 DEF BuffersInv
  <2> QED
    BY <2>6, <2>11 DEF BodiesInv
<1>3. CASE kind # "fasthttp"
  <2>1. UNCHANGED <<buffer, content>>
    BY <1>3 DEF Answered
  <2>2. \A d \in Callers : buffer[d] = None /\ held[d].at = None
    BY <1>3 DEF BodiesInv, BuffersInv, HeldInv
  <2>3. \A d \in Callers : HeldInv(d)'
    <3> SUFFICES ASSUME NEW d \in Callers PROVE HeldInv(d)'
      OBVIOUS
    <3>1. HeldInv(d) /\ held[d].of \in Nat
      BY <1>1 DEF BodiesInv, TypeOK
    <3> QED
      BY <1>1, <2>1, <2>2, <3>1 DEF HeldInv
  <2>4. \A d \in Callers : answer'[d] <= answers'
    <3> SUFFICES ASSUME NEW d \in Callers PROVE answer'[d] <= answers'
      OBVIOUS
    <3>1. answer[d] \in Nat /\ answer[d] <= answers
      BY <1>1 DEF TypeOK, BuffersInv
    <3> QED
      BY <1>1, <3>1 DEF TypeOK
  <2>5. \A e \in Buffers : content'[e] <= answers'
    <3> SUFFICES ASSUME NEW e \in Buffers PROVE content'[e] <= answers'
      OBVIOUS
    <3>1. content[e] \in Nat /\ content[e] <= answers
      BY <1>1 DEF TypeOK, BuffersInv
    <3> QED
      BY <1>1, <2>1, <3>1
  <2>6. BuffersInv'
    BY <1>1, <1>3, <2>1, <2>2, <2>4, <2>5 DEF BuffersInv
  <2> QED
    BY <2>3, <2>6 DEF BodiesInv
<1> QED
  BY <1>2, <1>3

\* The request ends and gives its buffer back; the response it may return was
\* read from that buffer while it held the answer.
LEMMA BodiesReturned ==
  ASSUME CallersInv, BodiesInv, NEW c \in Callers, pc[c] = "result", Leave(c),
         \/ held' = held
         \/ ~lastErr[c] /\ ReturnResponse(c)
  PROVE  BodiesInv'
<1>1. /\ TypeOK /\ BuffersInv
      /\ pc' = [pc EXCEPT ![c] = "idle"]
      /\ buffer' = [buffer EXCEPT ![c] = None]
      /\ answer' = [answer EXCEPT ![c] = 0]
      /\ lastErr' = [lastErr EXCEPT ![c] = FALSE]
      /\ UNCHANGED <<kind, content, answers>>
  BY DEF CallersInv, BodiesInv, Leave, Goes, NoBody
<1>2. \A d \in Callers : d # c => /\ buffer'[d] = buffer[d] /\ pc'[d] = pc[d]
                                 /\ answer'[d] = answer[d] /\ lastErr'[d] = lastErr[d]
  BY <1>1 DEF TypeOK
<1>3. buffer'[c] = None /\ pc'[c] = "idle" /\ answer'[c] = 0 /\ answers \in Nat
  BY <1>1 DEF TypeOK
<1>4. BuffersInv'
  <2>1. \A d \in Callers : buffer'[d] # None => d # c
    BY <1>3
  <2>2. \A d \in Callers : answer'[d] <= answers'
    BY <1>1, <1>2, <1>3 DEF BuffersInv
  <2> QED
    BY <1>1, <1>2, <1>3, <2>1, <2>2 DEF BuffersInv
<1>5. ASSUME NEW d \in Callers, held'[d] = held[d] PROVE HeldInv(d)'
  BY <1>1, <1>5 DEF BodiesInv, HeldInv
<1>6. ASSUME ReturnResponse(c), ~lastErr[c] PROVE HeldInv(c)'
  <2>1. /\ kind = "fasthttp" => buffer[c] \in Buffers /\ content[buffer[c]] = answer[c]
        /\ answer[c] \in Nat /\ answer[c] <= answers
        /\ kind \in {"fasthttp", "http2"}
    BY <1>1, <1>6, NoneAssumption DEF BuffersInv, TypeOK
  <2>2. BodyNow(c) = answer[c]
    BY <2>1 DEF BodyNow
  <2>3. CASE Copied(reply[c])
    <3>1. held'[c] = [of |-> answer[c], encoded |-> reply[c].encoded,
                      own |-> BodyNow(c), at |-> None]
      BY <1>1, <1>6, <2>3 DEF TypeOK, ReturnResponse
    <3> QED
      BY <1>1, <2>1, <2>2, <3>1 DEF HeldInv
  <2>4. CASE ~Copied(reply[c])
    <3>1. held'[c] = [of |-> answer[c], encoded |-> reply[c].encoded,
                      own |-> NoBody, at |-> buffer[c]]
      BY <1>1, <1>6, <2>4 DEF TypeOK, ReturnResponse
    <3>2. kind = "fasthttp" /\ ~reply[c].encoded /\ buffer[c] # None
      BY <2>1, <2>4, NoneAssumption DEF Copied
    <3> QED
      BY <1>1, <2>1, <3>1, <3>2 DEF HeldInv
  <2> QED
    BY <2>3, <2>4
<1>7. \A d \in Callers : HeldInv(d)'
  <2>1. \A d \in Callers : d # c => held'[d] = held[d]
    BY <1>1 DEF TypeOK, ReturnResponse
  <2> QED
    BY <1>5, <1>6, <2>1
<1> QED
  BY <1>4, <1>7 DEF BodiesInv

LEMMA NextBodies == CallersInv /\ BodiesInv /\ [Next]_vars => BodiesInv'
<1> SUFFICES ASSUME CallersInv, BodiesInv, [Next]_vars PROVE BodiesInv'
  OBVIOUS
<1>0. TypeOK
  BY DEF CallersInv
<1>1. ASSUME NEW c \in Callers,
             \/ Begin(c) \/ Reuse(c) \/ DialFails(c) \/ Connect(c) \/ Connected(c)
             \/ GoesSilent(c) \/ Refused(c) \/ Lost(c) \/ Backoff(c) \/ TunnelCloses(c)
      PROVE  BodiesInv'
  <2>1. UNCHANGED <<kind, bodyVars, held>>
    BY <1>1 DEF Begin, Reuse, DialFails, Connect, Connected, GoesSilent, Refused, Lost,
                Backoff, TunnelCloses, Fails
  <2>2. \A d \in Callers : \/ pc'[d] = pc[d] /\ lastErr'[d] = lastErr[d]
                           \/ pc[d] # "result" /\ (pc'[d] = "result" => lastErr'[d])
    BY <1>0, <1>1 DEF TypeOK, Begin, Reuse, DialFails, Connect, Connected, GoesSilent,
                      Refused, Lost, Backoff, TunnelCloses, Fails, Goes
  <2> QED
    BY <2>1, <2>2, BodiesUntouched
<1>2. ASSUME NEW c \in Callers, Answered(c) PROVE BodiesInv'
  BY <1>2, BodiesAnswered
<1>3. ASSUME NEW c \in Callers, ReturnError(c) \/ ReturnUnreadable(c) PROVE BodiesInv'
  BY <1>3, BodiesReturned DEF ReturnError, ReturnUnreadable
<1>4. ASSUME NEW c \in Callers, ReturnResponse(c) PROVE BodiesInv'
  BY <1>4, BodiesReturned DEF ReturnResponse, RequestFailed
<1>5. CASE UNCHANGED vars
  BY <1>5, BodiesUntouched DEF vars
<1> QED
  BY <1>1, <1>2, <1>3, <1>4, <1>5 DEF Next, Proceeds
-----------------------------------------------------------------------------
(* The counters. *)

\* One request more, one less, or the same ones are running.
LEMMA RunningStep ==
  ASSUME TypeOK, NEW c \in Callers, NEW place, pc' = [pc EXCEPT ![c] = place]
  PROVE  /\ Running \in Nat
         /\ pc[c] = "idle" /\ place # "idle" => Running' = Running + 1
         /\ pc[c] # "idle" /\ place = "idle" => Running' = Running - 1
         /\ pc[c] # "idle" /\ place # "idle" => Running' = Running
<1> DEFINE R == {d \in Callers : pc[d] # "idle"}
           S == {d \in Callers : pc'[d] # "idle"}
<1>1. IsFiniteSet(R) /\ Cardinality(R) \in Nat
  BY CallersAssumption, FS_Subset, FS_CardinalityType
<1>2. Running = Cardinality(R) /\ Running' = Cardinality(S)
  BY DEF Running
<1>3. ASSUME pc[c] = "idle", place # "idle" PROVE Cardinality(S) = Cardinality(R) + 1
  <2>1. S = R \union {c} /\ c \notin R
    BY <1>3 DEF TypeOK
  <2> HIDE DEF R, S
  <2> QED
    BY <1>1, <2>1, FS_AddElement
<1>4. ASSUME pc[c] # "idle", place = "idle" PROVE Cardinality(S) = Cardinality(R) - 1
  <2>1. S = R \ {c} /\ c \in R
    BY <1>4 DEF TypeOK
  <2> HIDE DEF R, S
  <2> QED
    BY <1>1, <2>1, FS_RemoveElement
<1>5. ASSUME pc[c] # "idle", place # "idle" PROVE S = R
  BY <1>5 DEF TypeOK
<1> HIDE DEF R, S
<1> QED
  BY <1>1, <1>2, <1>3, <1>4, <1>5

LEMMA NextCounters == CallersInv /\ CountersBalance /\ [Next]_vars => CountersBalance'
<1> SUFFICES ASSUME CallersInv, CountersBalance, [Next]_vars PROVE CountersBalance'
  OBVIOUS
<1>0. TypeOK /\ count \in [Counters -> Nat] /\ metered \in BOOLEAN
  BY DEF CallersInv, TypeOK
<1>1. ASSUME NEW c \in Callers, Begin(c) PROVE CountersBalance'
  <2>1. Running \in Nat /\ Running' = Running + 1
    <3>1. PICK place \in {"attempt"} : pc' = [pc EXCEPT ![c] = place]
      BY <1>1 DEF Begin, Goes
    <3>2. pc[c] = "idle" /\ place # "idle"
      BY <1>1 DEF Begin
    <3> QED
      BY <1>0, <3>1, <3>2, RunningStep
  <2>2. count' = Counted({"requests"}) /\ metered' = metered
    BY <1>1 DEF Begin
  <2> QED
    BY <1>0, <2>1, <2>2 DEF CountersBalance, Counted, Counters
<1>2. ASSUME NEW c \in Callers, NEW place \in {"attempt", "connecting", "silent",
                                              "onTheWire", "backoff", "result"},
             pc[c] # "idle", pc' = [pc EXCEPT ![c] = place],
             count' \in {count, Counted(OfAttempt)}, metered' = metered
      PROVE  CountersBalance'
  <2>1. Running' = Running
    BY <1>0, <1>2, RunningStep
  <2>2. count' = count
    BY <1>0, <1>2 DEF Counted, OfAttempt
  <2> QED
    BY <1>2, <2>1, <2>2 DEF CountersBalance
<1>3. ASSUME NEW c \in Callers, pc[c] = "result", pc' = [pc EXCEPT ![c] = "idle"],
             metered' = metered, NEW names, count' = Counted(names),
             names \in {{"errors"}, {"responses", "errors", "limited"},
                        {"responses", "successful"}, {"responses"}}
      PROVE  CountersBalance'
  <2>1. Running \in Nat /\ Running' = Running - 1
    BY <1>0, <1>3, RunningStep
  <2> QED
    BY <1>0, <1>3, <2>1 DEF CountersBalance, Counted, Counters
<1>4. CASE UNCHANGED <<pc, metered, count>>
  BY <1>4 DEF CountersBalance, Running
<1>5. ASSUME NEW c \in Callers, Reuse(c) \/ DialFails(c) \/ Connect(c) \/ Connected(c)
                                  \/ GoesSilent(c) \/ Refused(c) \/ Lost(c)
      PROVE  CountersBalance'
  <2>1. /\ pc[c] # "idle" /\ metered' = metered
        /\ count' \in {count, Counted(OfAttempt)}
    BY <1>5 DEF Reuse, DialFails, Connect, Connected, GoesSilent, Refused, Lost, Fails
  <2>2. \E place \in {"attempt", "connecting", "silent", "onTheWire", "backoff", "result"} :
           pc' = [pc EXCEPT ![c] = place]
    BY <1>5 DEF Reuse, DialFails, Connect, Connected, GoesSilent, Refused, Lost, Fails, Goes
  <2> QED
    BY <1>2, <2>1, <2>2
<1>6. ASSUME NEW c \in Callers, Answered(c) \/ Backoff(c) PROVE CountersBalance'
  BY <1>2, <1>6 DEF Answered, Backoff, Goes
<1>7. ASSUME NEW c \in Callers, ReturnError(c) \/ ReturnUnreadable(c)
      PROVE  CountersBalance'
  BY <1>3, <1>7 DEF ReturnError, ReturnUnreadable, Leave, Goes
<1>8. ASSUME NEW c \in Callers, ReturnResponse(c) PROVE CountersBalance'
  <2> DEFINE names == CountersOf(reply[c].status)
  <2>1. names \in {{"responses", "errors", "limited"}, {"responses", "successful"},
                   {"responses"}}
    BY DEF CountersOf
  <2>2. count' = Counted(names)
    BY <1>8 DEF ReturnResponse
  <2> HIDE DEF names
  <2> QED
    BY <1>3, <1>8, <2>1, <2>2 DEF ReturnResponse, Leave, Goes
<1>9. ASSUME NEW c \in Callers, TunnelCloses(c) PROVE CountersBalance'
  BY <1>4, <1>9 DEF TunnelCloses
<1>10. CASE UNCHANGED vars
  BY <1>4, <1>10 DEF vars
<1> QED
  BY <1>1, <1>5, <1>6, <1>7, <1>8, <1>9, <1>10 DEF Next, Proceeds

LEMMA InitCounters == Init => CountersBalance
<1> SUFFICES ASSUME Init PROVE CountersBalance
  OBVIOUS
<1>1. {c \in Callers : pc[c] # "idle"} = {}
  BY DEF Init
<1>2. Running = 0
  BY <1>1, FS_EmptySet DEF Running
<1> QED
  BY <1>2 DEF Init, CountersBalance, Counters

\* What holds of every caller, every socket, every body and every counter.
ClientsInv == CallersInv /\ BodiesInv /\ CountersBalance

\* The accounts of callers, sockets, bodies and counters are kept in every behaviour.
THEOREM ClientsInvariant == Spec => []ClientsInv
<1>1. Init => ClientsInv
  BY InitCallers, InitBodies, InitCounters DEF ClientsInv
<1>2. ClientsInv /\ [Next]_vars => ClientsInv'
  BY NextCallers, NextBodies, NextCounters DEF ClientsInv
<1> QED
  BY <1>1, <1>2, PTL DEF Spec

\* A body stays what the server sent; one of fasthttp that came without an
\* encoding may turn into that of a later answer.
THEOREM BodiesStay == Spec => []BodiesKept
<1>1. ASSUME BodiesInv, TypeOK, NEW c \in Callers
      PROVE  \/ BodyRead(c) = held[c].of
             \/ kind = "fasthttp" /\ ~held[c].encoded /\ BodyRead(c) > held[c].of
  <2>1. HeldInv(c) /\ held[c].of \in Nat /\ held[c].at \in Buffers \union {None}
    BY <1>1 DEF BodiesInv, TypeOK
  <2>2. held[c].at # None => content[held[c].at] \in Nat
    BY <1>1, <2>1 DEF TypeOK
  <2> QED
    BY <2>1, <2>2 DEF HeldInv, BodyRead
<1>2. ClientsInv => BodiesKept
  BY <1>1 DEF ClientsInv, CallersInv, BodiesKept
<1> QED
  BY <1>2, ClientsInvariant, PTL

\* The sockets of a client are its tunnel and the one it is connecting, and the
\* counters account for every request.
THEOREM EverythingAccounted == Spec => []NothingLeftOver
<1>1. ClientsInv => NothingLeftOver
  BY DEF ClientsInv, CallersInv, NothingLeftOver
<1> QED
  BY <1>1, ClientsInvariant, PTL
=============================================================================
