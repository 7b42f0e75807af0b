-------------------------- MODULE RestServerProofs --------------------------
(* The servers of the REST provider, for every number of them, of requests *)
(* and of uploads, and every capacity of the incoming channel.             *)
EXTENDS RestServer, FiniteSetTheorems, TLAPS

USE ServerAssumption

(* Nobody runs a server but the one p.server names, and only a server that *)
(* is run listens.                                                         *)
Ports ==
  /\ \A s \in Servers : run[s] \in {"starting", "serving"} => server = s
  /\ \A s \in Servers : listener[s] = "open" => run[s] = "serving"

\* Shutdown closed the listener, for good.
Deaf ==
  \A s \in Servers : shutdown[s] \in {"draining", "drained", "done"} => listener[s] = "closed"

\* A request, or a Send that goes on, has its server.
Placed ==
  /\ \A p \in Posts : post[p] # "none" => at[p] \in Servers
  /\ \A p \in Posts : post[p] = "none" => uploads[p] = 0
  /\ \A p \in Posts : post[p] = "buffered" => uploads[p] # 0
  /\ \A m \in Outgoing : send[m] \in {"found", "indexed", "published"} => at[m] \in Servers

Handled == {"reading", "buffered", "sending"}

(* What is buffered is known to the server that has to release it, but for *)
(* the file a handler has just read.                                       *)
Tracked ==
  \A p \in Posts, u \in 1..MaxUploads : <<p, u>> \in buffers =>
    /\ u <= uploads[p]
    /\ <<p, u>> \in release[at[p]] \/ (post[p] = "buffered" /\ u = uploads[p])

\* A Shutdown that did not give up has waited for every request.
Drained ==
  \A s \in Servers : shutdown[s] \in {"drained", "done"} /\ s \notin timedOut =>
    \A p \in Posts : at[p] = s => post[p] \notin Handled

\* ... so what it left to release, it released.
Released ==
  \A s \in Servers : shutdown[s] = "done" /\ s \notin timedOut => release[s] = {}

\* The parts are indexed before anybody is told.
Indexed ==
  /\ \A m \in Outgoing : send[m] \in {"indexed", "published"} => m \in parts[at[m]]
  /\ \A p \in Posts : post[p] \in {"sending", "created"} => p \in parts[at[p]]

IInv ==
  /\ TypeOK /\ Ports /\ Deaf /\ Placed /\ Tracked /\ Drained /\ Released /\ Indexed


-----------------------------------------------------------------------------
\* Every initial state satisfies the invariant.
LEMMA InitHolds == Init => IInv
<1> SUFFICES ASSUME Init PROVE IInv OBVIOUS
<1>1. TypeOK BY DEF Init, TypeOK
<1>2. Ports /\ Deaf /\ Placed /\ Tracked BY DEF Init, Ports, Deaf, Placed, Tracked
<1>3. Drained /\ Released /\ Indexed BY DEF Init, Drained, Released, Indexed, Handled
<1> QED BY <1>1, <1>2, <1>3 DEF IInv

\* Every step keeps the invariant: one case per action.
LEMMA NextKeeps == IInv /\ [Next]_vars => IInv'
<1> SUFFICES ASSUME IInv, [Next]_vars PROVE IInv' OBVIOUS
<1>0. TypeOK /\ Ports /\ Deaf /\ Placed /\ Tracked /\ Drained /\ Released /\ Indexed BY DEF IInv
<1>1. ASSUME Listen PROVE IInv'
  <2>1. TypeOK' BY <1>0, <1>1 DEF TypeOK, Listen, requests
  <2>2. Ports'
    <3> DEFINE n == started + 1
    <3>1. n \in Servers /\ server = 0 /\ server' = n /\ listener' = listener
          /\ run' = [run EXCEPT ![n] = "starting"]
      BY <1>1 DEF Listen
    <3>2. 0 \notin Servers /\ DOMAIN run = Servers BY <1>0, FS_CardinalityType DEF TypeOK
    <3>3. \A s \in Servers : run[s] \notin {"starting", "serving"} /\ listener[s] # "open"
      BY <1>0, <3>1, <3>2 DEF Ports
    <3> HIDE DEF n
    <3> QED BY <1>0, <3>1, <3>2, <3>3 DEF TypeOK, Ports
  <2>3. Deaf' BY <1>0, <1>1 DEF TypeOK, Deaf, Listen, requests
  <2>4. Drained' BY <1>0, <1>1 DEF TypeOK, Drained, Handled, Listen, requests
  <2>5. Released' BY <1>0, <1>1 DEF TypeOK, Released, Listen, requests
  <2>6. Placed' /\ Tracked' /\ Indexed'
    BY <1>0, <1>1 DEF Placed, Tracked, Indexed, Listen, requests
  <2> QED BY <2>1, <2>2, <2>3, <2>4, <2>5, <2>6 DEF IInv
<1>2. ASSUME NEW s \in Servers, Cancel(s) PROVE IInv'
  <2>1. TypeOK' BY <1>0, <1>2 DEF TypeOK, Cancel, requests
  <2>2. Ports' BY <1>0, <1>2 DEF TypeOK, Ports, Cancel, requests
  <2>3. Deaf' BY <1>0, <1>2 DEF TypeOK, Deaf, Cancel, requests
  <2>4. Drained' BY <1>0, <1>2 DEF TypeOK, Drained, Handled, Cancel, requests
  <2>5. Released' BY <1>0, <1>2 DEF TypeOK, Released, Cancel, requests
  <2>6. Placed' /\ Tracked' /\ Indexed'
    BY <1>0, <1>2 DEF Placed, Tracked, Indexed, Cancel, requests
  <2> QED BY <2>1, <2>2, <2>3, <2>4, <2>5, <2>6 DEF IInv
<1>3. ASSUME NEW s \in Servers, Serve(s) PROVE IInv'
  <2>1. TypeOK' BY <1>0, <1>3 DEF TypeOK, Serve, requests
  <2>2. Ports' BY <1>0, <1>3 DEF TypeOK, Ports, Serve, requests
  <2>3. Deaf' BY <1>0, <1>3 DEF TypeOK, Deaf, Serve, requests
  <2>4. Placed' /\ Tracked' /\ Drained' /\ Released' /\ Indexed'
    BY <1>0, <1>3 DEF Placed, Tracked, Drained, Released, Indexed, Serve, requests
  <2> QED BY <2>1, <2>2, <2>3, <2>4 DEF IInv
<1>4. ASSUME NEW s \in Servers, Unregister(s) PROVE IInv'
  <2>1. TypeOK' BY <1>0, <1>4 DEF TypeOK, Unregister, requests
  <2>2. Ports' BY <1>0, <1>4 DEF TypeOK, Ports, Unregister, requests
  <2>3. Deaf' /\ Placed' /\ Tracked' /\ Drained' /\ Released' /\ Indexed'
    BY <1>0, <1>4 DEF Deaf, Placed, Tracked, Drained, Released, Indexed, Unregister, requests
  <2> QED BY <2>1, <2>2, <2>3 DEF IInv
<1>5. ASSUME NEW s \in Servers, CloseIncoming(s) PROVE IInv'
  <2>1. TypeOK' BY <1>0, <1>5 DEF TypeOK, CloseIncoming, requests
  <2>2. Ports' BY <1>0, <1>5 DEF TypeOK, Ports, CloseIncoming, requests
  <2>3. Deaf' /\ Placed' /\ Tracked' /\ Drained' /\ Released' /\ Indexed'
    BY <1>0, <1>5 DEF Deaf, Placed, Tracked, Drained, Released, Indexed, CloseIncoming, requests
  <2> QED BY <2>1, <2>2, <2>3 DEF IInv
<1>6. ASSUME NEW s \in Servers, ShutdownReturns(s) PROVE IInv'
  <2>1. TypeOK' BY <1>0, <1>6 DEF TypeOK, ShutdownReturns, requests
  <2>2. Deaf' BY <1>0, <1>6 DEF TypeOK, Deaf, ShutdownReturns, requests
  <2>3. Drained' BY <1>0, <1>6 DEF TypeOK, Drained, Handled, Running, ShutdownReturns, requests
  <2>4. Released' BY <1>0, <1>6 DEF TypeOK, Released, ShutdownReturns, requests
  <2>5. Ports' /\ Placed' /\ Tracked' /\ Indexed'
    BY <1>0, <1>6 DEF Ports, Placed, Tracked, Indexed, ShutdownReturns, requests
  <2> QED BY <2>1, <2>2, <2>3, <2>4, <2>5 DEF IInv
<1>7. ASSUME NEW s \in Servers, Cleanup(s) PROVE IInv'
  <2>1. TypeOK' BY <1>0, <1>7 DEF TypeOK, Cleanup
  <2>2. Deaf' BY <1>0, <1>7 DEF TypeOK, Deaf, Cleanup
  <2>3. Tracked' BY <1>0, <1>7 DEF TypeOK, Tracked, Cleanup
  <2>4. Drained' BY <1>0, <1>7 DEF TypeOK, Drained, Handled, Cleanup
  <2>5. Released' BY <1>0, <1>7 DEF TypeOK, Released, Cleanup
  <2>6. Ports' /\ Placed' /\ Indexed' BY <1>0, <1>7 DEF Ports, Placed, Indexed, Cleanup
  <2> QED BY <2>1, <2>2, <2>3, <2>4, <2>5, <2>6 DEF IInv
<1>8. ASSUME NEW p \in Posts, NEW s \in Servers, PostArrives(p, s) PROVE IInv'
  <2>1. TypeOK' BY <1>0, <1>8 DEF TypeOK, PostArrives, PostGoes, life
  <2>2. Placed' BY <1>0, <1>8 DEF TypeOK, Placed, PostArrives, PostGoes, life
  <2>3. Tracked' BY <1>0, <1>8 DEF TypeOK, Tracked, Placed, PostArrives, PostGoes, life
  <2>4. Drained' BY <1>0, <1>8 DEF TypeOK, Drained, Handled, Deaf, PostArrives, PostGoes, life
  <2>5. Indexed' BY <1>0, <1>8 DEF TypeOK, Indexed, PostArrives, PostGoes, life
  <2>6. Ports' /\ Deaf' /\ Released'
    BY <1>0, <1>8 DEF Ports, Deaf, Released, PostArrives, PostGoes, life
  <2> QED BY <2>1, <2>2, <2>3, <2>4, <2>5, <2>6 DEF IInv
<1>9. ASSUME NEW p \in Posts, ReadUpload(p) PROVE IInv'
  <2>1. TypeOK' BY <1>0, <1>9 DEF TypeOK, ReadUpload, PostGoes, life
  <2>2. Placed' BY <1>0, <1>9 DEF TypeOK, Placed, ReadUpload, PostGoes, life
  <2>3. Tracked' BY <1>0, <1>9 DEF TypeOK, Tracked, ReadUpload, PostGoes, life
  <2>4. Drained' BY <1>0, <1>9 DEF TypeOK, Drained, Handled, ReadUpload, PostGoes, life
  <2>5. Indexed' BY <1>0, <1>9 DEF TypeOK, Indexed, ReadUpload, PostGoes, life
  <2>6. Ports' /\ Deaf' /\ Released'
    BY <1>0, <1>9 DEF Ports, Deaf, Released, ReadUpload, PostGoes, life
  <2> QED BY <2>1, <2>2, <2>3, <2>4, <2>5, <2>6 DEF IInv
<1>10. ASSUME NEW p \in Posts, TrackRelease(p) PROVE IInv'
  <2>1. TypeOK' BY <1>0, <1>10 DEF TypeOK, Placed, TrackRelease, PostGoes, life
  <2>2. Placed' BY <1>0, <1>10 DEF TypeOK, Placed, TrackRelease, PostGoes, life
  <2>3. Tracked' BY <1>0, <1>10 DEF TypeOK, Placed, Tracked, TrackRelease, PostGoes, life
  <2>4. Drained' BY <1>0, <1>10 DEF TypeOK, Drained, Handled, TrackRelease, PostGoes, life
  <2>5. Released'
    BY <1>0, <1>10 DEF TypeOK, Drained, Handled, Placed, Released, TrackRelease, PostGoes, life
  <2>6. Indexed' BY <1>0, <1>10 DEF TypeOK, Indexed, TrackRelease, PostGoes, life
  <2>7. Ports' /\ Deaf' BY <1>0, <1>10 DEF Ports, Deaf, TrackRelease, PostGoes, life
  <2> QED BY <2>1, <2>2, <2>3, <2>4, <2>5, <2>6, <2>7 DEF IInv
<1>11. ASSUME NEW p \in Posts, UploadRefused(p) PROVE IInv'
  <2>1. TypeOK' BY <1>0, <1>11 DEF TypeOK, UploadRefused, PostGoes, life
  <2>2. Placed' BY <1>0, <1>11 DEF TypeOK, Placed, UploadRefused, PostGoes, life
  <2>3. Tracked' BY <1>0, <1>11 DEF TypeOK, Tracked, UploadRefused, PostGoes, life
  <2>4. Drained' BY <1>0, <1>11 DEF TypeOK, Drained, Handled, UploadRefused, PostGoes, life
  <2>5. Indexed' BY <1>0, <1>11 DEF TypeOK, Indexed, UploadRefused, PostGoes, life
  <2>6. Ports' /\ Deaf' /\ Released'
    BY <1>0, <1>11 DEF Ports, Deaf, Released, UploadRefused, PostGoes, life
  <2> QED BY <2>1, <2>2, <2>3, <2>4, <2>5, <2>6 DEF IInv
<1>12. ASSUME NEW p \in Posts, PostRejected(p) PROVE IInv'
  <2>1. TypeOK' BY <1>0, <1>12 DEF TypeOK, PostRejected, PostGoes, life
  <2>2. Placed' BY <1>0, <1>12 DEF TypeOK, Placed, PostRejected, PostGoes, life
  <2>3. Tracked' BY <1>0, <1>12 DEF TypeOK, Tracked, PostRejected, PostGoes, life
  <2>4. Drained' BY <1>0, <1>12 DEF TypeOK, Drained, Handled, PostRejected, PostGoes, life
  <2>5. Indexed' BY <1>0, <1>12 DEF TypeOK, Indexed, PostRejected, PostGoes, life
  <2>6. Ports' /\ Deaf' /\ Released'
    BY <1>0, <1>12 DEF Ports, Deaf, Released, PostRejected, PostGoes, life
  <2> QED BY <2>1, <2>2, <2>3, <2>4, <2>5, <2>6 DEF IInv
<1>13. ASSUME NEW p \in Posts, IndexParts(p) PROVE IInv'
  <2>1. TypeOK' BY <1>0, <1>13 DEF TypeOK, IndexParts, PostGoes, life
  <2>2. Placed' BY <1>0, <1>13 DEF TypeOK, Placed, IndexParts, PostGoes, life
  <2>3. Tracked' BY <1>0, <1>13 DEF TypeOK, Tracked, IndexParts, PostGoes, life
  <2>4. Drained' BY <1>0, <1>13 DEF TypeOK, Drained, Handled, IndexParts, PostGoes, life
  <2>5. Indexed' BY <1>0, <1>13 DEF TypeOK, Placed, Indexed, IndexParts, PostGoes, life
  <2>6. Ports' /\ Deaf' /\ Released'
    BY <1>0, <1>13 DEF Ports, Deaf, Released, IndexParts, PostGoes, life
  <2> QED BY <2>1, <2>2, <2>3, <2>4, <2>5, <2>6 DEF IInv
<1>14. ASSUME NEW p \in Posts, Queue(p) PROVE IInv'
  <2>1. TypeOK' BY <1>0, <1>14 DEF TypeOK, Placed, Queue, PostGoes, life
  <2>2. Placed' BY <1>0, <1>14 DEF TypeOK, Placed, Queue, PostGoes, life
  <2>3. Tracked' BY <1>0, <1>14 DEF TypeOK, Tracked, Queue, PostGoes, life
  <2>4. Drained' BY <1>0, <1>14 DEF TypeOK, Drained, Handled, Queue, PostGoes, life
  <2>5. Indexed' BY <1>0, <1>14 DEF TypeOK, Indexed, Queue, PostGoes, life
  <2>6. Ports' /\ Deaf' /\ Released'
    BY <1>0, <1>14 DEF Ports, Deaf, Released, Queue, PostGoes, life
  <2> QED BY <2>1, <2>2, <2>3, <2>4, <2>5, <2>6 DEF IInv
<1>15. ASSUME NEW p \in Posts, PostPanics(p) PROVE IInv'
  <2>1. TypeOK' BY <1>0, <1>15 DEF TypeOK, PostPanics, PostGoes, life
  <2>2. Placed' BY <1>0, <1>15 DEF TypeOK, Placed, PostPanics, PostGoes, life
  <2>3. Tracked' BY <1>0, <1>15 DEF TypeOK, Tracked, PostPanics, PostGoes, life
  <2>4. Drained' BY <1>0, <1>15 DEF TypeOK, Drained, Handled, PostPanics, PostGoes, life
  <2>5. Indexed' BY <1>0, <1>15 DEF TypeOK, Indexed, PostPanics, PostGoes, life
  <2>6. Ports' /\ Deaf' /\ Released'
    BY <1>0, <1>15 DEF Ports, Deaf, Released, PostPanics, PostGoes, life
  <2> QED BY <2>1, <2>2, <2>3, <2>4, <2>5, <2>6 DEF IInv
<1>16. ASSUME NEW p \in Posts, PostAbandoned(p) PROVE IInv'
  <2>1. TypeOK' BY <1>0, <1>16 DEF TypeOK, PostAbandoned, PostGoes, life
  <2>2. Placed' BY <1>0, <1>16 DEF TypeOK, Placed, PostAbandoned, PostGoes, life
  <2>3. Tracked' BY <1>0, <1>16 DEF TypeOK, Tracked, PostAbandoned, PostGoes, life
  <2>4. Drained' BY <1>0, <1>16 DEF TypeOK, Drained, Handled, PostAbandoned, PostGoes, life
  <2>5. Indexed' BY <1>0, <1>16 DEF TypeOK, Indexed, PostAbandoned, PostGoes, life
  <2>6. Ports' /\ Deaf' /\ Released'
    BY <1>0, <1>16 DEF Ports, Deaf, Released, PostAbandoned, PostGoes, life
  <2> QED BY <2>1, <2>2, <2>3, <2>4, <2>5, <2>6 DEF IInv
<1>17. ASSUME NEW e \in Streams, NEW s \in Servers, StreamArrives(e, s) PROVE IInv'
  <2>1. TypeOK' BY <1>0, <1>17 DEF TypeOK, StreamArrives, life
  <2>2. Placed' BY <1>0, <1>17 DEF TypeOK, Placed, StreamArrives, life
  <2>3. Tracked' BY <1>0, <1>17 DEF TypeOK, Tracked, StreamArrives, life
  <2>4. Drained' BY <1>0, <1>17 DEF TypeOK, Drained, Handled, StreamArrives, life
  <2>5. Indexed' BY <1>0, <1>17 DEF TypeOK, Indexed, StreamArrives, life
  <2>6. Ports' /\ Deaf' /\ Released'
    BY <1>0, <1>17 DEF Ports, Deaf, Released, StreamArrives, life
  <2> QED BY <2>1, <2>2, <2>3, <2>4, <2>5, <2>6 DEF IInv
<1>18. ASSUME NEW e \in Streams, Subscribe(e) PROVE IInv'
  <2>1. TypeOK' BY <1>0, <1>18 DEF TypeOK, Subscribe, life
  <2>2. Ports' /\ Deaf' /\ Placed' /\ Tracked' /\ Drained' /\ Released' /\ Indexed'
    BY <1>0, <1>18 DEF Ports, Deaf, Placed, Tracked, Drained, Released, Indexed, Subscribe, life
  <2> QED BY <2>1, <2>2 DEF IInv
<1>19. ASSUME NEW e \in Streams, StreamEnds(e) PROVE IInv'
  <2>1. TypeOK' BY <1>0, <1>19 DEF TypeOK, StreamEnds, life
  <2>2. Ports' /\ Deaf' /\ Placed' /\ Tracked' /\ Drained' /\ Released' /\ Indexed'
    BY <1>0, <1>19 DEF Ports, Deaf, Placed, Tracked, Drained, Released, Indexed, StreamEnds,
       life
  <2> QED BY <2>1, <2>2 DEF IInv
<1>20. ASSUME NEW m \in Outgoing, Send(m) PROVE IInv'
  <2>1. TypeOK' BY <1>0, <1>20 DEF TypeOK, Send, life, requests
  <2>2. Placed' BY <1>0, <1>20 DEF TypeOK, Placed, Send, life, requests
  <2>3. Tracked' BY <1>0, <1>20 DEF TypeOK, Tracked, Send, life, requests
  <2>4. Drained' BY <1>0, <1>20 DEF TypeOK, Drained, Handled, Send, life, requests
  <2>5. Indexed' BY <1>0, <1>20 DEF TypeOK, Indexed, Send, life, requests
  <2>6. Ports' /\ Deaf' /\ Released'
    BY <1>0, <1>20 DEF Ports, Deaf, Released, Send, life, requests
  <2> QED BY <2>1, <2>2, <2>3, <2>4, <2>5, <2>6 DEF IInv
<1>21. ASSUME NEW m \in Outgoing, SendIndexes(m) PROVE IInv'
  <2>1. TypeOK' BY <1>0, <1>21 DEF TypeOK, SendIndexes, life, requests
  <2>2. Placed' BY <1>0, <1>21 DEF TypeOK, Placed, SendIndexes, life, requests
  <2>3. Indexed' BY <1>0, <1>21 DEF TypeOK, Placed, Indexed, SendIndexes, life, requests
  <2>4. Ports' /\ Deaf' /\ Tracked' /\ Drained' /\ Released'
    BY <1>0, <1>21 DEF Ports, Deaf, Tracked, Drained, Released, SendIndexes, life, requests
  <2> QED BY <2>1, <2>2, <2>3, <2>4 DEF IInv
<1>22. ASSUME NEW m \in Outgoing, SendPublishes(m) PROVE IInv'
  <2>1. TypeOK' BY <1>0, <1>22 DEF TypeOK, SendPublishes, life, requests
  <2>2. Placed' BY <1>0, <1>22 DEF TypeOK, Placed, SendPublishes, life, requests
  <2>3. Indexed' BY <1>0, <1>22 DEF TypeOK, Indexed, SendPublishes, life, requests
  <2>4. Ports' /\ Deaf' /\ Tracked' /\ Drained' /\ Released'
    BY <1>0, <1>22 DEF Ports, Deaf, Tracked, Drained, Released, SendPublishes, life, requests
  <2> QED BY <2>1, <2>2, <2>3, <2>4 DEF IInv
<1>23. ASSUME NEW s \in Servers, Receive(s) PROVE IInv'
  <2>1. TypeOK'
    <3>1. /\ incoming[s] \in Seq(Posts) /\ incoming[s] # <<>>
          /\ \A t \in Servers : incoming[t] \in Seq(Posts) /\ Len(incoming[t]) <= BufferSize
          /\ incoming' = [incoming EXCEPT ![s] = Tail(incoming[s])]
          /\ incoming \in [Servers -> Seq(Posts)]
      BY <1>0, <1>23 DEF TypeOK, Receive
    <3>2. /\ Tail(incoming[s]) \in Seq(Posts) /\ Head(incoming[s]) \in Posts
          /\ Len(Tail(incoming[s])) <= BufferSize
      BY <3>1
    <3>3. incoming' \in [Servers -> Seq(Posts)] /\ \A t \in Servers : Len(incoming'[t]) <= BufferSize
      BY <3>1, <3>2
    <3>4. read' \subseteq Posts BY <1>0, <1>23, <3>2 DEF TypeOK, Receive
    <3> QED BY <1>0, <1>23, <3>3, <3>4 DEF TypeOK, Receive, life, requests
  <2>2. Ports' /\ Deaf' /\ Placed' /\ Tracked' /\ Drained' /\ Released' /\ Indexed'
    BY <1>0, <1>23 DEF Ports, Deaf, Placed, Tracked, Drained, Released, Indexed, Receive,
       life, requests
  <2> QED BY <2>1, <2>2 DEF IInv
<1>24. CASE UNCHANGED vars
  BY <1>0, <1>24 DEF IInv, TypeOK, Ports, Deaf, Placed, Tracked, Drained, Released, Indexed,
                     vars, life, requests
<1> QED
  BY <1>1, <1>2, <1>3, <1>4, <1>5, <1>6, <1>7, <1>8, <1>9, <1>10, <1>11, <1>12, <1>13, <1>14,
     <1>15, <1>16, <1>17, <1>18, <1>19, <1>20, <1>21, <1>22, <1>23, <1>24 DEF Next, RunStep,
     ShutdownStep, PostStep, SendStep

(* Every reachable state satisfies the invariant.                          *)
THEOREM Invariance == Spec => []IInv
  BY InitHolds, NextKeeps, PTL DEF Spec

(* No two servers hold the port, and no channel of Listen holds more than  *)
(* it has room for: the next server starts when p.server is nil, which it  *)
(* is only once the listener of the one before is gone.                    *)
THEOREM OnePortAtATime == Spec => []OneListener
<1>1. IInv => OneListener
  <2> SUFFICES ASSUME TypeOK, Ports PROVE OneListener BY DEF IInv
  <2> DEFINE open == {s \in Servers : listener[s] = "open"}
  <2>1. open \subseteq {server} BY DEF Ports
  <2>2. IsFiniteSet({server}) /\ Cardinality({server}) = 1 BY FS_Singleton
  <2>3. Cardinality(open) <= 1 BY <2>1, <2>2, FS_Subset
  <2> QED BY <2>3 DEF OneListener
<1> QED BY <1>1, Invariance, PTL

(* A server that was shut down in time holds no content of an upload:      *)
(* Shutdown waited for every handler, so all that was read was known to    *)
(* the server when releaseAll went through it.                             *)
THEOREM UploadsReleased == Spec => []NothingLeaks
<1>1. IInv => NothingLeaks
  <2> SUFFICES ASSUME TypeOK, Placed, Tracked, Drained, Released,
                      NEW s \in Servers, shutdown[s] = "done", s \notin timedOut,
                      NEW p \in Posts, at[p] = s,
                      NEW b \in buffers \intersect UploadsOf(p)
               PROVE  FALSE
    BY DEF IInv, NothingLeaks
  <2>1. PICK u \in 1..MaxUploads : b = <<p, u>> BY DEF TypeOK, UploadsOf
  <2>2. post[p] \notin Handled /\ release[s] = {} BY DEF Drained, Released
  <2> QED BY <2>1, <2>2 DEF Tracked, Handled
<1> QED BY <1>1, Invariance, PTL

(* Whoever knows of a message finds its parts indexed, at the server the   *)
(* request or the Send began with.                                         *)
THEOREM IndexedBeforeTold == Spec => []KnownIsDownloadable
<1>1. IInv => KnownIsDownloadable BY DEF IInv, Indexed, KnownIsDownloadable
<1> QED BY <1>1, Invariance, PTL

=============================================================================
