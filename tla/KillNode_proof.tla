---------------------------- MODULE KillNode_proof ----------------------------
(***************************************************************************)
(* Proofs about KillNode: whom a signal reaches, for any number of nodes,  *)
(* processes, ports, process ids and calls served at once.                 *)
(***************************************************************************)
EXTENDS KillNode, SequenceTheorems, TLAPS

-----------------------------------------------------------------------------
(* The invariant.                                                          *)

\* No process id and no port is given twice at a time on one host.
IdsAreUnique ==
  \A p, q \in Born :
    /\ Alive(p) /\ Alive(q) /\ processes[p].host = processes[q].host
    /\ processes[p].pid = processes[q].pid \/ processes[p].port = processes[q].port
    => p = q

Registered ==
  /\ master \in [Nodes -> 0..Len(processes)]
  /\ \A n \in Nodes : master[n] # Nobody => processes[master[n]].node = n

\* q answered at the URI that p registered: it is p, or p has left it its port.
AnsweredFor(q, p) ==
  /\ processes[q].host = processes[p].host /\ processes[q].port = processes[p].port
  /\ q # p => ~Alive(p)

\* What a handler has found: h.found answered h.pid at h.uri, if that is known.
Found(h) ==
  /\ h.found \in Born /\ processes[h.found].pid = h.pid
  /\ h.uri # Nobody => AnsweredFor(h.found, h.uri)

Handles(h) ==
  /\ h \in Handler
  /\ h.uri \in 0..Len(processes)
  /\ h.at # "idle" => h.node \in Nodes
  /\ h.uri # Nobody => processes[h.uri].node = h.node
  /\ h.at \in {"check", "signal"} /\ h.pid # NoPid => Found(h)
  /\ h.at = "signal" => h.uri # Nobody /\ h.pid # NoPid /\ processes[h.uri].host = "local"

Handling == DOMAIN request = Requests /\ \A r \in Requests : Handles(request[r])

HitsTyped == hits \subseteq [hit : Born, answered : Born, registered : Born, name : Nodes]

\* What OnlySuccessorsAreHit says of one hit.
OnlySuccessors(h) ==
  /\ processes[h.registered].node = h.name
  /\ processes[h.hit].host = "local" /\ processes[h.registered].host = "local"
  /\ h.answered # h.registered =>
       ~Alive(h.registered) /\ processes[h.answered].port = processes[h.registered].port
  /\ h.hit # h.answered =>
       ~Alive(h.answered) /\ processes[h.answered].pid = processes[h.hit].pid

IInv ==
  /\ processes \in Seq(Process) /\ Len(processes) <= MaxProcesses
  /\ IdsAreUnique /\ Registered /\ request \in [Requests -> Handler] /\ Handling
  /\ HitsTyped /\ OnlySuccessorsAreHit

LEMMA Constants == NoPid \notin Pids /\ MaxProcesses \in Nat
  BY KillAssumption DEF KillAssumption, NoPid

LEMMA InitIInv == Init => IInv
<1> SUFFICES ASSUME Init PROVE IInv
  OBVIOUS
<1>1. processes = <<>> /\ Len(processes) = 0 /\ processes \in Seq(Process)
  BY SMT DEF Init
<1>2. IdsAreUnique
  BY <1>1, SMT DEF IdsAreUnique, Born
<1>3. Registered
  BY <1>1, SMT DEF Registered, Init, Nobody
<1>4. Idle \in Handler /\ Idle.at = "idle" /\ Idle.uri = 0
  BY Constants, SMT DEF Idle, Asked, Handler, NoName, Nobody, NoPid
<1>5. request \in [Requests -> Handler] /\ Handling
  BY <1>1, <1>4, SMT DEF Init, Handling, Handles, Nobody
<1>6. HitsTyped /\ OnlySuccessorsAreHit
  BY DEF Init, HitsTyped, OnlySuccessorsAreHit
<1> QED BY <1>1, <1>2, <1>3, <1>5, <1>6, Constants DEF IInv

-----------------------------------------------------------------------------
(* Nodes come and go.                                                      *)

\* What becomes of the processes: nothing but new ones and ends.
Later ==
  /\ Len(processes) <= Len(processes') /\ Len(processes) \in Nat /\ Len(processes') \in Nat
  /\ \A p \in Born :
       /\ processes'[p].node = processes[p].node /\ processes'[p].host = processes[p].host
       /\ processes'[p].pid = processes[p].pid /\ processes'[p].port = processes[p].port
       /\ processes'[p].alive => processes[p].alive

LEMMA StartIsLater ==
  ASSUME IInv, NEW n \in Nodes, NEW host \in Hosts, StartNode(n, host)
  PROVE  /\ processes' \in Seq(Process) /\ Len(processes') <= MaxProcesses
         /\ IdsAreUnique' /\ Registered' /\ Later
<1> USE DEF IInv
<1>1. PICK pid \in Pids, port \in Ports :
        /\ \A p \in Born :
             Alive(p) /\ processes[p].host = host =>
               processes[p].pid # pid /\ processes[p].port # port
        /\ processes' = Append(processes, [node |-> n, host |-> host, port |-> port,
                                           pid |-> pid, alive |-> TRUE])
  BY Zenon DEF StartNode
<1> DEFINE new == [node |-> n, host |-> host, port |-> port, pid |-> pid, alive |-> TRUE]
<1>2. /\ new \in Process /\ new.node = n /\ new.host = host
      /\ new.port = port /\ new.pid = pid
  BY DEF Process
<1> HIDE DEF new
<1>3. processes' = Append(processes, new) /\ Len(processes) \in Nat
  BY <1>1 DEF new
<1>4. /\ processes' \in Seq(Process) /\ Len(processes') = Len(processes) + 1
      /\ \A p \in 1..Len(processes) : processes'[p] = processes[p]
      /\ processes'[Len(processes) + 1] = new
  BY <1>2, <1>3, AppendProperties
<1>5. Len(processes') <= MaxProcesses
  BY <1>3, <1>4, Constants, SMT DEF StartNode
<1>6. Later
  BY <1>3, <1>4, SMT DEF Later, Born
<1>7. Registered'
  <2>1. master' = [master EXCEPT ![n] = Len(processes')]
    BY DEF StartNode
  <2>2. master' \in [Nodes -> 0..Len(processes')]
    BY <1>3, <1>4, <2>1, SMT DEF Registered
  <2>3. ASSUME NEW m \in Nodes, master'[m] # Nobody PROVE processes'[master'[m]].node = m
    <3>1. CASE m = n
      <4>1. master'[m] = Len(processes) + 1
        BY <1>4, <2>1, <3>1 DEF Registered
      <4> QED BY <1>2, <1>4, <3>1, <4>1
    <3>2. CASE m # n
      <4>1. master'[m] = master[m] /\ master[m] \in 0..Len(processes)
        BY <2>1, <3>2 DEF Registered
      <4>2. master[m] \in 1..Len(processes)
        BY <1>3, <2>3, <4>1, SMT DEF Nobody
      <4> QED BY <1>4, <2>3, <4>1, <4>2 DEF Registered
    <3> QED BY <3>1, <3>2
  <2> QED BY <2>2, <2>3 DEF Registered
<1>8. IdsAreUnique'
  <2> SUFFICES ASSUME NEW p \in Born', NEW q \in Born',
                      processes'[p].alive, processes'[q].alive,
                      processes'[p].host = processes'[q].host,
                      \/ processes'[p].pid = processes'[q].pid
                      \/ processes'[p].port = processes'[q].port
               PROVE  p = q
    BY DEF IdsAreUnique, Alive
  <2>1. /\ p \in 1..Len(processes) \/ p = Len(processes) + 1
        /\ q \in 1..Len(processes) \/ q = Len(processes) + 1
    BY <1>3, <1>4, SMT DEF Born
  <2>2. CASE p \in 1..Len(processes) /\ q \in 1..Len(processes)
    BY <1>4, <2>2 DEF IdsAreUnique, Born, Alive
  <2>3. CASE p \in 1..Len(processes) /\ q = Len(processes) + 1
    BY <1>1, <1>2, <1>4, <2>3 DEF Born, Alive
  <2>4. CASE q \in 1..Len(processes) /\ p = Len(processes) + 1
    BY <1>1, <1>2, <1>4, <2>4 DEF Born, Alive
  <2> QED BY <2>1, <2>2, <2>3, <2>4
<1> QED BY <1>4, <1>5, <1>6, <1>7, <1>8

LEMMA EndIsLater ==
  ASSUME IInv, NEW p \in Born, EndNode(p)
  PROVE  /\ processes' \in Seq(Process) /\ Len(processes') <= MaxProcesses
         /\ IdsAreUnique' /\ Registered' /\ Later
<1> USE DEF IInv
<1> DEFINE dead == [processes[p] EXCEPT !.alive = FALSE]
<1>1. processes' = [processes EXCEPT ![p] = dead]
  BY DEF EndNode
<1>2. processes[p] \in Process /\ Len(processes) \in Nat
  BY ElementOfSeq DEF Born
<1>3. /\ dead \in Process /\ dead.node = processes[p].node /\ dead.host = processes[p].host
      /\ dead.pid = processes[p].pid /\ dead.port = processes[p].port /\ dead.alive = FALSE
  BY <1>2 DEF Process
<1> HIDE DEF dead
<1>4. /\ processes' \in Seq(Process) /\ Len(processes') = Len(processes)
      /\ \A q \in 1..Len(processes) : processes'[q] = IF q = p THEN dead ELSE processes[q]
  BY <1>1, <1>3, ExceptSeq DEF Born
<1>5. Later
  BY <1>2, <1>3, <1>4, SMT DEF Later, Born
<1>6. Registered'
  <2>1. \/ master' = master
        \/ master' = [master EXCEPT ![processes[p].node] = Nobody]
    BY DEF EndNode
  <2>2. master' \in [Nodes -> 0..Len(processes)]
    BY <1>2, <2>1, SMT DEF Registered, Nobody
  <2>3. ASSUME NEW m \in Nodes, master'[m] # Nobody PROVE processes'[master'[m]].node = m
    <3>1. master'[m] = master[m]
      BY <2>1, <2>3 DEF Registered
    <3>2. master[m] \in 1..Len(processes)
      BY <1>2, <2>3, <3>1, SMT DEF Registered, Nobody
    <3> QED BY <1>3, <1>4, <2>3, <3>1, <3>2 DEF Registered
  <2> QED BY <1>4, <2>2, <2>3 DEF Registered
<1>7. IdsAreUnique'
  BY <1>3, <1>4, Zenon DEF IdsAreUnique, Born, Alive
<1> QED BY <1>4, <1>5, <1>6, <1>7

\* What was found stays found, and who was hit stays hit.
LEMMA LaterKeeps ==
  ASSUME IInv, Later, UNCHANGED <<request, hits>>
  PROVE  Handling' /\ HitsTyped' /\ OnlySuccessorsAreHit'
<1> USE DEF IInv
<1>1. Born \subseteq Born' /\ 0..Len(processes) \subseteq 0..Len(processes')
  BY SMT DEF Later, Born
<1>2. Handling'
  <2> SUFFICES ASSUME NEW r \in Requests PROVE Handles(request[r])'
    BY DEF Handling
  <2> DEFINE h == request[r]
  <2>1. Handles(h) /\ h' = h
    BY DEF Handling
  <2>2. h.uri # Nobody => h.uri \in Born
    BY <2>1, SMT DEF Handles, Born, Later, Nobody
  <2>3. Found(h) => Found(h)'
    BY <1>1, <2>1, <2>2 DEF Found, AnsweredFor, Alive, Later
  <2>4. Handles(h)'
    BY <1>1, <2>1, <2>2, <2>3, Zenon DEF Handles, Later
  <2> QED BY <2>4
<1>3. HitsTyped'
  BY <1>1 DEF HitsTyped
<1>4. OnlySuccessorsAreHit'
  <2> SUFFICES ASSUME NEW h \in hits
               PROVE  OnlySuccessors(h)'
    BY DEF OnlySuccessorsAreHit, OnlySuccessors, Alive
  <2>1. h.registered \in Born /\ h.answered \in Born /\ h.hit \in Born /\ OnlySuccessors(h)
    BY DEF HitsTyped, OnlySuccessorsAreHit, OnlySuccessors
  <2> QED BY <2>1, Zenon DEF OnlySuccessors, Alive, Later
<1> QED BY <1>2, <1>3, <1>4

-----------------------------------------------------------------------------
(* The service.                                                            *)

\* Who answers is the one that registered, or has its port since that one ended.
LEMMA ListenerAnswers ==
  ASSUME IInv, NEW p \in 0..Len(processes), NEW q \in Listening(p)
  PROVE  /\ q \in Born /\ q \in 0..Len(processes)
         /\ processes[q].pid \in Pids /\ AnsweredFor(q, p)
<1>1. q \in Born /\ Alive(q) /\ p # Nobody
      /\ processes[q].host = processes[p].host /\ processes[q].port = processes[p].port
  BY DEF Listening
<1>2. Len(processes) \in Nat /\ p \in Born /\ q \in 0..Len(processes)
  BY <1>1, LenProperties, SMT DEF IInv, Born, Nobody
<1>3. processes[q] \in Process
  BY <1>1, ElementOfSeq DEF IInv, Born
<1>4. processes[q].pid \in Pids
  BY <1>3 DEF Process
<1>5. AnsweredFor(q, p)
  BY <1>1, <1>2 DEF AnsweredFor, IInv, IdsAreUnique
<1> QED BY <1>1, <1>2, <1>4, <1>5

\* A handler that moves to where it may be, while the processes stay as they are.
LEMMA HandlerMoves ==
  ASSUME IInv, NEW r \in Requests, NEW h, h \in Handler, Handles(h),
         request' = [request EXCEPT ![r] = h], UNCHANGED <<processes, master>>
  PROVE  request' \in [Requests -> Handler] /\ Handling' /\ IdsAreUnique' /\ Registered'
<1> USE DEF IInv
<1>1. request' \in [Requests -> Handler]
  OBVIOUS
<1>2. \A q \in Requests : request'[q] = IF q = r THEN h ELSE request[q]
  OBVIOUS
<1>3. Handling'
  <2> SUFFICES ASSUME NEW q \in Requests PROVE Handles(request[q])'
    BY <1>1 DEF Handling
  <2>1. Handles(request'[q])
    BY <1>2 DEF Handling
  <2> QED BY <2>1, Zenon DEF Handles, Found, AnsweredFor, Alive, Born
<1>4. IdsAreUnique' /\ Registered'
  BY Zenon DEF IdsAreUnique, Registered, Born, Alive
<1> QED BY <1>1, <1>3, <1>4

\* ... and nobody is hit.
LEMMA HandlerStep ==
  ASSUME IInv, NEW r \in Requests, NEW h, h \in Handler, Handles(h),
         request' = [request EXCEPT ![r] = h], UNCHANGED <<processes, master, hits>>
  PROVE  IInv'
<1>1. request' \in [Requests -> Handler] /\ Handling' /\ IdsAreUnique' /\ Registered'
  BY HandlerMoves
<1>2. HitsTyped' /\ OnlySuccessorsAreHit'
  BY Zenon DEF IInv, HitsTyped, OnlySuccessorsAreHit, Born, Alive
<1> QED BY <1>1, <1>2 DEF IInv

LEMMA IdleHandles == ASSUME IInv PROVE Idle \in Handler /\ Handles(Idle)
<1>1. /\ Idle \in Handler /\ Idle.at = "idle" /\ Idle.uri = 0
  BY Constants, SMT DEF Idle, Asked, Handler, NoName, Nobody, NoPid
<1>2. 0 \in 0..Len(processes)
  BY LenProperties, SMT DEF IInv
<1> QED BY <1>1, <1>2 DEF Handles, Nobody

\* A handler that goes on with what it knows.
LEMMA KnowStep ==
  ASSUME IInv, NEW r \in Requests, NEW from, NEW to, Know(r, from, to),
         UNCHANGED <<processes, master, hits>>,
         from # "idle", to \in {"fallback", "signal"},
         to = "signal" => /\ from = "check" /\ Known(r) /\ HostIsLocal(request[r].uri)
  PROVE  IInv'
<1> DEFINE h == [request[r] EXCEPT !.at = to]
<1>1. request[r] \in Handler /\ Handles(request[r]) /\ request[r].at = from
  BY DEF IInv, Handling, Know
<1>2. /\ h \in Handler /\ h.at = to /\ h.node = request[r].node /\ h.uri = request[r].uri
      /\ h.pid = request[r].pid /\ h.found = request[r].found
  BY <1>1 DEF Handler
<1>3. request' = [request EXCEPT ![r] = h]
  BY DEF Know
<1> HIDE DEF h
<1>4. Handles(h)
  <2>1. CASE to = "fallback"
    BY <1>1, <1>2, <2>1 DEF Handles
  <2>2. CASE to = "signal"
    <3>1. Found(request[r])
      BY <1>1, <2>2 DEF Handles, Known
    <3> QED BY <1>1, <1>2, <2>2, <3>1 DEF Handles, Found, Known, HostIsLocal
  <2> QED BY <2>1, <2>2
<1> QED BY <1>2, <1>3, <1>4, HandlerStep

\* A handler that goes on with what it just learned.
LEMMA LearnStep ==
  ASSUME IInv, NEW r \in Requests, NEW from, NEW to, NEW uri \in 0..Len(processes),
         NEW pid \in Pids \cup {NoPid}, NEW found \in 0..Len(processes),
         Learn(r, from, to, uri, pid, found), from # "idle",
         UNCHANGED <<processes, master, hits>>,
         to \in {"getPid", "rosnode", "check"},
         uri # Nobody => processes[uri].node = request[r].node,
         pid # NoPid => /\ found \in Born /\ processes[found].pid = pid
                        /\ uri # Nobody => AnsweredFor(found, uri)
  PROVE  IInv'
<1> DEFINE h == [request[r] EXCEPT !.at = to, !.uri = uri, !.pid = pid, !.found = found]
<1>1. request[r] \in Handler /\ Handles(request[r]) /\ request[r].at = from
  BY DEF IInv, Handling, Learn
<1>2. uri \in 0..MaxProcesses /\ found \in 0..MaxProcesses
  BY LenProperties, Constants, SMT DEF IInv
<1>3. /\ h \in Handler /\ h.at = to /\ h.node = request[r].node /\ h.uri = uri
      /\ h.pid = pid /\ h.found = found
  BY <1>1, <1>2 DEF Handler
<1>4. request' = [request EXCEPT ![r] = h]
  BY DEF Learn
<1> HIDE DEF h
<1>5. Handles(h)
  BY <1>1, <1>3 DEF Handles, Found
<1> QED BY <1>3, <1>4, <1>5, HandlerStep

LEMMA RespondStep ==
  ASSUME IInv, NEW r \in Requests, NEW from, Respond(r, from),
         UNCHANGED <<processes, master, hits>>
  PROVE  IInv'
<1>1. request' = [request EXCEPT ![r] = Idle]
  BY DEF Respond
<1> QED BY <1>1, IdleHandles, HandlerStep

LEMMA NextIInv == IInv /\ [Next]_vars => IInv'
<1> SUFFICES ASSUME IInv, [Next]_vars PROVE IInv'
  OBVIOUS
<1>0. Len(processes) \in Nat /\ \A n \in Nodes : master[n] \in 0..Len(processes)
  BY LenProperties DEF IInv, Registered
<1>1. CASE NodesLive
  <2>1. UNCHANGED <<request, hits>>
    BY <1>1 DEF NodesLive, StartNode, EndNode
  <2>2. /\ processes' \in Seq(Process) /\ Len(processes') <= MaxProcesses
        /\ IdsAreUnique' /\ Registered' /\ Later
    BY <1>1, StartIsLater, EndIsLater DEF NodesLive
  <2>3. Handling' /\ HitsTyped' /\ OnlySuccessorsAreHit'
    BY <2>1, <2>2, LaterKeeps
  <2> QED BY <2>1, <2>2, <2>3 DEF IInv
<1>2. ASSUME NEW r \in Requests, Accept(r) PROVE IInv'
  <2>1. PICK n \in Nodes : request' = [request EXCEPT ![r] = Asked(n)]
    BY <1>2 DEF Accept
  <2>2. Asked(n) \in Handler /\ Asked(n).at = "lookup" /\ Asked(n).uri = 0 /\ Asked(n).node = n
    BY Constants, SMT DEF Asked, Handler, Nobody, NoPid
  <2>3. Handles(Asked(n))
    BY <1>0, <2>2, SMT DEF Handles, Nobody
  <2>4. hits' = {} /\ UNCHANGED <<processes, master>>
    BY <1>2 DEF Accept
  <2>5. request' \in [Requests -> Handler] /\ Handling' /\ IdsAreUnique' /\ Registered'
    BY <2>1, <2>2, <2>3, <2>4, HandlerMoves
  <2>6. HitsTyped' /\ OnlySuccessorsAreHit'
    BY <2>4 DEF HitsTyped, OnlySuccessorsAreHit
  <2> QED BY <2>4, <2>5, <2>6 DEF IInv
<1>3. ASSUME NEW r \in Requests, LookupUri(r) PROVE IInv'
  <2>0. request[r].at = "lookup" /\ UNCHANGED <<processes, master, hits>>
    BY <1>3 DEF LookupUri
  <2>1. CASE Know(r, "lookup", "fallback")
    BY <2>0, <2>1, KnowStep
  <2>2. CASE /\ master[request[r].node] # Nobody
             /\ Learn(r, "lookup", "getPid", master[request[r].node], NoPid, Nobody)
    <3> DEFINE p == master[request[r].node]
    <3>1. request[r].node \in Nodes
      BY <2>0 DEF IInv, Handling, Handles
    <3>2. p \in 0..Len(processes) /\ p # Nobody /\ processes[p].node = request[r].node
      BY <1>0, <2>2, <3>1 DEF IInv, Registered
    <3>3. Nobody \in 0..Len(processes) /\ NoPid \in Pids \cup {NoPid}
      BY <1>0, SMT DEF Nobody
    <3>4. Learn(r, "lookup", "getPid", p, NoPid, Nobody)
      BY <2>2
    <3> HIDE DEF p
    <3> QED BY <2>0, <3>2, <3>3, <3>4, LearnStep
  <2> QED BY <1>3, <2>1, <2>2 DEF LookupUri
<1>4. ASSUME NEW r \in Requests, GetPid(r) PROVE IInv'
  <2>0. UNCHANGED <<processes, master, hits>>
    BY <1>4 DEF GetPid
  <2>1. CASE Know(r, "getPid", "fallback")
    BY <2>0, <2>1, KnowStep
  <2>2. ASSUME NEW q \in Listening(request[r].uri),
               Learn(r, "getPid", "check", request[r].uri, processes[q].pid, q)
        PROVE  IInv'
    <3> DEFINE p == request[r].uri
    <3>1. p \in 0..Len(processes) /\ (p # Nobody => processes[p].node = request[r].node)
      BY DEF IInv, Handling, Handles
    <3>2. q \in Born /\ q \in 0..Len(processes) /\ processes[q].pid \in Pids /\ AnsweredFor(q, p)
      BY <1>0, <3>1, ListenerAnswers
    <3>3. Learn(r, "getPid", "check", p, processes[q].pid, q)
      BY <2>2
    <3> HIDE DEF p
    <3> QED BY <2>0, <3>1, <3>2, <3>3, LearnStep
  <2> QED BY <1>4, <2>1, <2>2 DEF GetPid
<1>5. ASSUME NEW r \in Requests, Fallback(r) PROVE IInv'
  <2> DEFINE p == master[request[r].node]
  <2>0. request[r].at = "fallback" /\ UNCHANGED <<processes, master, hits>>
    BY <1>5 DEF Fallback
  <2>1. request[r].node \in Nodes
    BY <2>0 DEF IInv, Handling, Handles
  <2>2. p \in 0..Len(processes) /\ (p # Nobody => processes[p].node = request[r].node)
    BY <1>0, <2>1 DEF IInv, Registered
  <2>3. Nobody \in 0..Len(processes) /\ NoPid \in Pids \cup {NoPid}
    BY <1>0, SMT DEF Nobody
  <2>4. CASE Respond(r, "fallback")
    BY <2>0, <2>4, RespondStep
  <2>5. CASE Learn(r, "fallback", "rosnode", p, NoPid, Nobody)
    <3> HIDE DEF p
    <3> QED BY <2>0, <2>2, <2>3, <2>5, LearnStep
  <2> QED BY <1>5, <2>4, <2>5 DEF Fallback
<1>6. ASSUME NEW r \in Requests, RosnodeInfo(r) PROVE IInv'
  <2> DEFINE p == request[r].uri
  <2>0. UNCHANGED <<processes, master, hits>>
    BY <1>6 DEF RosnodeInfo
  <2>1. p \in 0..Len(processes) /\ (p # Nobody => processes[p].node = request[r].node)
    BY DEF IInv, Handling, Handles
  <2>2. Nobody \in 0..Len(processes) /\ NoPid \in Pids \cup {NoPid}
    BY <1>0, SMT DEF Nobody
  <2>3. CASE Respond(r, "rosnode")
    BY <2>0, <2>3, RespondStep
  <2>4. ASSUME NEW uri \in {Nobody, p}, Learn(r, "rosnode", "check", uri, NoPid, Nobody)
        PROVE  IInv'
    <3>1. uri \in 0..Len(processes) /\ (uri # Nobody => uri = p)
      BY <2>1, <2>2
    <3> HIDE DEF p
    <3> QED BY <2>0, <2>1, <2>2, <2>4, <3>1, LearnStep
  <2>5. ASSUME NEW uri \in {Nobody, p}, NEW q \in Listening(p),
               Learn(r, "rosnode", "check", uri, processes[q].pid, q)
        PROVE  IInv'
    <3>1. uri \in 0..Len(processes) /\ (uri # Nobody => uri = p)
      BY <2>1, <2>2
    <3>2. q \in Born /\ q \in 0..Len(processes) /\ processes[q].pid \in Pids /\ AnsweredFor(q, p)
      BY <1>0, <2>1, ListenerAnswers
    <3> HIDE DEF p
    <3> QED BY <2>0, <2>1, <2>5, <3>1, <3>2, LearnStep
  <2> QED BY <1>6, <2>3, <2>4, <2>5, Zenon DEF RosnodeInfo
<1>7. ASSUME NEW r \in Requests, Refuse(r) PROVE IInv'
  BY <1>7, RespondStep DEF Refuse
<1>8. ASSUME NEW r \in Requests, Proceed(r) PROVE IInv'
  BY <1>8, KnowStep DEF Proceed
<1>9. ASSUME NEW r \in Requests, Kill(r) PROVE IInv'
  <2> DEFINE h == request[r]
  <2>0. /\ h.at = "signal" /\ request' = [request EXCEPT ![r] = Idle]
        /\ UNCHANGED <<processes, master>>
        /\ hits' = {[hit |-> p, answered |-> h.found, registered |-> h.uri, name |-> h.node] :
                       p \in Signalled(h.pid)}
    BY <1>9, Zenon DEF Kill, Respond
  <2>1. request' \in [Requests -> Handler] /\ Handling' /\ IdsAreUnique' /\ Registered'
    BY <2>0, IdleHandles, HandlerMoves
  <2>2. Handles(h) /\ h.node \in Nodes
    BY <2>0 DEF IInv, Handling, Handles
  <2>3. /\ Found(h) /\ h.pid # NoPid /\ h.uri \in Born /\ processes[h.uri].node = h.node
        /\ processes[h.uri].host = "local" /\ AnsweredFor(h.found, h.uri)
    BY <1>0, <2>0, <2>2, SMT DEF Handles, Found, Born, Nobody
  <2> HIDE DEF h
  <2>4. ASSUME NEW p \in Signalled(h.pid)
        PROVE  /\ p \in Born /\ processes[p].host = "local"
               /\ processes[h.found].pid = processes[p].pid
               /\ p # h.found => ~Alive(h.found)
    BY <2>3, <2>4 DEF Signalled, Found, AnsweredFor, IInv, IdsAreUnique
  <2>5. HitsTyped'
    <3> SUFFICES ASSUME NEW p \in Signalled(h.pid)
                 PROVE  p \in Born /\ h.found \in Born /\ h.uri \in Born /\ h.node \in Nodes
      BY <2>0, SMT DEF HitsTyped, Born
    <3> QED BY <2>2, <2>3, <2>4 DEF Found
  <2>6. OnlySuccessorsAreHit'
    <3> SUFFICES ASSUME NEW k \in hits' PROVE OnlySuccessors(k)
      BY <2>0, Zenon DEF OnlySuccessorsAreHit, OnlySuccessors, Alive
    <3>1. PICK p \in Signalled(h.pid) :
            k = [hit |-> p, answered |-> h.found, registered |-> h.uri, name |-> h.node]
      BY <2>0
    <3>2. /\ k.hit = p /\ k.answered = h.found /\ k.registered = h.uri /\ k.name = h.node
      BY <3>1
    <3> QED BY <2>3, <2>4, <3>2 DEF OnlySuccessors, AnsweredFor
  <2> QED BY <2>0, <2>1, <2>5, <2>6 DEF IInv
<1>10. CASE UNCHANGED vars
  BY <1>10, Zenon DEF vars, IInv, IdsAreUnique, Registered, Handling, Handles, Found, AnsweredFor,
     HitsTyped, OnlySuccessorsAreHit, Born, Alive
<1> QED BY <1>1, <1>2, <1>3, <1>4, <1>5, <1>6, <1>7, <1>8, <1>9, <1>10
     DEF Next, Serve

LEMMA Invariance == Spec => []IInv
  BY InitIInv, NextIInv, PTL DEF Spec

-----------------------------------------------------------------------------
(* Theorems.                                                               *)

\* Every signal follows an answer at a registered URI, with any constants.
THEOREM TypeCorrect == Spec => []TypeOK
<1>1. IInv => TypeOK
  <2> SUFFICES ASSUME IInv PROVE TypeOK
    OBVIOUS
  <2>1. \A r \in Requests : request[r].uri \in 0..Len(processes)
    BY DEF IInv, Handling, Handles
  <2> QED BY <2>1, Zenon DEF IInv, Registered, HitsTyped, TypeOK
<1> QED BY <1>1, Invariance, PTL

\* Whoever comes and goes, and however many calls are served at once: the process
\* asked is the one the master named or has its port since that one ended, and the
\* process hit is the one that answered or has its process id since that one ended.
THEOREM OnlySuccessorsGetHit == Spec => []OnlySuccessorsAreHit
<1>1. IInv => OnlySuccessorsAreHit
  BY DEF IInv
<1> QED BY <1>1, Invariance, PTL
=============================================================================
