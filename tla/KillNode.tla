------------------------------ MODULE KillNode ------------------------------
(***************************************************************************)
(* kill_node_sigint_service.py: a service that looks up the process of a   *)
(* ROS node and sends it SIGINT; the joypad's shutdown button calls it for *)
(* the hardware node.  Every call is served on a thread of its own, and    *)
(* nodes come and go while it asks the master, the node and, failing that, *)
(* rosnode for a process id.                                               *)
(*                                                                         *)
(* A process is its number in the order of birth.  A node's URI is the     *)
(* host and port of the process that registered it, and is denoted by that *)
(* process; nobody checks whether it still is the one that answers there.  *)
(* What a process, the master and rosnode answer is modelled from how the  *)
(* script uses it.                                                         *)
(***************************************************************************)
EXTENDS Integers, Sequences

CONSTANTS
  Nodes,         \* names of nodes
  Pids,          \* process ids of a host
  Ports,         \* ports of a host
  Requests,      \* calls that may be served at the same time
  AllowKill,     \* what ~allow_kill may be: "true", "false" or "unset"
  MaxProcesses   \* bound: processes ever started

ASSUME KillAssumption ==
  /\ -1 \notin Pids /\ MaxProcesses \in Nat
  /\ AllowKill \subseteq {"true", "false", "unset"}

VARIABLES
  processes,   \* every process started, alive or not
  master,      \* per name, the process registered last, or none
  request,     \* per call, where its handler is and what it knows
  hits         \* history: whom the last signal reached, until the next call

vars == <<processes, master, request, hits>>

Hosts     == {"local", "remote"}
Born      == 1..Len(processes)
Nobody    == 0      \* no process: not registered, no URI
NoPid     == -1
Process   == [node : Nodes, host : Hosts, port : Ports, pid : Pids, alive : BOOLEAN]
NoName    == "none"
Handler   == [at : {"idle", "lookup", "getPid", "fallback", "rosnode", "check", "signal"},
              node : Nodes \cup {NoName}, uri : 0..MaxProcesses, pid : Pids \cup {NoPid},
              found : 0..MaxProcesses]
Asked(n)  == [at |-> "lookup", node |-> n, uri |-> Nobody, pid |-> NoPid, found |-> Nobody]
Idle      == [Asked(NoName) EXCEPT !.at = "idle"]

Alive(p) == processes[p].alive

Init ==
  /\ processes = <<>>
  /\ master = [n \in Nodes |-> Nobody]
  /\ request = [r \in Requests |-> Idle]
  /\ hits = {}

-----------------------------------------------------------------------------
(* Nodes.                                                                  *)

\* A process id and a port are free again once their process is gone.
StartNode(n, host) ==
  /\ Len(processes) < MaxProcesses
  /\ \A p \in Born : Alive(p) => processes[p].node # n
  /\ \E pid \in Pids, port \in Ports :
       /\ \A p \in Born :
            Alive(p) /\ processes[p].host = host =>
              processes[p].pid # pid /\ processes[p].port # port
       /\ processes' = Append(processes, [node |-> n, host |-> host, port |-> port,
                                          pid |-> pid, alive |-> TRUE])
  /\ master' = [master EXCEPT ![n] = Len(processes')]
  /\ UNCHANGED <<request, hits>>

\* A node that shuts down unregisters, one that crashes does not.
EndNode(p) ==
  /\ Alive(p)
  /\ processes' = [processes EXCEPT ![p].alive = FALSE]
  /\ \/ UNCHANGED master
     \/ /\ master[processes[p].node] = p
        /\ master' = [master EXCEPT ![processes[p].node] = Nobody]
  /\ UNCHANGED <<request, hits>>

-----------------------------------------------------------------------------
(* handle_kill_request().                                                  *)

\* The handler goes on with what it knows, learns, or returns its response.
Know(r, from, to) ==
  /\ request[r].at = from
  /\ request' = [request EXCEPT ![r].at = to]

Learn(r, from, to, uri, pid, found) ==
  /\ request[r].at = from
  /\ request' = [request EXCEPT ![r] =
       [@ EXCEPT !.at = to, !.uri = uri, !.pid = pid, !.found = found]]

Respond(r, from) ==
  /\ request[r].at = from
  /\ request' = [request EXCEPT ![r] = Idle]

\* The parameter counts as set where nobody set it.
Allowed(allow) == allow # "false"

\* A call that names a node is let through.
Accept(r) ==
  /\ \E allow \in AllowKill : Allowed(allow)
  /\ request[r].at = "idle"
  /\ \E n \in Nodes : request' = [request EXCEPT ![r] = Asked(n)]
  /\ hits' = {}
  /\ UNCHANGED <<processes, master>>

\* lookup_node_uri(): the master's answer, or none.
LookupUri(r) ==
  /\ request[r].at = "lookup"
  /\ \/ /\ master[request[r].node] # Nobody
        /\ Learn(r, "lookup", "getPid", master[request[r].node], NoPid, Nobody)
     \/ Know(r, "lookup", "fallback")
  /\ UNCHANGED <<processes, master, hits>>

\* Who answers at the URI that p registered: whoever has the port now.
Listening(p) ==
  {q \in Born : /\ p # Nobody /\ Alive(q)
                /\ processes[q].host = processes[p].host
                /\ processes[q].port = processes[p].port}

\* get_pid_via_xmlrpc(): with its own process id, or not at all.
GetPid(r) ==
  /\ \/ \E q \in Listening(request[r].uri) :
          Learn(r, "getPid", "check", request[r].uri, processes[q].pid, q)
     \/ Know(r, "getPid", "fallback")
  /\ UNCHANGED <<processes, master, hits>>

\* 'rosnode info' asks the master once more, or fails ...
Fallback(r) ==
  /\ request[r].at = "fallback"
  /\ \/ Respond(r, "fallback")
     \/ Learn(r, "fallback", "rosnode", master[request[r].node], NoPid, Nobody)
  /\ UNCHANGED <<processes, master, hits>>

\* ... and then the node; parse_rosnode_info_fallback() finds what it can in the
\* output: with an answer a process id, with or without the URI.
RosnodeInfo(r) ==
  /\ \/ Respond(r, "rosnode")
     \/ \E uri \in {Nobody, request[r].uri} :
          \/ Learn(r, "rosnode", "check", uri, NoPid, Nobody)
          \/ \E q \in Listening(request[r].uri) :
               Learn(r, "rosnode", "check", uri, processes[q].pid, q)
  /\ UNCHANGED <<processes, master, hits>>

HostIsAnything(p) == TRUE   \* mutant: the host is not looked at

\* parse_host_from_uri() and host_is_local(), when the name can be resolved.
HostIsLocal(p) == processes[p].host = "local"

KnownByUri(r) == request[r].uri # Nobody   \* mutant: a process id of -1 will do

Known(r) == request[r].uri # Nobody /\ request[r].pid # NoPid

\* A response without a signal: something is not known, or the host is not
\* local or cannot be resolved.
Refuse(r) ==
  /\ Respond(r, "check")
  /\ UNCHANGED <<processes, master, hits>>

Proceed(r) ==
  /\ Known(r) /\ HostIsLocal(request[r].uri)
  /\ Know(r, "check", "signal")
  /\ UNCHANGED <<processes, master, hits>>

\* os.kill(): whoever has the process id on this host now, if anybody; to the
\* process id -1, everybody.
Signalled(pid) ==
  {p \in Born : Alive(p) /\ processes[p].host = "local" /\ pid \in {processes[p].pid, NoPid}}

Kill(r) ==
  /\ Respond(r, "signal")
  /\ hits' = {[hit |-> p, answered |-> request[r].found, registered |-> request[r].uri,
               name |-> request[r].node] : p \in Signalled(request[r].pid)}
  /\ UNCHANGED <<processes, master>>

Serve(r) ==
  \/ LookupUri(r) \/ GetPid(r) \/ Fallback(r) \/ RosnodeInfo(r)
  \/ Refuse(r) \/ Proceed(r) \/ Kill(r)

NodesLive ==
  \/ \E n \in Nodes, host \in Hosts : StartNode(n, host)
  \/ \E p \in Born : EndNode(p)

Next == NodesLive \/ \E r \in Requests : Accept(r) \/ Serve(r)

\* No fairness: an XML-RPC call has no timeout, and a node may never answer it.
Spec == Init /\ [][Next]_vars

-----------------------------------------------------------------------------
(* Properties.                                                             *)

\* Types; a signal follows the answer of a process, at a URI that was registered.
TypeOK ==
  /\ processes \in Seq(Process)
  /\ master \in [Nodes -> 0..Len(processes)]
  /\ request \in [Requests -> Handler]
  /\ \A r \in Requests : request[r].uri \in 0..Len(processes)
  /\ hits \subseteq [hit : Born, answered : Born, registered : Born, name : Nodes]

\* What can come between a name and a signal is two ends of processes, no more:
\* another process than the one the master named is asked only if that one ended
\* and left it its port, and another than the one that answered is hit only if
\* that one ended and left it its process id.  A signal never goes astray because
\* the node runs on another host or another call was served at the same time.
OnlySuccessorsAreHit ==
  \A h \in hits :
    /\ processes[h.registered].node = h.name
    /\ processes[h.hit].host = "local" /\ processes[h.registered].host = "local"
    /\ h.answered # h.registered =>
         ~Alive(h.registered) /\ processes[h.answered].port = processes[h.registered].port
    /\ h.hit # h.answered =>
         ~Alive(h.answered) /\ processes[h.answered].pid = processes[h.hit].pid
=============================================================================
