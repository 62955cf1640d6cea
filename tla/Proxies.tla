------------------------------- MODULE Proxies -------------------------------
(* The proxies of yapapi/contrib/service/: socket_proxy.py forwards the      *)
(* connections to a local port through a web socket, with a task for each    *)
(* direction; http_proxy.py sends a request to an instance in turn and puts  *)
(* its response together from the messages of the web socket.                *)
(*                                                                           *)
(* The bytes of a connection are left out.  Those of a response are symbols, *)
(* "cr" and "nl" being the halves of the empty line after the headers.       *)
EXTENDS Naturals, Sequences, SequencesExt

CONSTANTS Connections,  \* connections to a port of the proxy
          Ports,        \* local ports, as many servers can be run
          Responses,    \* responses of the remote server: [head, body, length]
          MaxInstances  \* bound: running instances of the cluster

ASSUME MaxInstancesAssumption == MaxInstances \in Nat \ {0}

VARIABLES
  port,       \* the server on each port
  connection, \* run() of each connection
  sender,     \* its two tasks
  responder,
  done,       \* connections with _done set
  clientEnd,  \* connections whose client has closed its side
  remoteEnd,  \* ... whose web socket is closed
  writerOpen, \* ... whose listen_writer is open
  response,   \* what the remote server answers
  request,    \* where the request is
  rest,       \* of the response, not received yet
  headers,    \* headers_data and content of the parser
  content,
  status,     \* has it a status?
  turns       \* _request_count

socketVars == <<port, connection, sender, responder, done, clientEnd, remoteEnd, writerOpen>>
httpVars == <<response, request, rest, headers, content, status, turns>>
proxyVars == <<socketVars, httpVars>>

TaskEnds == {"ended", "cancelled", "failed"}

ProxiesTypeOK ==
  /\ port \in [Ports -> {"free", "starting", "listening", "ended"}]
  /\ connection \in [Connections -> {"none", "connecting", "open", "closing", "ended", "failed"}]
  /\ {sender, responder} \subseteq [Connections -> {"none", "running", "stopping"} \cup TaskEnds]
  /\ done \cup clientEnd \cup remoteEnd \cup writerOpen \subseteq Connections
  /\ response \in Responses
  /\ request \in {"none", "receiving", "answered", "unavailable", "error"}
  /\ IsSuffix(rest, response.head \o <<"cr", "nl">> \o response.body)
  /\ status \in BOOLEAN /\ turns \in Nat

ProxiesInit ==
  /\ port = [p \in Ports |-> "free"] /\ connection = [c \in Connections |-> "none"]
  /\ sender = [c \in Connections |-> "none"] /\ responder = [c \in Connections |-> "none"]
  /\ done = {} /\ clientEnd = {} /\ remoteEnd = {} /\ writerOpen = {}
  /\ response \in Responses /\ request = "none"
  /\ rest = response.head \o <<"cr", "nl">> \o response.body
  /\ headers = <<>> /\ content = <<>> /\ status = FALSE /\ turns = 0

----------------------------------------------------------------------------
(* socket_proxy.py                                                           *)

(* run_server takes the next port; nobody gives it back.                     *)
RunServer(p) ==
  /\ port[p] = "free" /\ port' = [port EXCEPT ![p] = "starting"]
  /\ UNCHANGED <<connection, sender, responder, done, clientEnd, remoteEnd, writerOpen, httpVars>>

(* ProxyServer.run: the local port may be in use.                            *)
ServerStarts(p) ==
  /\ port[p] = "starting" /\ \E end \in {"listening", "ended"} : port' = [port EXCEPT ![p] = end]
  /\ UNCHANGED <<connection, sender, responder, done, clientEnd, remoteEnd, writerOpen, httpVars>>

(* SocketProxy.stop: the servers, not the connections.                       *)
StopProxy ==
  /\ port' = [p \in Ports |-> IF port[p] \in {"starting", "listening"} THEN "ended" ELSE port[p]]
  /\ UNCHANGED <<connection, sender, responder, done, clientEnd, remoteEnd, writerOpen, httpVars>>

(* ProxyServer.handler; without the web socket run() raises, and the client  *)
(* keeps an open connection.                                                 *)
Accept(c) ==
  /\ connection[c] = "none" /\ \E p \in Ports : port[p] = "listening"
  /\ connection' = [connection EXCEPT ![c] = "connecting"] /\ writerOpen' = writerOpen \cup {c}
  /\ UNCHANGED <<port, sender, responder, done, clientEnd, remoteEnd, httpVars>>

Connect(c) ==
  /\ connection[c] = "connecting"
  /\ \/ /\ connection' = [connection EXCEPT ![c] = "open"]
        /\ sender' = [sender EXCEPT ![c] = "running"]
        /\ responder' = [responder EXCEPT ![c] = "running"]
     \/ /\ connection' = [connection EXCEPT ![c] = "failed"] /\ UNCHANGED <<sender, responder>>
  /\ UNCHANGED <<port, done, clientEnd, remoteEnd, writerOpen, httpVars>>

ClientCloses(c) ==
  /\ connection[c] # "none" /\ clientEnd' = clientEnd \cup {c}
  /\ UNCHANGED <<port, connection, sender, responder, done, remoteEnd, writerOpen, httpVars>>

RemoteCloses(c) ==
  /\ connection[c] = "open" /\ remoteEnd' = remoteEnd \cup {c}
  /\ UNCHANGED <<port, connection, sender, responder, done, clientEnd, writerOpen, httpVars>>

(* _cancel_tasks: the other task finds _done when its wait is cancelled.     *)
Stopping(task, c) == IF task[c] = "running" THEN "stopping" ELSE task[c]

(* The end of the client's data: the sender sets _done and cancels both      *)
(* tasks, itself among them.  Data that the web socket does not take raise.  *)
Sender(c) ==
  /\ sender[c] = "running"
  /\ \/ /\ c \in clientEnd /\ done' = done \cup {c}
        /\ sender' = [sender EXCEPT ![c] = "cancelled"]
        /\ responder' = [responder EXCEPT ![c] = Stopping(responder, c)]
     \/ /\ c \in remoteEnd /\ sender' = [sender EXCEPT ![c] = "failed"]
        /\ UNCHANGED <<done, responder>>
  /\ UNCHANGED <<port, connection, clientEnd, remoteEnd, writerOpen, httpVars>>

(* CLOSED from the remote end; a timeout, or a message without data, raises. *)
Responder(c) ==
  /\ responder[c] = "running"
  /\ \/ /\ c \in remoteEnd /\ done' = done \cup {c}
        /\ responder' = [responder EXCEPT ![c] = "cancelled"]
        /\ sender' = [sender EXCEPT ![c] = Stopping(sender, c)]
     \/ responder' = [responder EXCEPT ![c] = "failed"] /\ UNCHANGED <<done, sender>>
  /\ UNCHANGED <<port, connection, clientEnd, remoteEnd, writerOpen, httpVars>>

TasksStop(c) ==
  /\ "stopping" \in {sender[c], responder[c]}
  /\ sender' = [sender EXCEPT ![c] = IF @ = "stopping" THEN "ended" ELSE @]
  /\ responder' = [responder EXCEPT ![c] = IF @ = "stopping" THEN "ended" ELSE @]
  /\ UNCHANGED <<port, connection, done, clientEnd, remoteEnd, writerOpen, httpVars>>

(* gather ends with the first task: its cancellation is swallowed, another   *)
(* exception leaves run().  The web socket is closed in both cases.          *)
GatherEnds(c) ==
  /\ connection[c] = "open" /\ remoteEnd' = remoteEnd \cup {c}
  /\ \/ /\ "cancelled" \in {sender[c], responder[c]}
        /\ connection' = [connection EXCEPT ![c] = "closing"]
     \/ /\ "failed" \in {sender[c], responder[c]}
        /\ connection' = [connection EXCEPT ![c] = "failed"]
  /\ UNCHANGED <<port, sender, responder, done, clientEnd, writerOpen, httpVars>>

CloseConnection(c) ==
  /\ connection[c] = "closing" /\ connection' = [connection EXCEPT ![c] = "ended"]
  /\ writerOpen' = writerOpen \ {c}
  /\ UNCHANGED <<port, sender, responder, done, clientEnd, remoteEnd, httpVars>>

ConnectionTask(c) ==
  Connect(c) \/ Sender(c) \/ Responder(c) \/ TasksStop(c) \/ GatherEnds(c) \/ CloseConnection(c)

----------------------------------------------------------------------------
(* http_proxy.py                                                             *)

(* _request_handler: the running instances, each in its turn; handle_request *)
(* sends the request.                                                        *)
HandleRequest ==
  /\ request = "none"
  /\ \E running \in 0..MaxInstances :
       IF running = 0 THEN request' = "unavailable" /\ UNCHANGED turns
       ELSE request' \in {"receiving", "error"} /\ turns' = (turns + 1) % running
  /\ UNCHANGED <<socketVars, response, rest, headers, content, status>>

(* content_received: without a Content-Length, as soon as there is a status. *)
ContentReceived == status /\ (response.length => Len(content) >= Len(response.body))

(* re.split at the empty lines of one message.                               *)
EmptyLines(m) == {i \in 1..Len(m) - 1 : m[i] = "cr" /\ m[i + 1] = "nl"}
Part(m, from) ==
  LET ends == {i - 1 : i \in {j \in EmptyLines(m) : j >= from}} \cup {Len(m)}
  IN SubSeq(m, from, CHOOSE e \in ends : \A f \in ends : e <= f)

(* What responses are made of; the first empty line ends the headers.        *)
Symbols == {"cr", "nl"} \cup UNION {Range(r.head) \cup Range(r.body) : r \in Responses}
ASSUME ResponsesAssumption ==
  \A r \in Responses :
    /\ r.head \in Seq(Symbols) /\ r.body \in Seq(Symbols) /\ r.length \in BOOLEAN
    /\ EmptyLines(r.head) = {}

(* receive_data: of the message that completes the headers, what follows up  *)
(* to the next empty line.                                                   *)
ReceiveData ==
  /\ request = "receiving" /\ ~ContentReceived
  /\ \E n \in 1..Len(rest) :
       LET m == SubSeq(rest, 1, n)
           first == Part(m, 1)
       IN /\ rest' = SubSeq(rest, n + 1, Len(rest))
          /\ IF status THEN content' = content \o m /\ UNCHANGED <<headers, status>>
             ELSE /\ headers' = headers \o first /\ status' = (EmptyLines(m) # {})
                  /\ content' = IF EmptyLines(m) = {} THEN content
                                ELSE content \o Part(m, Len(first) + 3)
  /\ UNCHANGED <<socketVars, response, request, turns>>

(* get_response returns; or it times out, or an empty message comes.         *)
Answer ==
  /\ request = "receiving"
  /\ IF ContentReceived THEN request' = "answered" ELSE request' = "error"
  /\ UNCHANGED <<socketVars, response, rest, headers, content, status, turns>>

SocketProxyNext ==
  \/ \E p \in Ports : RunServer(p) \/ ServerStarts(p)
  \/ \E c \in Connections : Accept(c) \/ ClientCloses(c) \/ RemoteCloses(c) \/ ConnectionTask(c)
  \/ StopProxy

HttpProxyNext == HandleRequest \/ ReceiveData \/ Answer

ProxiesNext == SocketProxyNext \/ HttpProxyNext

(* Fairness: the tasks run.                                                  *)
ProxiesFairness ==
  \A c \in Connections :
    /\ WF_proxyVars(Sender(c)) /\ WF_proxyVars(Responder(c) /\ done' # done)
    /\ WF_proxyVars(TasksStop(c)) /\ WF_proxyVars(GatherEnds(c))
    /\ WF_proxyVars(CloseConnection(c))

ProxiesSpec == ProxiesInit /\ [][ProxiesNext]_proxyVars /\ ProxiesFairness

----------------------------------------------------------------------------
(* Properties                                                                *)

(* However the messages cut the response, the headers and the body that are  *)
(* handed out are those the remote server sent, if it says how long the body *)
(* is (http_proxy.py:43-95): an empty line within the body, or one that two  *)
(* messages share, ends in an error and never in a response cut short.       *)
ResponseExact ==
  request = "answered" /\ response.length => headers = response.head /\ content = response.body

(* A client that hangs up ends both tasks of its connection, also when the   *)
(* remote end closes or fails at the same time (socket_proxy.py:84-160).     *)
ConnectionEnds ==
  \A c \in Connections :
    connection[c] = "open" /\ c \in clientEnd ~> sender[c] \in TaskEnds /\ responder[c] \in TaskEnds
=============================================================================
