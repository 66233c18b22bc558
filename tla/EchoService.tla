----------------------------- MODULE EchoService -----------------------------
(***************************************************************************)
(* What an echo server promises its clients, whatever multiplexing it is   *)
(* built on.  The poll, the epoll and the io_uring server are three        *)
(* implementations of this one specification.                              *)
(*                                                                         *)
(* While the server is up it accepts every connection once, answers the    *)
(* k-th message of a client with that message and nothing else, and gives  *)
(* the resources of a connection back only after the client has left.      *)
(***************************************************************************)
EXTENDS Naturals, Sequences

CONSTANT Clients

VARIABLES
  up,        \* the server is serving
  client,    \* client[c]: "away", "here" or "left"
  service,   \* service[c]: "none", "held" (resources in use), "released"
  asked,     \* asked[c]: messages the client has sent
  answers    \* answers[c]: the echoes sent back to it

vars == <<up, client, service, asked, answers>>

Init ==
  /\ up = TRUE
  /\ client = [c \in Clients |-> "away"]
  /\ service = [c \in Clients |-> "none"]
  /\ asked = [c \in Clients |-> 0]
  /\ answers = [c \in Clients |-> <<>>]

Connect(c) ==
  /\ client[c] = "away"
  /\ client' = [client EXCEPT ![c] = "here"]
  /\ UNCHANGED <<up, service, asked, answers>>

Ask(c) ==
  /\ client[c] = "here"
  /\ asked' = [asked EXCEPT ![c] = @ + 1]
  /\ UNCHANGED <<up, client, service, answers>>

Leave(c) ==
  /\ client[c] = "here"
  /\ client' = [client EXCEPT ![c] = "left"]
  /\ UNCHANGED <<up, service, asked, answers>>

Accept(c) ==
  /\ up
  /\ client[c] # "away"
  /\ service[c] = "none"
  /\ service' = [service EXCEPT ![c] = "held"]
  /\ UNCHANGED <<up, client, asked, answers>>

Answer(c) ==
  /\ up
  /\ service[c] = "held"
  /\ Len(answers[c]) < asked[c]
  /\ answers' = [answers EXCEPT ![c] = Append(@, Len(@) + 1)]
  /\ UNCHANGED <<up, client, service, asked>>

Release(c) ==
  /\ up
  /\ client[c] = "left"
  /\ service[c] = "held"
  /\ service' = [service EXCEPT ![c] = "released"]
  /\ UNCHANGED <<up, client, asked, answers>>

\* The server stops: on SIGUSR1, or because an assertion ended the process.
Stop ==
  /\ up
  /\ up' = FALSE
  /\ UNCHANGED <<client, service, asked, answers>>

\* Once stopped, the server gives back what it still holds.
TearDown(c) ==
  /\ ~up
  /\ service[c] = "held"
  /\ service' = [service EXCEPT ![c] = "released"]
  /\ UNCHANGED <<up, client, asked, answers>>

Next ==
  \/ Stop
  \/ \E c \in Clients :
       \/ Connect(c) \/ Ask(c) \/ Leave(c)
       \/ Accept(c) \/ Answer(c) \/ Release(c) \/ TearDown(c)

SafeSpec == Init /\ [][Next]_vars

\* A client that waits for its answer gets it or sees the server stop; a
\* connection that is left does not keep its resources.
Spec ==
  /\ SafeSpec
  /\ \A c \in Clients :
       /\ WF_vars(Accept(c))
       /\ WF_vars(client[c] = "here" /\ Answer(c))
       /\ WF_vars(Release(c))

=============================================================================
