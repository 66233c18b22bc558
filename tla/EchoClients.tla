----------------------------- MODULE EchoClients -----------------------------
(***************************************************************************)
(* The clients of the echo servers (code/c/client/main.c) and what TCP on  *)
(* the loopback interface lets a server observe of them.                   *)
(*                                                                         *)
(* Each client makes one connection.  Its k-th message is the number k, so *)
(* the byte stream of a client is the sequence 1, 2, 3, ... and an echo is *)
(* correct exactly if it returns the same numbers in the same order.       *)
(*                                                                         *)
(* connect() completes when the kernel queues the connection, before the   *)
(* server accepts it: a client can send, and leave, while it is still in   *)
(* the listen backlog.                                                     *)
(***************************************************************************)
EXTENDS Integers, Sequences, FiniteSets

CONSTANTS
  Clients,   \* the client processes, one connection each
  MaxMsgs,   \* bound: messages one client sends
  Window,    \* unanswered messages a client allows itself (1: send_n_wait)
  BufSize,   \* DEFAULT_BUFFER_SIZE, the size of a message
  Faults     \* kernel outcomes allowed on top of the ordinary ones

\* The buffer of a server is a little larger than a message, so that a
\* second message behind the first is noticed (common/defines.h:16).
ServerBufSize == BufSize + 1

FaultNames == {"short", "accept"}

ASSUME ClientsAssumption ==
  /\ MaxMsgs \in Nat
  /\ Window \in Nat \ {0}
  /\ BufSize \in Nat \ {0, 1}
  /\ Faults \subseteq FaultNames

VARIABLES
  cpc,       \* cpc[c]: "start", "up" (connected) or "gone" (closed, killed)
  backlog,   \* connected clients that no accept has returned yet
  sent,      \* sent[c]: messages the client has written
  taken,     \* taken[c]: messages a server has read from the connection
  echoes,    \* echoes[c]: what a server has written back, in order
  got        \* got[c]: echoes the client has read

clientVars == <<cpc, backlog, sent, taken, echoes, got>>

ClientTypeOK ==
  /\ cpc \in [Clients -> {"start", "up", "gone"}]
  /\ backlog \subseteq Clients
  /\ sent \in [Clients -> Nat]
  /\ taken \in [Clients -> Nat]
  /\ echoes \in [Clients -> Seq(Nat)]
  /\ got \in [Clients -> Nat]

ClientInit ==
  /\ cpc = [c \in Clients |-> "start"]
  /\ backlog = {}
  /\ sent = [c \in Clients |-> 0]
  /\ taken = [c \in Clients |-> 0]
  /\ echoes = [c \in Clients |-> <<>>]
  /\ got = [c \in Clients |-> 0]

ClientConnect(c) ==
  /\ cpc[c] = "start"
  /\ cpc' = [cpc EXCEPT ![c] = "up"]
  /\ backlog' = backlog \cup {c}
  /\ UNCHANGED <<sent, taken, echoes, got>>

ClientSend(c) ==
  /\ cpc[c] = "up"
  /\ sent[c] < MaxMsgs
  /\ sent[c] - got[c] < Window
  /\ sent' = [sent EXCEPT ![c] = @ + 1]
  /\ UNCHANGED <<cpc, backlog, taken, echoes, got>>

ClientRecv(c) ==
  /\ cpc[c] = "up"
  /\ got[c] < Len(echoes[c])
  /\ got' = [got EXCEPT ![c] = @ + 1]
  /\ UNCHANGED <<cpc, backlog, sent, taken, echoes>>

\* The loop of main() ends after one exchange (run_once) or when the process
\* is killed; either way the kernel closes the client's socket.
ClientClose(c) ==
  /\ cpc[c] = "up"
  /\ cpc' = [cpc EXCEPT ![c] = "gone"]
  /\ UNCHANGED <<backlog, sent, taken, echoes, got>>

ClientStep(c) ==
  \/ ClientConnect(c)
  \/ ClientSend(c)
  \/ ClientRecv(c)
  \/ ClientClose(c)

-----------------------------------------------------------------------------
(***************************************************************************)
(* What a server's system calls on the connection of c can return.         *)
(***************************************************************************)

Pending(c) == sent[c] - taken[c]

\* A peer that closes with unread data, or is written to after it closed,
\* answers with a reset: reads and writes may then fail.
Reset(c) == cpc[c] = "gone" /\ got[c] < Len(echoes[c])

\* Byte counts a read can return now; the empty set if it would block.
RecvResults(c) ==
  (IF Pending(c) = 0 THEN {}
   ELSE {IF Pending(c) = 1 THEN BufSize ELSE ServerBufSize}
          \cup (IF "short" \in Faults THEN {1} ELSE {}))
    \cup (IF Pending(c) = 0 /\ cpc[c] = "gone" THEN {0} ELSE {})
    \cup (IF Reset(c) THEN {-1} ELSE {})

SendResults(c) ==
  {BufSize}
    \cup (IF "short" \in Faults THEN {1} ELSE {})
    \cup (IF cpc[c] = "gone" THEN {-1} ELSE {})

\* Only a whole message counts as read or as echoed: on any other count every
\* server ends the process.
TakeMessage(c, res) ==
  taken' = IF res = BufSize THEN [taken EXCEPT ![c] = @ + 1] ELSE taken

DeliverEcho(c, res, msg) ==
  echoes' = IF res = BufSize THEN [echoes EXCEPT ![c] = Append(@, msg)]
            ELSE echoes

=============================================================================
