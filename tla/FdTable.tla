------------------------------ MODULE FdTable -------------------------------
(***************************************************************************)
(* The engine's socket table (src/src/phase2_engine/fdtable.c).            *)
(*                                                                         *)
(* Each field of struct fd_entry is a function of the file descriptor.     *)
(* One action models one run of a dispatcher: the engine process is the    *)
(* only caller, so a dispatcher is atomic with respect to the table.       *)
(* "reply" is the part of the request record the dispatcher writes back.   *)
(*                                                                         *)
(* Left out because nothing reads them back: domain, type, proto and       *)
(* peer_port of an entry, and the peer_port that accept returns.  The      *)
(* backlog array with its head, tail and count is the sequence of its live *)
(* entries; Ring.tla shows that the array code implements that sequence.   *)
(***************************************************************************)
EXTENDS Integers, Sequences

CONSTANTS
    FDTABLE_MAX,   \* number of table entries; the first FD_FIRST are unused
    BACKLOG_MAX,   \* slots of a listener's backlog ring
    RXBUF_SIZE,    \* bytes of an entry's receive buffer
    MAX_PAYLOAD,   \* NETSTACK_MAX_PAYLOAD, the most bytes one request carries
    Ports,         \* port numbers that callers use
    Byte           \* byte values that callers send

ASSUME FdTableAssumption ==
    /\ FDTABLE_MAX \in Nat
    /\ BACKLOG_MAX \in Nat \ {0}
    /\ RXBUF_SIZE \in Nat \ {0}
    /\ MAX_PAYLOAD \in Nat
    /\ Ports \subseteq Nat

VARIABLES
    kind,          \* enum fd_kind
    local_port,
    backlog,       \* pending client descriptors, oldest first
    peer_fd,       \* -1 when unset
    rx,            \* the first rx_tail bytes of the receive buffer
    rx_head,
    reply          \* what the last dispatcher answered

table == <<kind, local_port, backlog, peer_fd, rx, rx_head>>
vars == <<kind, local_port, backlog, peer_fd, rx, rx_head, reply>>

FD_FIRST == 3
Fds == FD_FIRST .. FDTABLE_MAX - 1

(* Descriptors a caller may pass: the table's own, and one that is out of  *)
(* range.                                                                  *)
Socks == Fds \cup {-1}

Kinds == {"FREE", "UNBOUND", "LISTEN", "CONNECTED"}
Errs == {"OK", "EBADF", "EINVAL", "EADDRINUSE", "ECONNREFUSED", "EAGAIN",
         "ENOTCONN", "EMSGSIZE", "EMFILE"}
Ops == {"none", "socket", "close", "bind", "listen", "connect", "accept", "send", "recv"}

Replies == [op : Ops, err : Errs, sock : Socks, data : Seq(Byte)]

(* Mutation of LessOf: the second limit is not looked at. *)
LessOf_first(a, b) == a

LessOf(a, b) == IF a < b THEN a ELSE b

-----------------------------------------------------------------------------
(* Helpers of fdtable.c. *)

(* What a loop over the table that returns at its first match finds. *)
Lowest(S) == IF S = {} THEN -1 ELSE CHOOSE f \in S : \A g \in S : f <= g

alloc_fd == Lowest({f \in Fds : kind[f] = "FREE"})

fd_valid(fd) == fd \in Fds /\ kind[fd] # "FREE"

find_listener(port) == Lowest({f \in Fds : kind[f] = "LISTEN" /\ local_port[f] = port})

(* A port that a socket has bound but does not yet listen on is not in use. *)
port_in_use(port) ==
    \E f \in Fds : kind[f] \in {"LISTEN", "CONNECTED"} /\ local_port[f] = port

(* The unread bytes of an entry. *)
live(f) == SubSeq(rx[f], rx_head[f] + 1, Len(rx[f]))

(* Mutation of rx_compact: the move starts one byte too early. *)
rx_compact_early(f) == IF rx_head[f] = 0 THEN rx[f] ELSE SubSeq(rx[f], rx_head[f], Len(rx[f]))

(* The buffer after the live bytes are moved to its start. *)
rx_compact(f) == IF rx_head[f] = 0 THEN rx[f] ELSE live(f)

(* The memset of alloc_fd and close, and the kind and port that the caller *)
(* stores in the zeroed entry; peer_fd and backlog are left to the caller. *)
Zero(f, k, port) ==
    /\ kind' = [kind EXCEPT ![f] = k]
    /\ local_port' = [local_port EXCEPT ![f] = port]
    /\ rx' = [rx EXCEPT ![f] = <<>>]
    /\ rx_head' = [rx_head EXCEPT ![f] = 0]

(* The answer to a request: the descriptor it concerns (the new one for    *)
(* socket and accept) and the bytes moved.                                 *)
Answer(op, sock, data) ==
    reply' = [op |-> op, err |-> "OK", sock |-> sock, data |-> data]

AnswerErr(op, err) ==
    reply' = [op |-> op, err |-> err, sock |-> -1, data |-> <<>>]

(* A dispatcher that returns early with an error. *)
Refuse(op, err) ==
    /\ err # "OK"
    /\ AnswerErr(op, err)
    /\ UNCHANGED table

-----------------------------------------------------------------------------
(* Dispatchers.  The _err operators are the early returns, in order. *)

dispatch_socket ==
    \/ /\ alloc_fd = -1
       /\ Refuse("socket", "EMFILE")
    \/ /\ alloc_fd # -1
       /\ LET fd == alloc_fd IN
          /\ Zero(fd, "UNBOUND", 0)
          /\ peer_fd' = [peer_fd EXCEPT ![fd] = -1]
          /\ backlog' = [backlog EXCEPT ![fd] = <<>>]
          /\ Answer("socket", fd, <<>>)

close_err(fd) == IF fd_valid(fd) THEN "OK" ELSE "EBADF"

(* Mutation of DropPeer: the peer is not told. *)
DropPeer_silent(fd) == [peer_fd EXCEPT ![fd] = -1]

(* The entry that close writes through its peer_fd. *)
DropPeer(fd) ==
    IF kind[fd] = "CONNECTED" /\ fd_valid(peer_fd[fd])
    THEN [peer_fd EXCEPT ![peer_fd[fd]] = -1, ![fd] = -1]
    ELSE [peer_fd EXCEPT ![fd] = -1]

dispatch_close(fd) ==
    \/ Refuse("close", close_err(fd))
    \/ /\ close_err(fd) = "OK"
       /\ Zero(fd, "FREE", 0)
       /\ peer_fd' = DropPeer(fd)
       /\ backlog' = [backlog EXCEPT ![fd] = <<>>]
       /\ Answer("close", fd, <<>>)

bind_err(fd, port) ==
    IF ~ fd_valid(fd) THEN "EBADF"
    ELSE IF kind[fd] # "UNBOUND" THEN "EINVAL"
    ELSE IF port_in_use(port) THEN "EADDRINUSE"
    ELSE "OK"

dispatch_bind(fd, port) ==
    \/ Refuse("bind", bind_err(fd, port))
    \/ /\ bind_err(fd, port) = "OK"
       /\ local_port' = [local_port EXCEPT ![fd] = port]
       /\ Answer("bind", fd, <<>>)
       /\ UNCHANGED <<kind, backlog, peer_fd, rx, rx_head>>

listen_err(fd) ==
    IF ~ fd_valid(fd) THEN "EBADF"
    ELSE IF kind[fd] # "UNBOUND" \/ local_port[fd] = 0 THEN "EINVAL"
    ELSE "OK"

dispatch_listen(fd) ==
    \/ Refuse("listen", listen_err(fd))
    \/ /\ listen_err(fd) = "OK"
       /\ kind' = [kind EXCEPT ![fd] = "LISTEN"]
       /\ backlog' = [backlog EXCEPT ![fd] = <<>>]
       /\ Answer("listen", fd, <<>>)
       /\ UNCHANGED <<local_port, peer_fd, rx, rx_head>>

(* Mutation of connect_err: a socket may connect again. *)
connect_err_again(fd, port) ==
    IF ~ fd_valid(fd) THEN "EBADF"
    ELSE IF find_listener(port) = -1 THEN "ECONNREFUSED"
    ELSE IF Len(backlog[find_listener(port)]) >= BACKLOG_MAX THEN "EAGAIN"
    ELSE "OK"

connect_err(fd, port) ==
    IF ~ fd_valid(fd) THEN "EBADF"
    ELSE IF kind[fd] # "UNBOUND" THEN "EINVAL"
    ELSE IF find_listener(port) = -1 THEN "ECONNREFUSED"
    ELSE IF Len(backlog[find_listener(port)]) >= BACKLOG_MAX THEN "EAGAIN"
    ELSE "OK"

dispatch_connect(fd, port) ==
    \/ Refuse("connect", connect_err(fd, port))
    \/ /\ connect_err(fd, port) = "OK"
       /\ kind' = [kind EXCEPT ![fd] = "CONNECTED"]
       /\ peer_fd' = [peer_fd EXCEPT ![fd] = -1]
       /\ backlog' = [backlog EXCEPT ![find_listener(port)] = Append(@, fd)]
       /\ Answer("connect", fd, <<>>)
       /\ UNCHANGED <<local_port, rx, rx_head>>

accept_err(fd) ==
    IF ~ fd_valid(fd) THEN "EBADF"
    ELSE IF kind[fd] # "LISTEN" THEN "EINVAL"
    ELSE IF backlog[fd] = <<>> THEN "EAGAIN"
    ELSE "OK"

(* With a pending client, accept pops it before it knows whether a         *)
(* descriptor is left, and pushes it back when none is.  It pairs the new  *)
(* descriptor with whatever entry the popped number now names.             *)
dispatch_accept(fd) ==
    \/ Refuse("accept", accept_err(fd))
    \/ /\ accept_err(fd) = "OK"
       /\ alloc_fd = -1
       /\ backlog' = [backlog EXCEPT ![fd] = <<Head(@)>> \o Tail(@)]
       /\ AnswerErr("accept", "EMFILE")
       /\ UNCHANGED <<kind, local_port, peer_fd, rx, rx_head>>
    \/ /\ accept_err(fd) = "OK"
       /\ alloc_fd # -1
       /\ LET client_fd == Head(backlog[fd])
              new_fd    == alloc_fd
          IN
          /\ Zero(new_fd, "CONNECTED", local_port[fd])
          /\ peer_fd' = [peer_fd EXCEPT ![new_fd] = client_fd, ![client_fd] = new_fd]
          /\ backlog' = [backlog EXCEPT ![fd] = Tail(@),
                                        ![new_fd] = <<>>]
          /\ Answer("accept", new_fd, <<>>)

send_err(fd, len) ==
    IF ~ fd_valid(fd) THEN "EBADF"
    ELSE IF kind[fd] # "CONNECTED" \/ ~ fd_valid(peer_fd[fd]) THEN "ENOTCONN"
    ELSE IF len < 0 \/ len > MAX_PAYLOAD THEN "EMSGSIZE"
    ELSE "OK"

(* A send stores as many bytes as fit, after it compacts the receive       *)
(* buffer of the peer; with no room it answers EAGAIN, compacted or not.   *)
dispatch_send(fd, len, data) ==
    \/ Refuse("send", send_err(fd, len))
    \/ /\ send_err(fd, len) = "OK"
       /\ LET peer     == peer_fd[fd]
              buf      == rx_compact(peer)
              room     == RXBUF_SIZE - Len(buf)
              to_write == LessOf(len, room)
          IN
          /\ rx_head' = [rx_head EXCEPT ![peer] = 0]
          /\ \/ /\ room <= 0
                /\ rx' = [rx EXCEPT ![peer] = buf]
                /\ AnswerErr("send", "EAGAIN")
             \/ /\ room > 0
                /\ rx' = [rx EXCEPT ![peer] = buf \o SubSeq(data, 1, to_write)]
                /\ Answer("send", fd, SubSeq(data, 1, to_write))
       /\ UNCHANGED <<kind, local_port, backlog, peer_fd>>

recv_err(fd) ==
    IF ~ fd_valid(fd) THEN "EBADF"
    ELSE IF kind[fd] # "CONNECTED" THEN "ENOTCONN"
    ELSE IF live(fd) = <<>> /\ fd_valid(peer_fd[fd]) THEN "EAGAIN"
    ELSE "OK"

Clamp(want) == IF want < 0 THEN 0 ELSE LessOf(want, MAX_PAYLOAD)

(* An empty buffer and no valid peer is end of file: zero bytes and OK. *)
dispatch_recv(fd, want) ==
    \/ Refuse("recv", recv_err(fd))
    \/ /\ recv_err(fd) = "OK"
       /\ live(fd) = <<>>
       /\ Answer("recv", fd, <<>>)
       /\ UNCHANGED table
    \/ /\ recv_err(fd) = "OK"
       /\ live(fd) # <<>>
       /\ LET to_read == LessOf(Len(live(fd)), Clamp(want))
              head    == rx_head[fd] + to_read
              drained == head = Len(rx[fd])
          IN
          /\ rx' = [rx EXCEPT ![fd] = IF drained THEN <<>> ELSE @]
          /\ rx_head' = [rx_head EXCEPT ![fd] = IF drained THEN 0 ELSE head]
          /\ Answer("recv", fd, SubSeq(live(fd), 1, to_read))
       /\ UNCHANGED <<kind, local_port, backlog, peer_fd>>

-----------------------------------------------------------------------------
(* The table starts zeroed (static storage), peer_fd included. *)
Init ==
    /\ kind = [f \in Fds |-> "FREE"]
    /\ local_port = [f \in Fds |-> 0]
    /\ backlog = [f \in Fds |-> <<>>]
    /\ peer_fd = [f \in Fds |-> 0]
    /\ rx = [f \in Fds |-> <<>>]
    /\ rx_head = [f \in Fds |-> 0]
    /\ reply = [op |-> "none", err |-> "OK", sock |-> -1, data |-> <<>>]

(* Payloads a request can carry, and lengths it cannot. *)
Payloads == UNION {[1 .. n -> Byte] : n \in 0 .. MAX_PAYLOAD}
BadLens == {-1, MAX_PAYLOAD + 1}

dispatch_any_send(fd) ==
    \/ \E data \in Payloads : dispatch_send(fd, Len(data), data)
    \/ \E len \in BadLens : dispatch_send(fd, len, <<>>)

(* Every dispatcher but close. *)
NextButClose ==
    \/ dispatch_socket
    \/ \E fd \in Socks :
          \/ \E port \in Ports : dispatch_bind(fd, port) \/ dispatch_connect(fd, port)
          \/ dispatch_listen(fd)
          \/ dispatch_accept(fd)
          \/ dispatch_any_send(fd)
          \/ \E want \in -1 .. MAX_PAYLOAD + 1 : dispatch_recv(fd, want)

Next == NextButClose \/ \E fd \in Socks : dispatch_close(fd)

Spec == Init /\ [][Next]_vars

(* A client descriptor that a listener has queued and not yet accepted. *)
Pending(fd) == \E l \in Fds : \E i \in DOMAIN backlog[l] : backlog[l][i] = fd

(* Callers that never close a socket whose connect is still unaccepted. *)
OrderlyNext ==
    NextButClose \/ \E fd \in Socks : ~ Pending(fd) /\ dispatch_close(fd)

OrderlySpec == Init /\ [][OrderlyNext]_vars

-----------------------------------------------------------------------------
(* Properties. *)

(* Type invariant: the table's fields, with the receive buffer and the     *)
(* backlog inside the arrays that fdtable.c declares for them.             *)
TypeOK ==
    /\ kind \in [Fds -> Kinds]
    /\ local_port \in [Fds -> Ports \cup {0}]
    /\ backlog \in [Fds -> Seq(Fds)]
    /\ peer_fd \in [Fds -> Fds \cup {-1, 0}]
    /\ rx \in [Fds -> Seq(Byte)]
    /\ rx_head \in [Fds -> Nat]
    /\ reply \in Replies
    /\ \A f \in Fds : /\ Len(backlog[f]) <= BACKLOG_MAX
                      /\ rx_head[f] <= Len(rx[f])
                      /\ Len(rx[f]) <= RXBUF_SIZE

(* What a step may do to the unread bytes of a descriptor. *)
KeepsBytes(f) ==
    \/ live(f)' = live(f)
    \/ /\ reply'.op = "send"
       /\ \E s \in Fds : reply'.sock = s /\ peer_fd[s] = f
       /\ live(f)' = live(f) \o reply'.data
    \/ /\ reply'.op = "recv" /\ reply'.sock = f
       /\ live(f) = reply'.data \o live(f)'
    \/ /\ reply'.op \in {"close", "socket", "accept"} /\ reply'.sock = f
       /\ live(f)' = <<>>

(* The unread bytes of a descriptor change in three ways only: a send on   *)
(* the socket that names it as peer appends what that send reports, a recv *)
(* on it takes off the front what that recv reports, and closing or        *)
(* reusing the descriptor empties it.  No compaction, partial send, accept *)
(* or close of another descriptor loses, repeats or reorders a byte.       *)
BytesKept == [][\A f \in Fds : KeepsBytes(f)]_vars

(* FD_SOCKET_CONNECTED is "paired with a peer" (fdtable.c:32): the peer of *)
(* a connected socket is another connected socket, and that one's peer is  *)
(* the first, so the bytes of one connection never reach another.          *)
PairedPeers ==
    \A f \in Fds :
       kind[f] = "CONNECTED" /\ peer_fd[f] # -1 =>
          /\ peer_fd[f] \in Fds \ {f}
          /\ kind[peer_fd[f]] = "CONNECTED"
          /\ peer_fd[peer_fd[f]] = f

(* The strengthening that makes PairedPeers inductive when no pending      *)
(* client is closed: a backlog holds each client once, each client in it   *)
(* is connected and not yet paired, and only listeners have a backlog.     *)
BacklogsOK ==
    /\ \A f \in Fds : kind[f] \in {"UNBOUND", "LISTEN"} => peer_fd[f] = -1
    /\ \A l \in Fds : backlog[l] # <<>> => kind[l] = "LISTEN"
    /\ \A l \in Fds : \A i \in DOMAIN backlog[l] :
          kind[backlog[l][i]] = "CONNECTED" /\ peer_fd[backlog[l][i]] = -1
    /\ \A l, m \in Fds : \A i \in DOMAIN backlog[l], j \in DOMAIN backlog[m] :
          backlog[l][i] = backlog[m][j] => l = m /\ i = j

(* Connections stay paired one to one (fdtable.c:246-254, 148-153) and     *)
(* every client that accept takes from a backlog is one still to be paired.*)
PairInv == PairedPeers /\ BacklogsOK

(* The table as endpoints, pairs and streams. *)
Opened == {f \in Fds : kind[f] # "FREE"}
Peers == [f \in Fds |-> IF kind[f] = "CONNECTED" THEN peer_fd[f] ELSE -1]
Streams == [f \in Fds |-> live(f)]
Outcome == [op |-> IF reply.err = "OK" THEN reply.op ELSE "none",
            sock |-> reply.sock, data |-> reply.data]

Abstract == INSTANCE Connections WITH
    Ends <- Fds, Capacity <- RXBUF_SIZE, None <- -1,
    open <- Opened, peer <- Peers, stream <- Streams, out <- Outcome

(* The dispatchers implement paired byte streams: each step of the table   *)
(* opens, joins, closes, sends, receives or only reports.                  *)
ImplementsConnections == Abstract!Spec

=============================================================================
