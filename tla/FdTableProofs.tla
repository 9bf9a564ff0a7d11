--------------------------- MODULE FdTableProofs ----------------------------
(***************************************************************************)
(* Proofs about the socket table for every table size, backlog, buffer and *)
(* payload bound, port set and byte set.                                   *)
(***************************************************************************)
EXTENDS FdTable, SequenceTheorems, NaturalsInduction, WellFoundedInduction, TLAPS

(* The loops over the table return -1 or a member of the set searched. *)
LEMMA LowestInSet ==
    ASSUME NEW S \in SUBSET Fds
    PROVE  (S = {} /\ Lowest(S) = -1) \/ (S # {} /\ Lowest(S) \in S)
<1>1. CASE S = {}
    BY <1>1 DEF Lowest
<1>2. CASE S # {}
    <2>1. S \subseteq Nat
        BY FdTableAssumption DEF Fds, FD_FIRST
    <2>2. PICK x \in S : \A y \in S : ~ (<<y, x>> \in OpToRel(<, Nat))
        BY Zenon, <1>2, <2>1, WFMin, NatLessThanWellFounded
    <2>3. ASSUME NEW y \in S, y < x
          PROVE  FALSE
        <3>1. <<y, x>> \in Nat \X Nat
            BY <2>1
        <3>2. <<y, x>> \in {ss \in Nat \X Nat : ss[1] < ss[2]}
            BY <2>3, <3>1
        <3>3. QED
            BY <2>2, <3>2 DEF OpToRel
    <2>4. \E f \in S : \A g \in S : f <= g
        BY <2>1, <2>3
    <2>5. (CHOOSE f \in S : \A g \in S : f <= g) \in S
        BY <2>4
    <2>6. QED
        BY <1>2, <2>5 DEF Lowest
<1>3. QED
    BY <1>1, <1>2

(* alloc_fd returns -1 or a free entry of the table. *)
LEMMA AllocFd ==
    alloc_fd = -1 \/ (alloc_fd \in Fds /\ kind[alloc_fd] = "FREE")
<1> DEFINE S == {f \in Fds : kind[f] = "FREE"}
<1>1. S \in SUBSET Fds
    OBVIOUS
<1>2. (S = {} /\ Lowest(S) = -1) \/ (S # {} /\ Lowest(S) \in S)
    BY <1>1, LowestInSet
<1>3. QED
    BY <1>2 DEF alloc_fd

(* find_listener returns -1 or a listening entry of the table. *)
LEMMA FindListener ==
    ASSUME NEW port
    PROVE  \/ find_listener(port) = -1
           \/ find_listener(port) \in Fds /\ kind[find_listener(port)] = "LISTEN"
<1> DEFINE S == {f \in Fds : kind[f] = "LISTEN" /\ local_port[f] = port}
<1>1. S \in SUBSET Fds
    OBVIOUS
<1>2. (S = {} /\ Lowest(S) = -1) \/ (S # {} /\ Lowest(S) \in S)
    BY <1>1, LowestInSet
<1>3. QED
    BY <1>2 DEF find_listener

(* Descriptors are not -1. *)
LEMMA FdsInt == Fds \subseteq Nat /\ -1 \notin Fds
BY FdTableAssumption DEF Fds, FD_FIRST

(* The unread bytes are a sequence of bytes that fits what is stored. *)
LEMMA LiveType ==
    ASSUME TypeOK, NEW f \in Fds
    PROVE  /\ live(f) \in Seq(Byte)
           /\ Len(live(f)) = Len(rx[f]) - rx_head[f]
           /\ \A i \in 1 .. Len(live(f)) : live(f)[i] = rx[f][rx_head[f] + i]
<1>1. rx[f] \in Seq(Byte) /\ rx_head[f] \in Nat /\ rx_head[f] <= Len(rx[f])
    BY DEF TypeOK
<1>2. \A i \in rx_head[f] + 1 .. Len(rx[f]) : rx[f][i] \in Byte
    BY <1>1, ElementOfSeq
<1>3. Len(rx[f]) \in Int /\ rx_head[f] + 1 \in Int
    BY <1>1
<1>4. /\ live(f) \in Seq(Byte)
      /\ Len(live(f)) = IF rx_head[f] + 1 <= Len(rx[f])
                        THEN Len(rx[f]) - (rx_head[f] + 1) + 1 ELSE 0
      /\ \A i \in 1 .. Len(rx[f]) - (rx_head[f] + 1) + 1 :
            live(f)[i] = rx[f][rx_head[f] + 1 + i - 1]
    BY <1>2, <1>3, SubSeqProperties DEF live
<1>5. Len(live(f)) = Len(rx[f]) - rx_head[f]
    BY <1>1, <1>3, <1>4
<1>6. ASSUME NEW i \in 1 .. Len(rx[f]) - rx_head[f]
      PROVE  live(f)[i] = rx[f][rx_head[f] + i]
    <2>1. i \in 1 .. Len(rx[f]) - (rx_head[f] + 1) + 1 /\ rx_head[f] + 1 + i - 1 = rx_head[f] + i
        BY SMTT(30), <1>1, <1>3
    <2>2. QED
        BY <1>4, <2>1
<1>7. QED
    BY <1>4, <1>5, <1>6

(* A prefix of a sequence. *)
LEMMA PrefixType ==
    ASSUME NEW S, NEW s \in Seq(S), NEW n \in 0 .. Len(s)
    PROVE  /\ SubSeq(s, 1, n) \in Seq(S)
           /\ Len(SubSeq(s, 1, n)) = n
<1>1. \A i \in 1 .. n : s[i] \in S
    BY ElementOfSeq
<1>2. QED
    BY <1>1, SubSeqProperties

-----------------------------------------------------------------------------
(* Type correctness. *)

(* The zeroed table has the right types. *)
LEMMA InitTypeOK == Init => TypeOK
BY FdTableAssumption DEF Init, TypeOK, Fds, FD_FIRST, Kinds, Ops, Errs, Socks, Replies

(* An early return keeps the table and answers with an error code. *)
LEMMA RefuseTypeOK ==
    ASSUME TypeOK, NEW op \in Ops, NEW err \in Errs, Refuse(op, err)
    PROVE  TypeOK'
BY DEF TypeOK, Refuse, AnswerErr, table, Socks, Replies

(* An answer is a reply record. *)
LEMMA AnswerType ==
    ASSUME NEW op \in Ops, NEW sock \in Socks, NEW data \in Seq(Byte), Answer(op, sock, data)
    PROVE  reply' \in Replies
BY DEF Answer, Errs, Replies

(* Zeroing an entry keeps the types of the fields it writes. *)
LEMMA ZeroType ==
    ASSUME TypeOK, NEW f \in Fds, NEW k \in Kinds, NEW port \in Ports \cup {0},
           Zero(f, k, port)
    PROVE  /\ kind' \in [Fds -> Kinds]
           /\ local_port' \in [Fds -> Ports \cup {0}]
           /\ rx' \in [Fds -> Seq(Byte)]
           /\ rx_head' \in [Fds -> Nat]
           /\ \A g \in Fds : rx_head'[g] <= Len(rx'[g]) /\ Len(rx'[g]) <= RXBUF_SIZE
BY FdTableAssumption DEF TypeOK, Zero

(* socket opens a zeroed entry. *)
LEMMA SocketTypeOK ==
    ASSUME TypeOK, dispatch_socket
    PROVE  TypeOK'
<1>1. CASE Refuse("socket", "EMFILE")
    BY <1>1, RefuseTypeOK DEF Ops, Errs
<1>2. CASE alloc_fd # -1 /\ ~ Refuse("socket", "EMFILE")
    <2>1. alloc_fd \in Fds
        BY <1>2, AllocFd
    <2>2. /\ Zero(alloc_fd, "UNBOUND", 0)
          /\ peer_fd' = [peer_fd EXCEPT ![alloc_fd] = -1]
          /\ backlog' = [backlog EXCEPT ![alloc_fd] = <<>>]
          /\ Answer("socket", alloc_fd, <<>>)
        BY <1>2 DEF dispatch_socket
    <2>3. peer_fd' \in [Fds -> Fds \cup {-1, 0}]
        BY <2>1, <2>2 DEF TypeOK
    <2>4. backlog' \in [Fds -> Seq(Fds)] /\ \A f \in Fds : Len(backlog'[f]) <= BACKLOG_MAX
        BY <2>1, <2>2, FdTableAssumption DEF TypeOK
    <2>5. reply' \in Replies
        BY Zenon, <2>1, <2>2, AnswerType, EmptySeq DEF Ops, Socks
    <2>6. QED
        BY <2>1, <2>2, <2>3, <2>4, <2>5, ZeroType DEF TypeOK, Kinds
<1>3. QED
    BY <1>1, <1>2 DEF dispatch_socket

(* close zeroes an entry and resets the peer of another. *)
LEMMA CloseTypeOK ==
    ASSUME TypeOK, NEW fd \in Socks, dispatch_close(fd)
    PROVE  TypeOK'
<1>1. CASE Refuse("close", close_err(fd))
    BY <1>1, RefuseTypeOK DEF Ops, Errs, close_err
<1>2. CASE ~ Refuse("close", close_err(fd))
    <2>1. fd \in Fds
        BY <1>2 DEF dispatch_close, close_err, fd_valid
    <2>2. /\ Zero(fd, "FREE", 0)
          /\ peer_fd' = DropPeer(fd)
          /\ backlog' = [backlog EXCEPT ![fd] = <<>>]
          /\ Answer("close", fd, <<>>)
        BY <1>2 DEF dispatch_close
    <2>3. peer_fd' \in [Fds -> Fds \cup {-1, 0}]
        BY Zenon, <2>1, <2>2 DEF DropPeer, TypeOK
    <2>4. backlog' \in [Fds -> Seq(Fds)] /\ \A f \in Fds : Len(backlog'[f]) <= BACKLOG_MAX
        BY <2>1, <2>2, FdTableAssumption DEF TypeOK
    <2>5. reply' \in Replies
        BY Zenon, <2>1, <2>2, AnswerType, EmptySeq DEF Ops, Socks
    <2>6. QED
        BY <2>1, <2>2, <2>3, <2>4, <2>5, ZeroType DEF TypeOK, Kinds
<1>3. QED
    BY <1>1, <1>2

(* bind stores a port. *)
LEMMA BindTypeOK ==
    ASSUME TypeOK, NEW fd \in Socks, NEW port \in Ports, dispatch_bind(fd, port)
    PROVE  TypeOK'
<1>1. CASE Refuse("bind", bind_err(fd, port))
    BY <1>1, RefuseTypeOK DEF Ops, Errs, bind_err
<1>2. CASE ~ Refuse("bind", bind_err(fd, port))
    <2>1. fd \in Fds
        BY <1>2 DEF dispatch_bind, bind_err, fd_valid
    <2>2. /\ local_port' = [local_port EXCEPT ![fd] = port]
          /\ Answer("bind", fd, <<>>)
          /\ UNCHANGED <<kind, backlog, peer_fd, rx, rx_head>>
        BY <1>2 DEF dispatch_bind
    <2>3. local_port' \in [Fds -> Ports \cup {0}]
        BY <2>1, <2>2 DEF TypeOK
    <2>4. reply' \in Replies
        BY Zenon, <2>1, <2>2, AnswerType, EmptySeq DEF Ops, Socks
    <2>5. QED
        BY <2>1, <2>2, <2>3, <2>4 DEF TypeOK
<1>3. QED
    BY <1>1, <1>2

(* listen starts with an empty backlog. *)
LEMMA ListenTypeOK ==
    ASSUME TypeOK, NEW fd \in Socks, dispatch_listen(fd)
    PROVE  TypeOK'
<1>1. CASE Refuse("listen", listen_err(fd))
    BY <1>1, RefuseTypeOK DEF Ops, Errs, listen_err
<1>2. CASE ~ Refuse("listen", listen_err(fd))
    <2>1. fd \in Fds
        BY <1>2 DEF dispatch_listen, listen_err, fd_valid
    <2>2. /\ kind' = [kind EXCEPT ![fd] = "LISTEN"]
          /\ backlog' = [backlog EXCEPT ![fd] = <<>>]
          /\ Answer("listen", fd, <<>>)
          /\ UNCHANGED <<local_port, peer_fd, rx, rx_head>>
        BY <1>2 DEF dispatch_listen
    <2>3. kind' \in [Fds -> Kinds]
        BY <2>1, <2>2 DEF TypeOK, Kinds
    <2>4. backlog' \in [Fds -> Seq(Fds)] /\ \A f \in Fds : Len(backlog'[f]) <= BACKLOG_MAX
        BY <2>1, <2>2, FdTableAssumption DEF TypeOK
    <2>5. reply' \in Replies
        BY Zenon, <2>1, <2>2, AnswerType, EmptySeq DEF Ops, Socks
    <2>6. QED
        BY <2>1, <2>2, <2>3, <2>4, <2>5 DEF TypeOK
<1>3. QED
    BY <1>1, <1>2

(* connect adds to a backlog only below BACKLOG_MAX. *)
LEMMA ConnectTypeOK ==
    ASSUME TypeOK, NEW fd \in Socks, NEW port \in Ports, dispatch_connect(fd, port)
    PROVE  TypeOK'
<1> DEFINE l == find_listener(port)
<1>1. CASE Refuse("connect", connect_err(fd, port))
    BY <1>1, RefuseTypeOK DEF Ops, Errs, connect_err
<1>2. CASE ~ Refuse("connect", connect_err(fd, port))
    <2>1. fd \in Fds /\ l # -1 /\ ~ (Len(backlog[l]) >= BACKLOG_MAX)
        BY <1>2 DEF dispatch_connect, connect_err, fd_valid
    <2>2. /\ kind' = [kind EXCEPT ![fd] = "CONNECTED"]
          /\ peer_fd' = [peer_fd EXCEPT ![fd] = -1]
          /\ backlog' = [backlog EXCEPT ![l] = Append(@, fd)]
          /\ Answer("connect", fd, <<>>)
          /\ UNCHANGED <<local_port, rx, rx_head>>
        BY <1>2 DEF dispatch_connect
    <2>3. l \in Fds
        BY <2>1, FindListener
    <2> HIDE DEF l
    <2>4. kind' \in [Fds -> Kinds] /\ peer_fd' \in [Fds -> Fds \cup {-1, 0}]
        BY <2>1, <2>2 DEF TypeOK, Kinds
    <2>5. /\ Append(backlog[l], fd) \in Seq(Fds)
          /\ Len(Append(backlog[l], fd)) <= BACKLOG_MAX
        BY <2>1, <2>3, AppendProperties, FdTableAssumption DEF TypeOK
    <2>6. backlog' \in [Fds -> Seq(Fds)] /\ \A f \in Fds : Len(backlog'[f]) <= BACKLOG_MAX
        BY <2>2, <2>3, <2>5 DEF TypeOK
    <2>7. reply' \in Replies
        BY Zenon, <2>1, <2>2, AnswerType, EmptySeq DEF Ops, Socks
    <2>8. QED
        BY SMTT(30), <2>1, <2>2, <2>4, <2>6, <2>7 DEF TypeOK
<1>3. QED
    BY <1>1, <1>2

(* accept takes from a backlog, or puts back what it took. *)
LEMMA AcceptTypeOK ==
    ASSUME TypeOK, NEW fd \in Socks, dispatch_accept(fd)
    PROVE  TypeOK'
<1>1. CASE Refuse("accept", accept_err(fd))
    BY <1>1, RefuseTypeOK DEF Ops, Errs, accept_err
<1>2. CASE ~ Refuse("accept", accept_err(fd))
    <2>1. fd \in Fds /\ backlog[fd] # <<>> /\ kind[fd] = "LISTEN"
        BY <1>2 DEF dispatch_accept, accept_err, fd_valid
    <2>2. /\ Head(backlog[fd]) \in Fds
          /\ Tail(backlog[fd]) \in Seq(Fds)
          /\ Len(Tail(backlog[fd])) = Len(backlog[fd]) - 1
          /\ Len(backlog[fd]) \in Nat
        BY <2>1, HeadTailProperties DEF TypeOK
    <2>3. CASE alloc_fd = -1
        <3>1. /\ backlog' = [backlog EXCEPT ![fd] = <<Head(@)>> \o Tail(@)]
              /\ AnswerErr("accept", "EMFILE")
              /\ UNCHANGED <<kind, local_port, peer_fd, rx, rx_head>>
            BY <1>2, <2>3 DEF dispatch_accept
        <3>2. /\ <<Head(backlog[fd])>> \o Tail(backlog[fd]) \in Seq(Fds)
              /\ Len(<<Head(backlog[fd])>> \o Tail(backlog[fd])) = Len(backlog[fd])
            BY <2>2, ConcatProperties
        <3>3. backlog' \in [Fds -> Seq(Fds)] /\ \A f \in Fds : Len(backlog'[f]) <= BACKLOG_MAX
            BY <2>1, <3>1, <3>2 DEF TypeOK
        <3>4. reply' \in Replies
            BY <3>1 DEF AnswerErr, Replies, Ops, Errs, Socks
        <3>5. QED
            BY <3>1, <3>3, <3>4 DEF TypeOK
    <2>4. CASE alloc_fd # -1
        <3> DEFINE new == alloc_fd
                   client == Head(backlog[fd])
        <3>1. new \in Fds /\ kind[new] = "FREE"
            BY <2>4, AllocFd
        <3>2. /\ Zero(new, "CONNECTED", local_port[fd])
              /\ peer_fd' = [peer_fd EXCEPT ![new] = client, ![client] = new]
              /\ backlog' = [backlog EXCEPT ![fd] = Tail(@), ![new] = <<>>]
              /\ Answer("accept", new, <<>>)
            BY <1>2, <2>4 DEF dispatch_accept
        <3> HIDE DEF new, client
        <3>3. client \in Fds
            BY <2>2 DEF client
        <3>4. peer_fd' \in [Fds -> Fds \cup {-1, 0}]
            BY Zenon, <3>1, <3>2, <3>3 DEF TypeOK
        <3>5. /\ backlog' \in [Fds -> Seq(Fds)]
              /\ \A f \in Fds : Len(backlog'[f]) <= BACKLOG_MAX
            <4>1. fd # new
                BY <2>1, <3>1
            <4>2. Len(Tail(backlog[fd])) <= BACKLOG_MAX
                BY <2>1, <2>2, FdTableAssumption DEF TypeOK
            <4>3. \A f \in Fds : backlog'[f] =
                     IF f = fd THEN Tail(backlog[fd]) ELSE IF f = new THEN <<>> ELSE backlog[f]
                BY Zenon, <2>1, <3>1, <3>2, <4>1 DEF TypeOK
            <4>4. \A f \in Fds : backlog'[f] \in Seq(Fds) /\ Len(backlog'[f]) <= BACKLOG_MAX
                <5>1. <<>> \in Seq(Fds) /\ Len(<<>>) <= BACKLOG_MAX
                    BY FdTableAssumption
                <5>2. QED
                    BY Zenon, <2>2, <4>2, <4>3, <5>1 DEF TypeOK
            <4>5. QED
                BY Zenon, <3>2, <4>4 DEF TypeOK
        <3>6. reply' \in Replies
            BY Zenon, <3>1, <3>2, AnswerType, EmptySeq DEF Ops, Socks
        <3>7. local_port[fd] \in Ports \cup {0}
            BY <2>1 DEF TypeOK
        <3>8. QED
            BY Zenon, <3>1, <3>2, <3>4, <3>5, <3>6, <3>7, ZeroType DEF TypeOK, Kinds
    <2>5. QED
        BY <2>3, <2>4
<1>3. QED
    BY <1>1, <1>2

(* send writes no more than the room left after compaction. *)
LEMMA SendTypeOK ==
    ASSUME TypeOK, NEW fd \in Socks, NEW data \in Seq(Byte), NEW len \in Int,
           len \in 0 .. MAX_PAYLOAD => len = Len(data),
           dispatch_send(fd, len, data)
    PROVE  TypeOK'
<1> DEFINE peer == peer_fd[fd]
           buf  == rx_compact(peer)
           room == RXBUF_SIZE - Len(buf)
           part == SubSeq(data, 1, LessOf(len, room))
<1>1. CASE Refuse("send", send_err(fd, len))
    BY <1>1, RefuseTypeOK DEF Ops, Errs, send_err
<1>2. CASE ~ Refuse("send", send_err(fd, len))
    <2>1. fd \in Fds /\ peer \in Fds /\ ~ (len < 0 \/ len > MAX_PAYLOAD)
        BY <1>2 DEF dispatch_send, send_err, fd_valid
    <2>2. len = Len(data) /\ len \in Nat
        BY <2>1, FdTableAssumption
    <2>3. /\ rx_head' = [rx_head EXCEPT ![peer] = 0]
          /\ UNCHANGED <<kind, local_port, backlog, peer_fd>>
          /\ \/ /\ rx' = [rx EXCEPT ![peer] = buf]
                /\ AnswerErr("send", "EAGAIN")
             \/ /\ room > 0
                /\ rx' = [rx EXCEPT ![peer] = buf \o part]
                /\ Answer("send", fd, part)
        BY Zenon, <1>2 DEF dispatch_send
    <2>4. buf \in Seq(Byte) /\ Len(buf) \in Nat /\ Len(buf) <= RXBUF_SIZE
        BY <2>1, LiveType, FdTableAssumption DEF rx_compact, TypeOK
    <2> HIDE DEF peer, buf
    <2>5. rx_head' \in [Fds -> Nat]
        BY <2>1, <2>3 DEF TypeOK
    <2>6. CASE rx' = [rx EXCEPT ![peer] = buf] /\ AnswerErr("send", "EAGAIN")
        <3>1. reply' \in Replies
            BY <2>6 DEF AnswerErr, Replies, Ops, Errs, Socks
        <3>2. /\ rx' \in [Fds -> Seq(Byte)]
              /\ \A f \in Fds : rx_head'[f] <= Len(rx'[f]) /\ Len(rx'[f]) <= RXBUF_SIZE
            BY <2>1, <2>3, <2>4, <2>6 DEF TypeOK
        <3>3. QED
            BY <2>3, <2>5, <3>1, <3>2 DEF TypeOK
    <2>7. CASE room > 0 /\ rx' = [rx EXCEPT ![peer] = buf \o part] /\ Answer("send", fd, part)
        <3>1. LessOf(len, room) \in 0 .. Len(data) /\ LessOf(len, room) <= room
            BY <2>2, <2>4, <2>7, FdTableAssumption DEF LessOf
        <3>2. part \in Seq(Byte) /\ Len(part) = LessOf(len, room)
            BY <3>1, PrefixType
        <3> HIDE DEF part
        <3>3. buf \o part \in Seq(Byte) /\ Len(buf \o part) = Len(buf) + Len(part)
            BY Zenon, <2>4, <3>2, ConcatProperties
        <3>4. Len(buf \o part) \in 0 .. RXBUF_SIZE
            BY <2>4, <3>1, <3>2, <3>3, FdTableAssumption
        <3>5. /\ rx' \in [Fds -> Seq(Byte)]
              /\ \A f \in Fds : rx_head'[f] <= Len(rx'[f]) /\ Len(rx'[f]) <= RXBUF_SIZE
            BY <2>1, <2>3, <2>7, <3>3, <3>4 DEF TypeOK
        <3>6. reply' \in Replies
            BY <2>1, <2>7, <3>2, AnswerType DEF Ops, Socks
        <3>7. QED
            BY <2>3, <2>5, <3>5, <3>6 DEF TypeOK
    <2>8. QED
        BY Zenon, <2>3, <2>6, <2>7
<1>3. QED
    BY <1>1, <1>2

(* recv moves the head no further than the tail. *)
LEMMA RecvTypeOK ==
    ASSUME TypeOK, NEW fd \in Socks, NEW want \in Int, dispatch_recv(fd, want)
    PROVE  TypeOK'
<1> DEFINE n    == LessOf(Len(live(fd)), Clamp(want))
           head == rx_head[fd] + n
           part == SubSeq(live(fd), 1, n)
<1>1. CASE Refuse("recv", recv_err(fd))
    BY <1>1, RefuseTypeOK DEF Ops, Errs, recv_err
<1>2. CASE ~ Refuse("recv", recv_err(fd)) /\ live(fd) = <<>>
    <2>1. fd \in Fds
        BY <1>2 DEF dispatch_recv, recv_err, fd_valid
    <2>2. Answer("recv", fd, <<>>) /\ UNCHANGED table
        BY <1>2 DEF dispatch_recv
    <2>3. reply' \in Replies
        BY Zenon, <2>1, <2>2, AnswerType, EmptySeq DEF Ops, Socks
    <2>4. QED
        BY <2>2, <2>3 DEF TypeOK, table
<1>3. CASE ~ Refuse("recv", recv_err(fd)) /\ live(fd) # <<>>
    <2>1. fd \in Fds
        BY <1>3 DEF dispatch_recv, recv_err, fd_valid
    <2>2. /\ rx' = [rx EXCEPT ![fd] = IF head = Len(rx[fd]) THEN <<>> ELSE @]
          /\ rx_head' = [rx_head EXCEPT ![fd] = IF head = Len(rx[fd]) THEN 0 ELSE head]
          /\ Answer("recv", fd, part)
          /\ UNCHANGED <<kind, local_port, backlog, peer_fd>>
        BY <1>3 DEF dispatch_recv
    <2>3. /\ live(fd) \in Seq(Byte)
          /\ Len(live(fd)) = Len(rx[fd]) - rx_head[fd]
          /\ rx[fd] \in Seq(Byte) /\ Len(rx[fd]) \in Nat
          /\ rx_head[fd] \in Nat /\ rx_head[fd] <= Len(rx[fd])
        BY <2>1, LiveType DEF TypeOK
    <2>4. n \in 0 .. Len(live(fd))
        BY <2>3, FdTableAssumption DEF LessOf, Clamp
    <2>5. part \in Seq(Byte)
        BY <2>3, <2>4, PrefixType
    <2>6. head \in Nat /\ head <= Len(rx[fd])
        BY <2>3, <2>4
    <2> HIDE DEF head, part
    <2>7. rx' \in [Fds -> Seq(Byte)] /\ rx_head' \in [Fds -> Nat]
        BY <2>1, <2>2, <2>3, <2>6, EmptySeq DEF TypeOK
    <2>8. \A f \in Fds : rx_head'[f] <= Len(rx'[f]) /\ Len(rx'[f]) <= RXBUF_SIZE
        BY <2>1, <2>2, <2>3, <2>6, FdTableAssumption DEF TypeOK
    <2>9. reply' \in Replies
        BY <2>1, <2>2, <2>5, AnswerType DEF Ops, Socks
    <2>10. QED
        BY <2>2, <2>7, <2>8, <2>9 DEF TypeOK
<1>4. QED
    BY <1>1, <1>2, <1>3

(* A send of any payload, or of a length that is refused. *)
LEMMA AnySendTypeOK ==
    ASSUME TypeOK, NEW fd \in Socks, dispatch_any_send(fd)
    PROVE  TypeOK'
<1>1. CASE \E data \in Payloads : dispatch_send(fd, Len(data), data)
    <2>1. PICK data \in Payloads : dispatch_send(fd, Len(data), data)
        BY <1>1
    <2>2. PICK n \in 0 .. MAX_PAYLOAD : data \in [1 .. n -> Byte]
        BY <2>1 DEF Payloads
    <2>3. data \in Seq(Byte) /\ Len(data) = n
        BY <2>2, FdTableAssumption
    <2>4. QED
        BY <2>1, <2>3, SendTypeOK, FdTableAssumption
<1>2. CASE \E len \in BadLens : dispatch_send(fd, len, <<>>)
    <2>1. PICK len \in BadLens : dispatch_send(fd, len, <<>>)
        BY <1>2
    <2>2. len \in Int /\ ~ (len \in 0 .. MAX_PAYLOAD)
        BY FdTableAssumption DEF BadLens
    <2>3. QED
        BY Zenon, <2>1, <2>2, SendTypeOK, EmptySeq
<1>3. QED
    BY <1>1, <1>2 DEF dispatch_any_send

(* Every dispatcher keeps the types. *)
LEMMA NextTypeOK ==
    ASSUME TypeOK, [Next]_vars
    PROVE  TypeOK'
<1>1. CASE dispatch_socket
    BY <1>1, SocketTypeOK
<1>2. ASSUME NEW fd \in Socks, dispatch_close(fd) PROVE TypeOK'
    BY <1>2, CloseTypeOK
<1>3. ASSUME NEW fd \in Socks, NEW port \in Ports, dispatch_bind(fd, port) PROVE TypeOK'
    BY <1>3, BindTypeOK
<1>4. ASSUME NEW fd \in Socks, NEW port \in Ports, dispatch_connect(fd, port) PROVE TypeOK'
    BY <1>4, ConnectTypeOK
<1>5. ASSUME NEW fd \in Socks, dispatch_listen(fd) PROVE TypeOK'
    BY <1>5, ListenTypeOK
<1>6. ASSUME NEW fd \in Socks, dispatch_accept(fd) PROVE TypeOK'
    BY <1>6, AcceptTypeOK
<1>7. ASSUME NEW fd \in Socks, dispatch_any_send(fd) PROVE TypeOK'
    BY <1>7, AnySendTypeOK
<1>8. ASSUME NEW fd \in Socks, NEW want \in -1 .. MAX_PAYLOAD + 1, dispatch_recv(fd, want)
      PROVE  TypeOK'
    BY <1>8, RecvTypeOK
<1>9. CASE UNCHANGED vars
    BY <1>9 DEF vars, TypeOK
<1>10. QED
    BY <1>1, <1>2, <1>3, <1>4, <1>5, <1>6, <1>7, <1>8, <1>9 DEF Next, NextButClose

(* Whatever the callers do, every field of the table keeps its type: the   *)
(* backlog and the receive buffer never outgrow the arrays of fdtable.c,   *)
(* and rx_head never passes rx_tail.                                       *)
THEOREM TypeCorrect == Spec => []TypeOK
<1>1. Init => TypeOK
    BY InitTypeOK
<1>2. TypeOK /\ [Next]_vars => TypeOK'
    BY NextTypeOK
<1>3. QED
    BY <1>1, <1>2, PTL DEF Spec

-----------------------------------------------------------------------------
(* Pairing.  PairInv reads only kind, peer_fd and backlog. *)

(* A step that leaves those three alone keeps the pairs: early returns,    *)
(* bind, send and recv.                                                    *)
LEMMA SamePairs ==
    ASSUME PairInv, UNCHANGED <<kind, peer_fd, backlog>>
    PROVE  PairInv'
BY DEF PairInv, PairedPeers, BacklogsOK

(* A backlog whose front element is taken off and put back is the same. *)
LEMMA PushBack ==
    ASSUME NEW S, NEW s \in Seq(S), s # <<>>
    PROVE  <<Head(s)>> \o Tail(s) = s
<1>1. /\ Head(s) \in S /\ Tail(s) \in Seq(S) /\ Len(Tail(s)) = Len(s) - 1
      /\ Len(s) \in Nat \ {0}
      /\ \A i \in 1 .. Len(Tail(s)) : Tail(s)[i] = s[i + 1]
    BY HeadTailProperties, LenProperties, EmptySeq
<1>2. <<Head(s)>> \o Tail(s) \in Seq(S)
    BY <1>1, ConcatProperties
<1>3. Len(<<Head(s)>> \o Tail(s)) = Len(s)
    BY <1>1, ConcatProperties
<1>4. \A i \in 1 .. Len(s) : (<<Head(s)>> \o Tail(s))[i] = s[i]
    BY <1>1
<1>5. QED
    BY <1>2, <1>3, <1>4, SeqEqual

(* socket turns a free entry, which is nobody's peer and in no backlog,    *)
(* into an unbound one.                                                    *)
LEMMA SocketPairs ==
    ASSUME TypeOK, PairInv, dispatch_socket
    PROVE  PairInv'
<1>1. CASE alloc_fd = -1
    BY <1>1, SamePairs DEF dispatch_socket, Refuse, table
<1>2. CASE alloc_fd # -1
    <2> DEFINE fd == alloc_fd
    <2>1. fd \in Fds /\ kind[fd] = "FREE"
        BY <1>2, AllocFd
    <2>2. /\ kind' = [kind EXCEPT ![fd] = "UNBOUND"]
          /\ peer_fd' = [peer_fd EXCEPT ![fd] = -1]
          /\ backlog' = [backlog EXCEPT ![fd] = <<>>]
        BY <1>2 DEF dispatch_socket, Zero
    <2> HIDE DEF fd
    <2>3. backlog[fd] = <<>>
        BY <2>1 DEF PairInv, BacklogsOK
    <2>4. backlog' = backlog
        BY <2>1, <2>2, <2>3 DEF TypeOK
    <2>5. PairedPeers'
        BY <2>1, <2>2 DEF PairInv, PairedPeers, TypeOK
    <2>6. BacklogsOK'
        BY <2>1, <2>2, <2>3, <2>4 DEF PairInv, BacklogsOK, TypeOK
    <2>7. QED
        BY <2>5, <2>6 DEF PairInv
<1>3. QED
    BY <1>1, <1>2

(* close of a socket that waits in no backlog unpairs both ends. *)
LEMMA ClosePairs ==
    ASSUME TypeOK, PairInv, NEW fd \in Socks, ~ Pending(fd), dispatch_close(fd)
    PROVE  PairInv'
<1>1. CASE Refuse("close", close_err(fd))
    BY <1>1, SamePairs DEF Refuse, table
<1>2. CASE ~ Refuse("close", close_err(fd))
    <2>1. fd \in Fds /\ kind[fd] # "FREE"
        BY <1>2 DEF dispatch_close, close_err, fd_valid
    <2>2. /\ kind' = [kind EXCEPT ![fd] = "FREE"]
          /\ peer_fd' = DropPeer(fd)
          /\ backlog' = [backlog EXCEPT ![fd] = <<>>]
        BY <1>2 DEF dispatch_close, Zero
    <2>3. \A f \in Fds : peer_fd'[f] =
             IF f = fd \/ (kind[fd] = "CONNECTED" /\ peer_fd[fd] = f /\ kind[f] # "FREE")
             THEN -1 ELSE peer_fd[f]
        BY <2>1, <2>2 DEF DropPeer, fd_valid, TypeOK
    <2>4. \A f \in Fds : kind'[f] = IF f = fd THEN "FREE" ELSE kind[f]
        BY <2>1, <2>2 DEF TypeOK
    <2>5. \A f \in Fds : backlog'[f] = IF f = fd THEN <<>> ELSE backlog[f]
        BY <2>1, <2>2 DEF TypeOK
    <2>6. PairedPeers'
        BY <2>1, <2>3, <2>4 DEF PairInv, PairedPeers, TypeOK
    <2>7. ASSUME NEW l \in Fds, NEW i \in DOMAIN backlog[l]
          PROVE  backlog[l][i] \in Fds /\ backlog[l][i] # fd
        BY <2>7 DEF Pending, TypeOK
    <2>8. BacklogsOK'
        <3>1. \A f \in Fds : kind'[f] \in {"UNBOUND", "LISTEN"} => peer_fd'[f] = -1
            BY <2>3, <2>4 DEF PairInv, BacklogsOK
        <3>2. \A l \in Fds : backlog'[l] # <<>> => kind'[l] = "LISTEN"
            BY <2>4, <2>5 DEF PairInv, BacklogsOK
        <3>3. \A l \in Fds : \A i \in DOMAIN backlog'[l] :
                 i \in DOMAIN backlog[l] /\ backlog'[l][i] = backlog[l][i]
            BY <2>5
        <3>4. \A l \in Fds : \A i \in DOMAIN backlog'[l] :
                 kind'[backlog'[l][i]] = "CONNECTED" /\ peer_fd'[backlog'[l][i]] = -1
            BY <2>3, <2>4, <2>7, <3>3 DEF PairInv, BacklogsOK
        <3>5. \A l, m \in Fds : \A i \in DOMAIN backlog'[l], j \in DOMAIN backlog'[m] :
                 backlog'[l][i] = backlog'[m][j] => l = m /\ i = j
            BY <3>3 DEF PairInv, BacklogsOK
        <3>6. QED
            BY <3>1, <3>2, <3>4, <3>5 DEF BacklogsOK
    <2>9. QED
        BY <2>6, <2>8 DEF PairInv
<1>3. QED
    BY <1>1, <1>2

(* listen starts an empty backlog on an unbound socket, which had none. *)
LEMMA ListenPairs ==
    ASSUME TypeOK, PairInv, NEW fd \in Socks, dispatch_listen(fd)
    PROVE  PairInv'
<1>1. CASE Refuse("listen", listen_err(fd))
    BY <1>1, SamePairs DEF Refuse, table
<1>2. CASE ~ Refuse("listen", listen_err(fd))
    <2>1. fd \in Fds /\ kind[fd] = "UNBOUND"
        BY <1>2 DEF dispatch_listen, listen_err, fd_valid
    <2>2. /\ kind' = [kind EXCEPT ![fd] = "LISTEN"]
          /\ backlog' = [backlog EXCEPT ![fd] = <<>>]
          /\ peer_fd' = peer_fd
        BY <1>2 DEF dispatch_listen
    <2>3. backlog[fd] = <<>>
        BY <2>1 DEF PairInv, BacklogsOK
    <2>4. backlog' = backlog
        BY <2>1, <2>2, <2>3 DEF TypeOK
    <2>5. PairedPeers'
        BY <2>1, <2>2 DEF PairInv, PairedPeers, TypeOK
    <2>6. BacklogsOK'
        BY <2>1, <2>2, <2>4 DEF PairInv, BacklogsOK, TypeOK
    <2>7. QED
        BY <2>5, <2>6 DEF PairInv
<1>3. QED
    BY <1>1, <1>2

(* connect queues an unbound socket, which is in no backlog yet. *)
LEMMA ConnectPairs ==
    ASSUME TypeOK, PairInv, NEW fd \in Socks, NEW port \in Ports, dispatch_connect(fd, port)
    PROVE  PairInv'
<1>1. CASE Refuse("connect", connect_err(fd, port))
    BY <1>1, SamePairs DEF Refuse, table
<1>2. CASE ~ Refuse("connect", connect_err(fd, port))
    <2> DEFINE lst == find_listener(port)
    <2>1. fd \in Fds /\ kind[fd] = "UNBOUND" /\ lst # -1
        BY <1>2 DEF dispatch_connect, connect_err, fd_valid
    <2>2. lst \in Fds /\ kind[lst] = "LISTEN"
        BY <2>1, FindListener
    <2>3. /\ kind' = [kind EXCEPT ![fd] = "CONNECTED"]
          /\ peer_fd' = [peer_fd EXCEPT ![fd] = -1]
          /\ backlog' = [backlog EXCEPT ![lst] = Append(@, fd)]
        BY <1>2 DEF dispatch_connect
    <2> HIDE DEF lst
    <2>4. PairedPeers'
        BY <2>1, <2>3 DEF PairInv, PairedPeers, TypeOK
    <2> DEFINE n == Len(backlog[lst])
    <2>5. /\ backlog[lst] \in Seq(Fds) /\ n \in Nat
          /\ DOMAIN backlog[lst] = 1 .. n
          /\ DOMAIN Append(backlog[lst], fd) = 1 .. n + 1
          /\ Append(backlog[lst], fd)[n + 1] = fd
          /\ \A i \in 1 .. n : Append(backlog[lst], fd)[i] = backlog[lst][i]
        BY <2>1, <2>2, AppendProperties, LenProperties DEF TypeOK
    <2>6. \A l \in Fds : backlog'[l] = IF l = lst THEN Append(backlog[lst], fd) ELSE backlog[l]
        BY <2>2, <2>3 DEF TypeOK
    <2>7. \A l \in Fds : \A i \in DOMAIN backlog[l] :
             backlog[l][i] \in Fds /\ backlog[l][i] # fd
        BY <2>1 DEF PairInv, BacklogsOK, TypeOK
    <2> HIDE DEF n
    <2>8. \A l \in Fds : \A i \in DOMAIN backlog'[l] :
             \/ i \in DOMAIN backlog[l] /\ backlog'[l][i] = backlog[l][i]
             \/ l = lst /\ i = n + 1 /\ backlog'[l][i] = fd
        <3> SUFFICES ASSUME NEW l \in Fds, NEW i \in DOMAIN backlog'[l]
                     PROVE  \/ i \in DOMAIN backlog[l] /\ backlog'[l][i] = backlog[l][i]
                            \/ l = lst /\ i = n + 1 /\ backlog'[l][i] = fd
            OBVIOUS
        <3>1. CASE l = lst
            <4>1. backlog'[l] = Append(backlog[lst], fd)
                BY Zenon, <2>6, <3>1
            <4>2. i \in 1 .. n + 1
                BY <2>5, <4>1
            <4>3. i \in 1 .. n \/ i = n + 1
                BY <2>5, <4>2
            <4>4. QED
                BY <2>5, <3>1, <4>1, <4>3
        <3>2. CASE l # lst
            BY <2>6, <3>2
        <3>3. QED
            BY <3>1, <3>2
    <2>9. BacklogsOK'
        <3>1. \A f \in Fds : kind'[f] \in {"UNBOUND", "LISTEN"} => peer_fd'[f] = -1
            BY <2>1, <2>3 DEF PairInv, BacklogsOK, TypeOK
        <3>2. \A l \in Fds : backlog'[l] # <<>> => kind'[l] = "LISTEN"
            BY <2>1, <2>2, <2>3, <2>6 DEF PairInv, BacklogsOK, TypeOK
        <3>3. \A l \in Fds : \A i \in DOMAIN backlog'[l] :
                 kind'[backlog'[l][i]] = "CONNECTED" /\ peer_fd'[backlog'[l][i]] = -1
            <4>1. \A f \in Fds : /\ kind'[f] = IF f = fd THEN "CONNECTED" ELSE kind[f]
                                 /\ peer_fd'[f] = IF f = fd THEN -1 ELSE peer_fd[f]
                BY <2>1, <2>3 DEF TypeOK
            <4>2. \A l \in Fds : \A i \in DOMAIN backlog'[l] :
                     \/ backlog'[l][i] = fd
                     \/ /\ backlog'[l][i] \in Fds /\ kind[backlog'[l][i]] = "CONNECTED"
                        /\ peer_fd[backlog'[l][i]] = -1
                BY <2>7, <2>8 DEF PairInv, BacklogsOK
            <4>3. QED
                BY <2>1, <4>1, <4>2
        <3>4. \A l, m \in Fds : \A i \in DOMAIN backlog'[l], j \in DOMAIN backlog'[m] :
                 backlog'[l][i] = backlog'[m][j] => l = m /\ i = j
            BY <2>7, <2>8 DEF PairInv, BacklogsOK
        <3>5. QED
            BY <3>1, <3>2, <3>3, <3>4 DEF BacklogsOK
    <2>10. QED
        BY <2>4, <2>9 DEF PairInv
<1>3. QED
    BY <1>1, <1>2

(* accept takes the oldest client, connected and unpaired, out of the      *)
(* backlog and pairs it with a free entry.                                 *)
LEMMA AcceptPairs ==
    ASSUME TypeOK, PairInv, NEW fd \in Socks, dispatch_accept(fd)
    PROVE  PairInv'
<1>1. CASE Refuse("accept", accept_err(fd))
    BY <1>1, SamePairs DEF Refuse, table
<1>2. CASE ~ Refuse("accept", accept_err(fd))
    <2>1. fd \in Fds /\ kind[fd] = "LISTEN" /\ backlog[fd] # <<>>
        BY <1>2 DEF dispatch_accept, accept_err, fd_valid
    <2>2. /\ backlog[fd] \in Seq(Fds) /\ Len(backlog[fd]) \in Nat \ {0}
          /\ DOMAIN backlog[fd] = 1 .. Len(backlog[fd])
          /\ Head(backlog[fd]) = backlog[fd][1]
          /\ DOMAIN Tail(backlog[fd]) = 1 .. Len(backlog[fd]) - 1
          /\ \A i \in 1 .. Len(backlog[fd]) - 1 : Tail(backlog[fd])[i] = backlog[fd][i + 1]
        BY <2>1, HeadTailProperties, LenProperties, EmptySeq DEF TypeOK
    <2>3. CASE alloc_fd = -1
        <3>1. /\ backlog' = [backlog EXCEPT ![fd] = <<Head(@)>> \o Tail(@)]
              /\ UNCHANGED <<kind, peer_fd>>
            BY <1>2, <2>3 DEF dispatch_accept
        <3>2. backlog' = backlog
            BY <2>1, <2>2, <3>1, PushBack DEF TypeOK
        <3>3. QED
            BY <3>1, <3>2, SamePairs
    <2>4. CASE alloc_fd # -1
        <3> DEFINE new    == alloc_fd
                   client == Head(backlog[fd])
        <3>1. new \in Fds /\ kind[new] = "FREE"
            BY <2>4, AllocFd
        <3>2. /\ kind' = [kind EXCEPT ![new] = "CONNECTED"]
              /\ peer_fd' = [peer_fd EXCEPT ![new] = client, ![client] = new]
              /\ backlog' = [backlog EXCEPT ![fd] = Tail(@), ![new] = <<>>]
            BY <1>2, <2>4 DEF dispatch_accept, Zero
        <3>3. client = backlog[fd][1] /\ 1 \in DOMAIN backlog[fd]
            BY <2>2
        <3> HIDE DEF new, client
        <3>4. client \in Fds /\ kind[client] = "CONNECTED" /\ peer_fd[client] = -1
            BY <2>1, <3>3 DEF PairInv, BacklogsOK, TypeOK
        <3>5. client # new /\ fd # new /\ client # fd
            BY <2>1, <3>1, <3>4
        <3>6. \A f \in Fds : /\ kind'[f] = IF f = new THEN "CONNECTED" ELSE kind[f]
                             /\ peer_fd'[f] = IF f = new THEN client
                                              ELSE IF f = client THEN new ELSE peer_fd[f]
            BY <3>1, <3>2, <3>4, <3>5 DEF TypeOK
        <3>7. \A l \in Fds : backlog'[l] = IF l = fd THEN Tail(backlog[fd])
                                           ELSE IF l = new THEN <<>> ELSE backlog[l]
            BY Zenon, <2>1, <3>1, <3>2, <3>5 DEF TypeOK
        <3>8. PairedPeers'
            <4> SUFFICES ASSUME NEW f \in Fds, kind'[f] = "CONNECTED", peer_fd'[f] # -1
                         PROVE  /\ peer_fd'[f] \in Fds \ {f}
                                /\ kind'[peer_fd'[f]] = "CONNECTED"
                                /\ peer_fd'[peer_fd'[f]] = f
                BY DEF PairedPeers
            <4>1. CASE f \in {new, client}
                BY <3>1, <3>4, <3>5, <3>6, <4>1
            <4>2. CASE f \notin {new, client}
                <5>1. /\ peer_fd[f] \in Fds \ {f} /\ kind[peer_fd[f]] = "CONNECTED"
                      /\ peer_fd[peer_fd[f]] = f /\ peer_fd'[f] = peer_fd[f]
                    BY <3>6, <4>2 DEF PairInv, PairedPeers
                <5>2. f # -1
                    BY FdTableAssumption DEF Fds, FD_FIRST
                <5>3. peer_fd[f] # new /\ peer_fd[f] # client
                    BY <3>1, <3>4, <5>1, <5>2
                <5>4. QED
                    BY <3>6, <5>1, <5>3
            <4>3. QED
                BY <4>1, <4>2
        <3>9. \A l \in Fds : \A i \in DOMAIN backlog'[l] :
                 \/ l = fd /\ i \in Int /\ i + 1 \in DOMAIN backlog[fd] /\ i + 1 # 1
                           /\ backlog'[l][i] = backlog[fd][i + 1]
                 \/ l # fd /\ i \in DOMAIN backlog[l] /\ backlog'[l][i] = backlog[l][i]
            <4> SUFFICES ASSUME NEW l \in Fds, NEW i \in DOMAIN backlog'[l]
                         PROVE  \/ l = fd /\ i \in Int /\ i + 1 \in DOMAIN backlog[fd] /\ i + 1 # 1
                                          /\ backlog'[l][i] = backlog[fd][i + 1]
                                \/ l # fd /\ i \in DOMAIN backlog[l] /\ backlog'[l][i] = backlog[l][i]
                OBVIOUS
            <4>1. CASE l = fd
                <5>1. backlog'[l] = Tail(backlog[fd])
                    BY <3>7, <4>1
                <5>2. i \in 1 .. Len(backlog[fd]) - 1
                    BY <2>2, <5>1
                <5>3. i \in Int /\ i + 1 \in 1 .. Len(backlog[fd]) /\ i + 1 # 1
                    BY <2>2, <5>2
                <5>4. QED
                    BY <2>2, <4>1, <5>1, <5>2, <5>3
            <4>2. CASE l # fd
                BY <3>7, <4>2
            <4>3. QED
                BY <4>1, <4>2
        <3>10. \A l \in Fds : \A i \in DOMAIN backlog[l] :
                 /\ backlog[l][i] \in Fds /\ backlog[l][i] # new
                 /\ backlog[l][i] = client => l = fd /\ i = 1
            <4>1. \A l \in Fds : \A i \in DOMAIN backlog[l] : backlog[l][i] \in Fds
                BY DEF TypeOK
            <4>2. \A l \in Fds : \A i \in DOMAIN backlog[l] : kind[backlog[l][i]] = "CONNECTED"
                BY DEF PairInv, BacklogsOK
            <4>3. \A l \in Fds : \A i \in DOMAIN backlog[l] :
                     backlog[l][i] = client => l = fd /\ i = 1
                BY <2>1, <3>3 DEF PairInv, BacklogsOK
            <4>4. QED
                BY <3>1, <4>1, <4>2, <4>3
        <3>11. \A f \in Fds : kind'[f] \in {"UNBOUND", "LISTEN"} => peer_fd'[f] = -1
            BY <3>4, <3>6 DEF PairInv, BacklogsOK
        <3>12. \A l \in Fds : backlog'[l] # <<>> => kind'[l] = "LISTEN"
            BY <2>1, <3>5, <3>6, <3>7 DEF PairInv, BacklogsOK
        <3>13. \A l \in Fds : \A i \in DOMAIN backlog'[l] :
                 kind'[backlog'[l][i]] = "CONNECTED" /\ peer_fd'[backlog'[l][i]] = -1
            BY <2>1, <3>6, <3>9, <3>10 DEF PairInv, BacklogsOK
        <3>14. \A l, m \in Fds : \A i \in DOMAIN backlog'[l], j \in DOMAIN backlog'[m] :
                 backlog'[l][i] = backlog'[m][j] => l = m /\ i = j
            BY <2>1, <3>9 DEF PairInv, BacklogsOK
        <3>15. QED
            BY <3>8, <3>11, <3>12, <3>13, <3>14 DEF PairInv, BacklogsOK
    <2>5. QED
        BY <2>3, <2>4
<1>3. QED
    BY <1>1, <1>2

(* Every dispatcher keeps the pairs, close only when the socket it closes  *)
(* is not pending.                                                         *)
LEMMA NextPairs ==
    ASSUME TypeOK, PairInv, [OrderlyNext]_vars
    PROVE  PairInv'
<1>1. CASE dispatch_socket
    BY <1>1, SocketPairs
<1>2. ASSUME NEW fd \in Socks, ~ Pending(fd), dispatch_close(fd) PROVE PairInv'
    BY <1>2, ClosePairs
<1>3. ASSUME NEW fd \in Socks, NEW port \in Ports, dispatch_bind(fd, port) PROVE PairInv'
    BY <1>3, SamePairs DEF dispatch_bind, Refuse, table
<1>4. ASSUME NEW fd \in Socks, NEW port \in Ports, dispatch_connect(fd, port) PROVE PairInv'
    BY <1>4, ConnectPairs
<1>5. ASSUME NEW fd \in Socks, dispatch_listen(fd) PROVE PairInv'
    BY <1>5, ListenPairs
<1>6. ASSUME NEW fd \in Socks, dispatch_accept(fd) PROVE PairInv'
    BY <1>6, AcceptPairs
<1>7. ASSUME NEW fd \in Socks, dispatch_any_send(fd) PROVE PairInv'
    BY <1>7, SamePairs DEF dispatch_any_send, dispatch_send, Refuse, table
<1>8. ASSUME NEW fd \in Socks, NEW want \in -1 .. MAX_PAYLOAD + 1, dispatch_recv(fd, want)
      PROVE  PairInv'
    BY <1>8, SamePairs DEF dispatch_recv, Refuse, table
<1>9. CASE UNCHANGED vars
    BY <1>9, SamePairs DEF vars
<1>10. QED
    BY <1>1, <1>2, <1>3, <1>4, <1>5, <1>6, <1>7, <1>8, <1>9 DEF OrderlyNext, NextButClose

(* When no caller closes a socket that still waits in a backlog, connected *)
(* sockets are always paired one to one, and a backlog holds only          *)
(* connected, unpaired clients, each once.                                 *)
THEOREM PairsCorrect == OrderlySpec => []PairInv
<1>1. Init => TypeOK /\ PairInv
    <2>1. Init => PairInv
        BY DEF Init, PairInv, PairedPeers, BacklogsOK
    <2>2. QED
        BY <2>1, InitTypeOK
<1>2. TypeOK /\ PairInv /\ [OrderlyNext]_vars => (TypeOK /\ PairInv)'
    <2>1. [OrderlyNext]_vars => [Next]_vars
        BY DEF OrderlyNext, Next
    <2>2. QED
        BY <2>1, NextTypeOK, NextPairs
<1>3. QED
    BY <1>1, <1>2, PTL DEF OrderlySpec

-----------------------------------------------------------------------------
(* The unread bytes. *)

(* An entry whose buffer and head are as before keeps its bytes. *)
LEMMA SameBytes ==
    ASSUME NEW f \in Fds, rx'[f] = rx[f], rx_head'[f] = rx_head[f]
    PROVE  KeepsBytes(f)
BY DEF live, KeepsBytes

(* So does every entry when a dispatcher returns early. *)
LEMMA RefuseBytes ==
    ASSUME NEW op, NEW err, Refuse(op, err), NEW f \in Fds
    PROVE  KeepsBytes(f)
BY SameBytes DEF Refuse, table

(* Zeroing an entry empties it and touches no other. *)
LEMMA ZeroBytes ==
    ASSUME TypeOK, NEW g \in Fds, NEW k, NEW port, Zero(g, k, port),
           NEW op \in {"close", "socket", "accept"}, Answer(op, g, <<>>),
           NEW f \in Fds
    PROVE  KeepsBytes(f)
<1>1. CASE f = g
    <2>1. rx'[f] = <<>> /\ rx_head'[f] = 0
        BY <1>1 DEF Zero, TypeOK
    <2>2. live(f)' = <<>>
        BY <2>1 DEF live
    <2>3. QED
        BY <1>1, <2>2 DEF Answer, KeepsBytes
<1>2. CASE f # g
    BY <1>2, SameBytes DEF Zero, TypeOK
<1>3. QED
    BY <1>1, <1>2

(* Compaction moves the unread bytes and no others. *)
LEMMA CompactIsLive ==
    ASSUME TypeOK, NEW f \in Fds
    PROVE  rx_compact(f) = live(f)
<1>1. rx[f] \in Seq(Byte)
    BY DEF TypeOK
<1>2. SubSeq(rx[f], 1, Len(rx[f])) = rx[f]
    BY <1>1, SubSeqFull
<1>3. CASE rx_head[f] = 0
    <2>1. rx_head[f] + 1 = 1
        BY <1>3
    <2>2. QED
        BY <1>2, <1>3, <2>1 DEF rx_compact, live
<1>4. QED
    BY <1>3 DEF rx_compact

(* What a read leaves and what it returns make up what was there. *)
LEMMA SplitLive ==
    ASSUME TypeOK, NEW f \in Fds, NEW n \in 0 .. Len(live(f))
    PROVE  live(f) = SubSeq(live(f), 1, n) \o SubSeq(rx[f], rx_head[f] + n + 1, Len(rx[f]))
<1> DEFINE b == rx[f]
           h == rx_head[f]
<1>1. /\ b \in Seq(Byte) /\ Len(b) \in Nat
      /\ h \in Nat /\ h <= Len(b)
      /\ Len(live(f)) = Len(b) - h
    BY LiveType DEF TypeOK
<1>2. live(f) = SubSeq(b, h + 1, Len(b))
    BY DEF live
<1>3. h + 1 \in 1 .. Len(b) + 1 /\ h + n \in (h + 1) - 1 .. Len(b) /\ Len(b) \in h + n .. Len(b)
    BY <1>1
<1>4. SubSeq(b, h + 1, h + n) \o SubSeq(b, h + n + 1, Len(b)) = SubSeq(b, h + 1, Len(b))
    BY Zenon, <1>1, <1>3, ConcatAdjacentSubSeq
<1>5. SubSeq(live(f), 1, n) = SubSeq(b, h + 1, h + n)
    <2>1. CASE n = 0
        <3>1. SubSeq(live(f), 1, 0) = <<>>
            BY SubSeqEmpty
        <3>2. SubSeq(b, h + 1, h + n) = <<>>
            BY <1>1, <2>1, SubSeqEmpty
        <3>3. QED
            BY Zenon, <2>1, <3>1, <3>2
    <2>2. CASE n # 0
        <3>1. /\ h + 1 \in 1 .. Len(b) /\ Len(b) \in 1 .. Len(b)
              /\ 1 \in 1 .. Len(b) - (h + 1) + 1 /\ n \in 1 .. Len(b) - (h + 1) + 1
              /\ (h + 1) + 1 - 1 = h + 1 /\ (h + 1) + n - 1 = h + n
            BY SMTT(30), <1>1, <2>2
        <3>2. SubSeq(SubSeq(b, h + 1, Len(b)), 1, n)
                = SubSeq(b, (h + 1) + 1 - 1, (h + 1) + n - 1)
            <4> HIDE DEF b, h
            <4>1. QED
                BY <1>1, <3>1, SubSeqOfSubSeq
        <3>3. QED
            BY Zenon, <1>2, <3>1, <3>2
    <2>3. QED
        BY Zenon, <2>1, <2>2
<1>6. QED
    BY Zenon, <1>2, <1>4, <1>5

(* A send that is not refused appends to the bytes of the peer what it     *)
(* reports; with no room it only compacts them and answers EAGAIN.         *)
LEMMA SendLive ==
    ASSUME TypeOK, NEW fd \in Socks, NEW data \in Seq(Byte), NEW len \in Int,
           len \in 0 .. MAX_PAYLOAD => len = Len(data),
           dispatch_send(fd, len, data), ~ Refuse("send", send_err(fd, len))
    PROVE  /\ fd \in Fds /\ kind[fd] = "CONNECTED" /\ peer_fd[fd] \in Fds
           /\ UNCHANGED <<kind, peer_fd>>
           /\ \/ /\ AnswerErr("send", "EAGAIN")
                 /\ \A f \in Fds : live(f)' = live(f)
              \/ \E part \in Seq(Byte) :
                    /\ Answer("send", fd, part)
                    /\ \A f \in Fds : live(f)' = IF f = peer_fd[fd] THEN live(f) \o part
                                                                   ELSE live(f)
<1> DEFINE peer == peer_fd[fd]
           buf  == rx_compact(peer)
           room == RXBUF_SIZE - Len(buf)
           part == SubSeq(data, 1, LessOf(len, room))
<1>1. /\ fd \in Fds /\ kind[fd] = "CONNECTED" /\ peer \in Fds
      /\ ~ (len < 0 \/ len > MAX_PAYLOAD)
    BY DEF dispatch_send, send_err, fd_valid
<1>2. len = Len(data) /\ len \in Nat
    BY <1>1, FdTableAssumption
<1>3. /\ rx_head' = [rx_head EXCEPT ![peer] = 0]
      /\ UNCHANGED <<kind, peer_fd>>
      /\ \/ rx' = [rx EXCEPT ![peer] = buf] /\ AnswerErr("send", "EAGAIN")
         \/ /\ room > 0
            /\ rx' = [rx EXCEPT ![peer] = buf \o part]
            /\ Answer("send", fd, part)
    BY Zenon DEF dispatch_send
<1>4. buf = live(peer) /\ buf \in Seq(Byte) /\ Len(buf) \in Nat
    BY <1>1, CompactIsLive, LiveType
<1>5. ASSUME NEW f \in Fds, f # peer
      PROVE  live(f)' = live(f)
    BY Zenon, <1>1, <1>3, <1>5 DEF TypeOK, live
<1>6. ASSUME NEW b \in Seq(Byte), rx' = [rx EXCEPT ![peer] = b]
      PROVE  live(peer)' = b
    <2>1. rx'[peer] = b /\ rx_head'[peer] = 0 /\ peer_fd' = peer_fd
        BY <1>1, <1>3, <1>6 DEF TypeOK
    <2>2. live(peer)' = SubSeq(b, 1, Len(b))
        BY SMTT(30), <2>1 DEF live
    <2>3. QED
        BY <2>2, SubSeqFull
<1>7. CASE rx' = [rx EXCEPT ![peer] = buf] /\ AnswerErr("send", "EAGAIN")
    <2> HIDE DEF buf
    <2>1. live(peer)' = live(peer)
        BY Zenon, <1>4, <1>6, <1>7
    <2>2. \A f \in Fds : live(f)' = live(f)
        BY <1>3, <1>5, <2>1
    <2>3. QED
        BY <1>1, <1>3, <1>7, <2>2
<1>8. CASE room > 0 /\ rx' = [rx EXCEPT ![peer] = buf \o part] /\ Answer("send", fd, part)
    <2>1. LessOf(len, room) \in 0 .. Len(data)
        BY <1>2, <1>4, <1>8, FdTableAssumption DEF LessOf
    <2>2. part \in Seq(Byte)
        BY <2>1, PrefixType
    <2> HIDE DEF part, buf
    <2>3. buf \o part \in Seq(Byte)
        BY <1>4, <2>2, ConcatProperties
    <2>4. live(peer)' = live(peer) \o part
        BY Zenon, <1>4, <1>6, <1>8, <2>3
    <2>5. \A f \in Fds : live(f)' = IF f = peer_fd[fd] THEN live(f) \o part ELSE live(f)
        BY Zenon, <1>3, <1>5, <2>4
    <2>6. QED
        BY <1>1, <1>3, <1>8, <2>2, <2>5
<1>9. QED
    BY Zenon, <1>3, <1>7, <1>8

(* So a send keeps the bytes of every entry. *)
LEMMA SendBytes ==
    ASSUME TypeOK, NEW fd \in Socks, NEW data \in Seq(Byte), NEW len \in Int,
           len \in 0 .. MAX_PAYLOAD => len = Len(data),
           dispatch_send(fd, len, data), NEW f \in Fds
    PROVE  KeepsBytes(f)
<1>1. CASE Refuse("send", send_err(fd, len))
    BY <1>1, RefuseBytes
<1>2. CASE ~ Refuse("send", send_err(fd, len))
    BY <1>2, SendLive DEF KeepsBytes, Answer
<1>3. QED
    BY <1>1, <1>2

(* A recv that is not refused takes off the front of the bytes what it     *)
(* reports, also when it drains the buffer and resets it.                  *)
LEMMA RecvLive ==
    ASSUME TypeOK, NEW fd \in Socks, NEW want \in Int, dispatch_recv(fd, want),
           ~ Refuse("recv", recv_err(fd))
    PROVE  /\ fd \in Fds /\ kind[fd] = "CONNECTED"
           /\ UNCHANGED <<kind, peer_fd>>
           /\ \A f \in Fds \ {fd} : live(f)' = live(f)
           /\ \E part : Answer("recv", fd, part) /\ live(fd) = part \o live(fd)'
<1> DEFINE n    == LessOf(Len(live(fd)), Clamp(want))
           head == rx_head[fd] + n
           part == SubSeq(live(fd), 1, n)
<1>1. /\ fd \in Fds /\ kind[fd] = "CONNECTED"
      /\ UNCHANGED <<kind, peer_fd>>
    BY DEF dispatch_recv, recv_err, fd_valid, table
<1>2. CASE live(fd) = <<>>
    <2>1. \A f \in Fds : live(f)' = live(f)
        BY Zenon, <1>2 DEF dispatch_recv, table, live
    <2>2. Answer("recv", fd, <<>>)
        BY <1>2 DEF dispatch_recv
    <2>3. live(fd) = <<>> \o live(fd)'
        BY <1>1, <1>2, <2>1
    <2>4. QED
        BY Zenon, <1>1, <2>1, <2>2, <2>3
<1>3. CASE live(fd) # <<>>
    <2>2. /\ rx' = [rx EXCEPT ![fd] = IF head = Len(rx[fd]) THEN <<>> ELSE @]
          /\ rx_head' = [rx_head EXCEPT ![fd] = IF head = Len(rx[fd]) THEN 0 ELSE head]
          /\ Answer("recv", fd, part)
        BY <1>3 DEF dispatch_recv
    <2>3. \A f \in Fds \ {fd} : live(f)' = live(f)
        BY Zenon, <1>1, <2>2 DEF TypeOK, live
    <2>4. /\ Len(live(fd)) = Len(rx[fd]) - rx_head[fd]
          /\ Len(rx[fd]) \in Nat /\ rx_head[fd] \in Nat
          /\ rx_head[fd] <= Len(rx[fd])
        BY <1>1, LiveType DEF TypeOK
    <2>5. n \in 0 .. Len(live(fd)) /\ head \in Nat
        BY <2>4, FdTableAssumption DEF LessOf, Clamp
    <2>6. live(fd) = part \o SubSeq(rx[fd], head + 1, Len(rx[fd]))
        BY Zenon, <1>1, <2>5, SplitLive
    <2> HIDE DEF part, head, n
    <2>7. live(fd)' = SubSeq(rx[fd], head + 1, Len(rx[fd]))
        <3>1. CASE head = Len(rx[fd])
            <4>1. rx'[fd] = <<>> /\ rx_head'[fd] = 0
                BY <1>1, <2>2, <3>1 DEF TypeOK
            <4>2. live(fd)' = <<>>
                BY <4>1 DEF live
            <4>3. SubSeq(rx[fd], head + 1, Len(rx[fd])) = <<>>
                BY <2>4, <2>5, <3>1, SubSeqEmpty
            <4>4. QED
                BY Zenon, <4>2, <4>3
        <3>2. CASE head # Len(rx[fd])
            <4>1. rx'[fd] = rx[fd] /\ rx_head'[fd] = head
                BY <1>1, <2>2, <3>2 DEF TypeOK
            <4>2. QED
                BY <4>1 DEF live
        <3>3. QED
            BY <3>1, <3>2
    <2>8. QED
        BY Zenon, <1>1, <2>2, <2>3, <2>6, <2>7
<1>4. QED
    BY <1>2, <1>3

(* So a recv keeps the bytes of every entry. *)
LEMMA RecvBytes ==
    ASSUME TypeOK, NEW fd \in Socks, NEW want \in Int, dispatch_recv(fd, want),
           NEW f \in Fds
    PROVE  KeepsBytes(f)
<1>1. CASE Refuse("recv", recv_err(fd))
    BY <1>1, RefuseBytes
<1>2. CASE ~ Refuse("recv", recv_err(fd))
    BY <1>2, RecvLive DEF KeepsBytes, Answer
<1>3. QED
    BY <1>1, <1>2

(* A send of any payload, or of a length that is refused. *)
LEMMA AnySendBytes ==
    ASSUME TypeOK, NEW fd \in Socks, dispatch_any_send(fd), NEW f \in Fds
    PROVE  KeepsBytes(f)
<1>1. CASE \E data \in Payloads : dispatch_send(fd, Len(data), data)
    <2>1. PICK data \in Payloads : dispatch_send(fd, Len(data), data)
        BY <1>1
    <2>2. PICK n \in 0 .. MAX_PAYLOAD : data \in [1 .. n -> Byte]
        BY <2>1 DEF Payloads
    <2>3. data \in Seq(Byte) /\ Len(data) = n
        BY <2>2, FdTableAssumption
    <2>4. QED
        BY <2>1, <2>3, SendBytes, FdTableAssumption
<1>2. CASE \E len \in BadLens : dispatch_send(fd, len, <<>>)
    <2>1. PICK len \in BadLens : dispatch_send(fd, len, <<>>)
        BY <1>2
    <2>2. len \in Int /\ ~ (len \in 0 .. MAX_PAYLOAD)
        BY FdTableAssumption DEF BadLens
    <2>3. QED
        BY Zenon, <2>1, <2>2, SendBytes, EmptySeq
<1>3. QED
    BY <1>1, <1>2 DEF dispatch_any_send

(* Every dispatcher keeps the bytes of every entry. *)
LEMMA NextBytes ==
    ASSUME TypeOK, [Next]_vars, NEW f \in Fds
    PROVE  KeepsBytes(f)
<1>1. CASE dispatch_socket
    BY <1>1, AllocFd, RefuseBytes, ZeroBytes DEF dispatch_socket
<1>2. ASSUME NEW fd \in Socks, dispatch_close(fd) PROVE KeepsBytes(f)
    BY <1>2, RefuseBytes, ZeroBytes DEF dispatch_close, close_err, fd_valid
<1>3. ASSUME NEW fd \in Socks, NEW port \in Ports, dispatch_bind(fd, port)
      PROVE  KeepsBytes(f)
    BY <1>3, RefuseBytes, SameBytes DEF dispatch_bind
<1>4. ASSUME NEW fd \in Socks, NEW port \in Ports, dispatch_connect(fd, port)
      PROVE  KeepsBytes(f)
    BY <1>4, RefuseBytes, SameBytes DEF dispatch_connect
<1>5. ASSUME NEW fd \in Socks, dispatch_listen(fd) PROVE KeepsBytes(f)
    BY <1>5, RefuseBytes, SameBytes DEF dispatch_listen
<1>6. ASSUME NEW fd \in Socks, dispatch_accept(fd) PROVE KeepsBytes(f)
    BY <1>6, AllocFd, RefuseBytes, SameBytes, ZeroBytes DEF dispatch_accept
<1>7. ASSUME NEW fd \in Socks, dispatch_any_send(fd) PROVE KeepsBytes(f)
    BY <1>7, AnySendBytes
<1>8. ASSUME NEW fd \in Socks, NEW want \in -1 .. MAX_PAYLOAD + 1, dispatch_recv(fd, want)
      PROVE  KeepsBytes(f)
    BY <1>8, RecvBytes, FdTableAssumption
<1>9. CASE UNCHANGED vars
    BY <1>9, SameBytes DEF vars
<1>10. QED
    BY <1>1, <1>2, <1>3, <1>4, <1>5, <1>6, <1>7, <1>8, <1>9 DEF Next, NextButClose

(* Whatever the callers do, pending clients closed included, no unread     *)
(* byte of a socket is lost, repeated or reordered by the compaction of    *)
(* rx_compact, a partial send, a short recv or the work on other entries.  *)
THEOREM BytesCorrect == Spec => BytesKept
<1>1. TypeOK /\ [Next]_vars => [\A f \in Fds : KeepsBytes(f)]_vars
    BY NextBytes
<1>2. QED
    BY <1>1, TypeCorrect, PTL DEF Spec, BytesKept

-----------------------------------------------------------------------------
(* The table implements Connections. *)

(* A free entry holds no bytes, so the stream of a descriptor that socket  *)
(* or accept is about to hand out is already empty.                        *)
FreeEmpty == \A f \in Fds : kind[f] = "FREE" => live(f) = <<>>

(* A step that leaves every stream but one. *)
LEMMA StreamsOne ==
    ASSUME NEW g \in Fds, NEW b,
           \A f \in Fds : live(f)' = IF f = g THEN b ELSE live(f)
    PROVE  Streams' = [Streams EXCEPT ![g] = b]
<1>1. Streams' = [f \in Fds |-> IF f = g THEN b ELSE live(f)]
    BY DEF Streams
<1>2. QED
    BY Zenon, <1>1 DEF Streams

(* A step that leaves every stream. *)
LEMMA StreamsSame ==
    ASSUME \A f \in Fds : live(f)' = live(f)
    PROVE  Streams' = Streams
BY DEF Streams

(* Zeroing an entry empties its stream and leaves the others. *)
LEMMA ZeroLive ==
    ASSUME TypeOK, NEW g \in Fds, NEW k, NEW port, Zero(g, k, port), NEW f \in Fds
    PROVE  live(f)' = IF f = g THEN <<>> ELSE live(f)
<1>1. CASE f = g
    <2>1. rx'[f] = <<>> /\ rx_head'[f] = 0
        BY <1>1 DEF Zero, TypeOK
    <2>2. QED
        BY <1>1, <2>1 DEF live
<1>2. CASE f # g
    BY SMTT(30), <1>2 DEF Zero, TypeOK, live
<1>3. QED
    BY <1>1, <1>2

(* The outcome of an answer, and of an error. *)
LEMMA OutcomeOK ==
    ASSUME NEW op, NEW sock, NEW data, Answer(op, sock, data)
    PROVE  Outcome' = Abstract!Did(op, sock, data)
BY DEF Answer, Outcome, Abstract!Did

LEMMA OutcomeErr ==
    ASSUME NEW op, NEW err, err # "OK", AnswerErr(op, err)
    PROVE  Outcome' = Abstract!Did("none", -1, <<>>)
BY DEF AnswerErr, Outcome, Abstract!Did

(* A dispatcher that changes no mapped state and moves no data. *)
LEMMA ReportStep ==
    ASSUME Opened' = Opened, Peers' = Peers, Streams' = Streams,
           NEW op \in {"none", "bind", "listen", "connect"}, NEW sock,
           Outcome' = Abstract!Did(op, sock, <<>>)
    PROVE  Abstract!Next
BY DEF Abstract!Next, Abstract!Report, Abstract!Did

(* An early return only reports. *)
LEMMA RefuseRefines ==
    ASSUME FreeEmpty, NEW op, NEW err, Refuse(op, err)
    PROVE  Abstract!Next /\ FreeEmpty'
<1>1. UNCHANGED table /\ Outcome' = Abstract!Did("none", -1, <<>>)
    BY OutcomeErr DEF Refuse
<1>2. Opened' = Opened /\ Peers' = Peers /\ \A f \in Fds : live(f)' = live(f)
    BY <1>1 DEF table, Opened, Peers, live
<1>3. FreeEmpty'
    BY <1>1, <1>2 DEF FreeEmpty, table
<1>4. QED
    BY <1>1, <1>2, <1>3, StreamsSame, ReportStep

(* socket opens an endpoint. *)
LEMMA SocketRefines ==
    ASSUME TypeOK, FreeEmpty, dispatch_socket
    PROVE  Abstract!Next /\ FreeEmpty'
<1>1. CASE Refuse("socket", "EMFILE")
    BY <1>1, RefuseRefines
<1>2. CASE ~ Refuse("socket", "EMFILE")
    <2> DEFINE fd == alloc_fd
    <2>1. /\ fd \in Fds /\ kind[fd] = "FREE"
          /\ Zero(fd, "UNBOUND", 0)
          /\ peer_fd' = [peer_fd EXCEPT ![fd] = -1]
          /\ Answer("socket", fd, <<>>)
        BY <1>2, AllocFd DEF dispatch_socket
    <2> HIDE DEF fd
    <2>2. kind' = [kind EXCEPT ![fd] = "UNBOUND"]
        BY <2>1 DEF Zero
    <2>3. \A f \in Fds : live(f)' = live(f)
        BY <2>1, ZeroLive DEF FreeEmpty
    <2>4. Opened' = Opened \cup {fd} /\ fd \notin Opened
        BY <2>1, <2>2 DEF Opened, TypeOK
    <2>5. Peers' = Peers
        BY <2>1, <2>2 DEF Peers, TypeOK
    <2>6. Outcome' = Abstract!Did("socket", fd, <<>>)
        BY <2>1, OutcomeOK
    <2>7. Abstract!Open(fd)
        BY <2>3, <2>4, <2>5, <2>6, StreamsSame DEF Abstract!Open
    <2>8. FreeEmpty'
        BY <2>1, <2>2, <2>3 DEF FreeEmpty, TypeOK
    <2>9. QED
        BY <2>1, <2>7, <2>8 DEF Abstract!Next
<1>3. QED
    BY <1>1, <1>2

(* close drops the endpoint and, because peers are paired, exactly the one *)
(* end that names it as its peer.                                          *)
LEMMA CloseRefines ==
    ASSUME TypeOK, PairedPeers, FreeEmpty, NEW fd \in Socks, dispatch_close(fd)
    PROVE  Abstract!Next /\ FreeEmpty'
<1>1. CASE Refuse("close", close_err(fd))
    BY <1>1, RefuseRefines
<1>2. CASE ~ Refuse("close", close_err(fd))
    <2>1. /\ fd \in Fds /\ kind[fd] # "FREE"
          /\ Zero(fd, "FREE", 0)
          /\ peer_fd' = DropPeer(fd)
          /\ Answer("close", fd, <<>>)
        BY <1>2 DEF dispatch_close, close_err, fd_valid
    <2>2. kind' = [kind EXCEPT ![fd] = "FREE"]
        BY <2>1 DEF Zero
    <2>3. \A f \in Fds : live(f)' = IF f = fd THEN <<>> ELSE live(f)
        BY <2>1, ZeroLive
    <2>4. Streams' = [Streams EXCEPT ![fd] = <<>>]
        BY <2>1, <2>3, StreamsOne
    <2>5. Opened' = Opened \ {fd} /\ fd \in Opened
        BY <2>1, <2>2 DEF Opened, TypeOK
    <2>6. ASSUME NEW x \in Fds
          PROVE  Peers'[x] = IF x = fd \/ Peers[x] = fd THEN -1 ELSE Peers[x]
        <3>1. CASE x = fd
            BY <2>1, <2>2, <3>1 DEF Peers, TypeOK
        <3>2. CASE x # fd
            <4>1. kind'[x] = kind[x]
                BY <2>1, <2>2, <3>2 DEF TypeOK
            <4>2. CASE kind[x] # "CONNECTED"
                BY <4>1, <4>2 DEF Peers
            <4>3. CASE kind[x] = "CONNECTED" /\ peer_fd[x] = fd
                <5>1. kind[fd] = "CONNECTED" /\ peer_fd[fd] = x
                    BY <2>1, <4>3, FdsInt DEF PairedPeers
                <5>2. peer_fd'[x] = -1
                    BY <2>1, <3>2, <4>3, <5>1 DEF DropPeer, fd_valid, TypeOK
                <5>3. QED
                    BY <4>1, <4>3, <5>2 DEF Peers
            <4>4. CASE kind[x] = "CONNECTED" /\ peer_fd[x] # fd
                <5>1. ~ (kind[fd] = "CONNECTED" /\ peer_fd[fd] = x)
                    BY <2>1, <4>4, FdsInt DEF PairedPeers
                <5>2. peer_fd'[x] = peer_fd[x]
                    BY <2>1, <3>2, <5>1 DEF DropPeer, fd_valid, TypeOK
                <5>3. QED
                    BY <3>2, <4>1, <4>4, <5>2 DEF Peers
            <4>5. QED
                BY <4>2, <4>3, <4>4
        <3>3. QED
            BY <3>1, <3>2
    <2>7. Peers' = [x \in Fds |-> IF x = fd \/ Peers[x] = fd THEN -1 ELSE Peers[x]]
        <3>1. Peers' = [x \in Fds |-> Peers'[x]]
            BY DEF Peers
        <3>2. QED
            BY <2>6, <3>1
    <2>8. Outcome' = Abstract!Did("close", fd, <<>>)
        BY <2>1, OutcomeOK
    <2>9. Abstract!Close(fd)
        BY <2>4, <2>5, <2>7, <2>8 DEF Abstract!Close
    <2>10. FreeEmpty'
        BY <2>1, <2>2, <2>3 DEF FreeEmpty, TypeOK
    <2>11. QED
        BY <2>1, <2>9, <2>10 DEF Abstract!Next
<1>3. QED
    BY <1>1, <1>2

(* bind, listen and connect only report: a connected socket that is not    *)
(* yet accepted has no peer.                                               *)
LEMMA BindRefines ==
    ASSUME FreeEmpty, NEW fd \in Socks, NEW port \in Ports, dispatch_bind(fd, port)
    PROVE  Abstract!Next /\ FreeEmpty'
<1>1. CASE Refuse("bind", bind_err(fd, port))
    BY <1>1, RefuseRefines
<1>2. CASE ~ Refuse("bind", bind_err(fd, port))
    <2>1. Answer("bind", fd, <<>>) /\ UNCHANGED <<kind, backlog, peer_fd, rx, rx_head>>
        BY <1>2 DEF dispatch_bind
    <2>2. Opened' = Opened /\ Peers' = Peers /\ \A f \in Fds : live(f)' = live(f)
        BY <2>1 DEF Opened, Peers, live
    <2>3. FreeEmpty'
        BY <2>1, <2>2 DEF FreeEmpty
    <2>4. QED
        BY <2>1, <2>2, <2>3, OutcomeOK, StreamsSame, ReportStep
<1>3. QED
    BY <1>1, <1>2

LEMMA ListenRefines ==
    ASSUME TypeOK, FreeEmpty, NEW fd \in Socks, dispatch_listen(fd)
    PROVE  Abstract!Next /\ FreeEmpty'
<1>1. CASE Refuse("listen", listen_err(fd))
    BY <1>1, RefuseRefines
<1>2. CASE ~ Refuse("listen", listen_err(fd))
    <2>1. /\ fd \in Fds /\ kind[fd] = "UNBOUND"
          /\ kind' = [kind EXCEPT ![fd] = "LISTEN"]
          /\ Answer("listen", fd, <<>>)
          /\ UNCHANGED <<peer_fd, rx, rx_head>>
        BY <1>2 DEF dispatch_listen, listen_err, fd_valid
    <2>2. Opened' = Opened /\ \A f \in Fds : live(f)' = live(f)
        BY <2>1 DEF Opened, live, TypeOK
    <2>3. Peers' = Peers
        BY <2>1 DEF Peers, TypeOK
    <2>4. FreeEmpty'
        BY <2>1, <2>2 DEF FreeEmpty, TypeOK
    <2>5. QED
        BY <2>1, <2>2, <2>3, <2>4, OutcomeOK, StreamsSame, ReportStep
<1>3. QED
    BY <1>1, <1>2

LEMMA ConnectRefines ==
    ASSUME TypeOK, FreeEmpty, NEW fd \in Socks, NEW port \in Ports,
           dispatch_connect(fd, port)
    PROVE  Abstract!Next /\ FreeEmpty'
<1>1. CASE Refuse("connect", connect_err(fd, port))
    BY <1>1, RefuseRefines
<1>2. CASE ~ Refuse("connect", connect_err(fd, port))
    <2>1. /\ fd \in Fds /\ kind[fd] = "UNBOUND"
          /\ kind' = [kind EXCEPT ![fd] = "CONNECTED"]
          /\ peer_fd' = [peer_fd EXCEPT ![fd] = -1]
          /\ Answer("connect", fd, <<>>)
          /\ UNCHANGED <<rx, rx_head>>
        BY <1>2 DEF dispatch_connect, connect_err, fd_valid
    <2>2. Opened' = Opened /\ \A f \in Fds : live(f)' = live(f)
        BY <2>1 DEF Opened, live, TypeOK
    <2>3. Peers' = Peers
        BY <2>1 DEF Peers, TypeOK
    <2>4. FreeEmpty'
        BY <2>1, <2>2 DEF FreeEmpty, TypeOK
    <2>5. QED
        BY <2>1, <2>2, <2>3, <2>4, OutcomeOK, StreamsSame, ReportStep
<1>3. QED
    BY <1>1, <1>2

(* accept joins a new endpoint to the oldest client of the backlog, which  *)
(* is open and not yet joined; with no descriptor left it only reports.    *)
LEMMA AcceptRefines ==
    ASSUME TypeOK, BacklogsOK, FreeEmpty, NEW fd \in Socks, dispatch_accept(fd)
    PROVE  Abstract!Next /\ FreeEmpty'
<1>1. CASE Refuse("accept", accept_err(fd))
    BY <1>1, RefuseRefines
<1>2. CASE ~ Refuse("accept", accept_err(fd)) /\ alloc_fd = -1
    <2>1. AnswerErr("accept", "EMFILE") /\ UNCHANGED <<kind, peer_fd, rx, rx_head>>
        BY <1>2 DEF dispatch_accept
    <2>2. Opened' = Opened /\ Peers' = Peers /\ \A f \in Fds : live(f)' = live(f)
        BY <2>1 DEF Opened, Peers, live
    <2>3. FreeEmpty'
        BY <2>1, <2>2 DEF FreeEmpty
    <2>4. QED
        BY <2>1, <2>2, <2>3, OutcomeErr, StreamsSame, ReportStep
<1>3. CASE ~ Refuse("accept", accept_err(fd)) /\ alloc_fd # -1
    <2> DEFINE n == alloc_fd
               c == Head(backlog[fd])
    <2>1. /\ n \in Fds /\ kind[n] = "FREE"
          /\ fd \in Fds /\ backlog[fd] # <<>>
          /\ Zero(n, "CONNECTED", local_port[fd])
          /\ peer_fd' = [peer_fd EXCEPT ![n] = c, ![c] = n]
          /\ Answer("accept", n, <<>>)
        BY <1>3, AllocFd DEF dispatch_accept, accept_err, fd_valid
    <2>2. c = backlog[fd][1] /\ 1 \in DOMAIN backlog[fd] /\ c \in Fds
        BY SMTT(30), <2>1, HeadTailProperties, ElementOfSeq DEF TypeOK
    <2>3. kind[c] = "CONNECTED" /\ peer_fd[c] = -1
        BY <2>1, <2>2 DEF BacklogsOK
    <2> HIDE DEF n, c
    <2>4. kind' = [kind EXCEPT ![n] = "CONNECTED"]
        BY <2>1 DEF Zero
    <2>5. \A f \in Fds : live(f)' = live(f)
        BY <2>1, ZeroLive DEF FreeEmpty
    <2>6. Opened' = Opened \cup {n} /\ n \notin Opened /\ c \in Opened
        BY <2>1, <2>2, <2>3, <2>4 DEF Opened, TypeOK
    <2>7. Peers[c] = -1
        BY <2>2, <2>3 DEF Peers
    <2>8. Peers' = [Peers EXCEPT ![n] = c, ![c] = n]
        <3>1. n # c
            BY <2>1, <2>3
        <3>2. ASSUME NEW x \in Fds
              PROVE  Peers'[x] = IF x = c THEN n ELSE IF x = n THEN c ELSE Peers[x]
            BY SMTT(30), <2>1, <2>2, <2>3, <2>4, <3>1 DEF Peers, TypeOK
        <3>3. Peers' = [x \in Fds |-> Peers'[x]] /\ Peers = [x \in Fds |-> Peers[x]]
            BY DEF Peers
        <3>4. QED
            BY <2>1, <2>2, <3>1, <3>2, <3>3
    <2>9. Outcome' = Abstract!Did("accept", n, <<>>)
        BY <2>1, OutcomeOK
    <2>10. Abstract!Join(n, c)
        BY <2>5, <2>6, <2>7, <2>8, <2>9, StreamsSame DEF Abstract!Join
    <2>11. FreeEmpty'
        BY <2>1, <2>4, <2>5 DEF FreeEmpty, TypeOK
    <2>12. QED
        BY <2>1, <2>2, <2>10, <2>11 DEF Abstract!Next
<1>4. QED
    BY <1>1, <1>2, <1>3

(* The length of what is left of a sequence after its first h elements. *)
LEMMA TailLen ==
    ASSUME NEW b \in Seq(Byte), NEW h \in Nat, h <= Len(b)
    PROVE  Len(SubSeq(b, h + 1, Len(b))) = Len(b) - h
<1>1. \A i \in h + 1 .. Len(b) : b[i] \in Byte
    BY ElementOfSeq
<1>2. Len(SubSeq(b, h + 1, Len(b))) = IF h + 1 <= Len(b) THEN Len(b) - (h + 1) + 1 ELSE 0
    BY <1>1, SubSeqProperties
<1>3. QED
    BY <1>2

(* send appends what it reports to the stream of the peer, which stays     *)
(* within the receive buffer.                                              *)
LEMMA SendRefines ==
    ASSUME TypeOK, TypeOK', FreeEmpty, PairedPeers,
           NEW fd \in Socks, NEW data \in Seq(Byte), NEW len \in Int,
           len \in 0 .. MAX_PAYLOAD => len = Len(data),
           dispatch_send(fd, len, data)
    PROVE  Abstract!Next /\ FreeEmpty'
<1>1. CASE Refuse("send", send_err(fd, len))
    BY SMTT(30), <1>1, RefuseRefines
<1>2. CASE ~ Refuse("send", send_err(fd, len))
    <2> DEFINE peer == peer_fd[fd]
               Appended(part) == /\ Answer("send", fd, part)
                                 /\ \A f \in Fds : live(f)' = IF f = peer THEN live(f) \o part
                                                                            ELSE live(f)
    <2>1. /\ fd \in Fds /\ kind[fd] = "CONNECTED" /\ peer \in Fds
          /\ UNCHANGED <<kind, peer_fd>>
          /\ \/ AnswerErr("send", "EAGAIN") /\ \A f \in Fds : live(f)' = live(f)
             \/ \E part \in Seq(Byte) : Appended(part)
        BY Zenon, <1>2, SendLive
    <2>2. Opened' = Opened /\ Peers' = Peers
        BY <2>1 DEF Opened, Peers
    <2>3. CASE AnswerErr("send", "EAGAIN") /\ \A f \in Fds : live(f)' = live(f)
        <3>1. FreeEmpty'
            BY <2>1, <2>3 DEF FreeEmpty
        <3>2. QED
            BY <2>2, <2>3, <3>1, OutcomeErr, StreamsSame, ReportStep
    <2>4. CASE \E part \in Seq(Byte) : Appended(part)
        <3>1. PICK part \in Seq(Byte) : Appended(part)
            BY <2>4
        <3>2. Outcome' = Abstract!Did("send", fd, part)
            BY <3>1, OutcomeOK
        <3>3. Outcome'.data = part
            BY <3>2 DEF Abstract!Did
        <3>4. Peers[fd] = peer /\ peer # -1
            BY <2>1, FdsInt DEF Peers
        <3>5. \A f \in Fds : live(f)' = IF f = peer THEN live(peer) \o part ELSE live(f)
            BY Zenon, <3>1
        <3>6. Streams' = [Streams EXCEPT ![peer] = live(peer) \o part]
            <4> HIDE DEF peer
            <4>1. QED
                BY Zenon, <2>1, <3>5, StreamsOne
        <3>7. Streams' = [Streams EXCEPT ![peer] = Streams[peer] \o part]
            BY Zenon, <2>1, <3>6 DEF Streams
        <3>8. Len(Streams'[peer]) <= RXBUF_SIZE
            <4>1. \A f \in Fds : Len(live(f)') = Len(rx'[f]) - rx_head'[f]
                                /\ rx_head'[f] \in Nat /\ Len(rx'[f]) \in Nat
                                /\ Len(rx'[f]) <= RXBUF_SIZE
                BY TailLen DEF TypeOK, live
            <4>2. Len(live(peer)') <= RXBUF_SIZE
                BY SMTT(30), <2>1, <4>1, FdTableAssumption
            <4>3. QED
                BY <2>1, <4>2 DEF Streams
        <3>9. Abstract!Send(fd)
            BY Zenon, <2>2, <3>2, <3>3, <3>4, <3>7, <3>8 DEF Abstract!Send
        <3>10. FreeEmpty'
            <4>1. kind[peer] = "CONNECTED"
                BY <2>1, <3>4 DEF PairedPeers
            <4>2. QED
                BY <2>1, <3>5, <4>1 DEF FreeEmpty
        <3>11. QED
            BY <2>1, <3>9, <3>10 DEF Abstract!Next
    <2>5. QED
        BY <2>1, <2>3, <2>4
<1>3. QED
    BY <1>1, <1>2

(* A send of any payload, or of a length that is refused. *)
LEMMA AnySendRefines ==
    ASSUME TypeOK, TypeOK', FreeEmpty, PairedPeers, NEW fd \in Socks, dispatch_any_send(fd)
    PROVE  Abstract!Next /\ FreeEmpty'
<1>1. CASE \E data \in Payloads : dispatch_send(fd, Len(data), data)
    <2>1. PICK data \in Payloads : dispatch_send(fd, Len(data), data)
        BY <1>1
    <2>2. PICK n \in 0 .. MAX_PAYLOAD : data \in [1 .. n -> Byte]
        BY <2>1 DEF Payloads
    <2>3. data \in Seq(Byte) /\ Len(data) \in Int
        BY <2>2, FdTableAssumption
    <2>4. QED
        BY <2>1, <2>3, SendRefines
<1>2. CASE \E len \in BadLens : dispatch_send(fd, len, <<>>)
    <2>1. PICK len \in BadLens : dispatch_send(fd, len, <<>>)
        BY <1>2
    <2>2. len \in Int /\ ~ (len \in 0 .. MAX_PAYLOAD)
        BY FdTableAssumption DEF BadLens
    <2>3. QED
        BY Zenon, <2>1, <2>2, SendRefines, EmptySeq
<1>3. QED
    BY <1>1, <1>2 DEF dispatch_any_send

(* recv takes a prefix of the stream, the empty one at end of file. *)
LEMMA RecvRefines ==
    ASSUME TypeOK, FreeEmpty, NEW fd \in Socks, NEW want \in Int, dispatch_recv(fd, want)
    PROVE  Abstract!Next /\ FreeEmpty'
<1>1. CASE Refuse("recv", recv_err(fd))
    BY <1>1, RefuseRefines
<1>2. CASE ~ Refuse("recv", recv_err(fd))
    <2>1. /\ fd \in Fds /\ kind[fd] = "CONNECTED"
          /\ UNCHANGED <<kind, peer_fd>>
          /\ \A f \in Fds \ {fd} : live(f)' = live(f)
        BY <1>2, RecvLive
    <2>2. PICK part : Answer("recv", fd, part) /\ live(fd) = part \o live(fd)'
        BY <1>2, RecvLive
    <2>3. Opened' = Opened /\ Peers' = Peers
        BY <2>1 DEF Opened, Peers
    <2>4. Outcome' = Abstract!Did("recv", fd, part)
        BY <2>2, OutcomeOK
    <2>5. Outcome'.data = part
        BY <2>4 DEF Abstract!Did
    <2>6. Streams' = [Streams EXCEPT ![fd] = live(fd)']
        BY <2>1, StreamsOne
    <2>7. Streams[fd] = live(fd) /\ Streams'[fd] = live(fd)'
        BY <2>1 DEF Streams
    <2>8. Streams[fd] = Outcome'.data \o Streams'[fd]
        BY <2>2, <2>5, <2>7
    <2>9. Abstract!Recv(fd)
        BY Zenon, <2>3, <2>4, <2>5, <2>6, <2>7, <2>8 DEF Abstract!Recv
    <2>10. FreeEmpty'
        BY <2>1 DEF FreeEmpty
    <2>11. QED
        BY <2>1, <2>9, <2>10 DEF Abstract!Next
<1>3. QED
    BY <1>1, <1>2

(* The zeroed table is a set of closed, unjoined, empty endpoints. *)
LEMMA InitRefines == Init => Abstract!Init /\ FreeEmpty
<1> SUFFICES ASSUME Init PROVE Abstract!Init /\ FreeEmpty
    OBVIOUS
<1>1. \A f \in Fds : live(f) = <<>>
    BY DEF Init, live
<1>2. Streams = [f \in Fds |-> <<>>]
    BY <1>1 DEF Streams
<1>3. Opened = {} /\ Peers = [f \in Fds |-> -1]
    BY DEF Init, Opened, Peers
<1>4. Outcome = Abstract!Did("none", -1, <<>>)
    BY DEF Init, Outcome, Abstract!Did
<1>5. QED
    BY <1>1, <1>2, <1>3, <1>4 DEF FreeEmpty, Abstract!Init

(* Every step of the table is a step of the endpoints, or leaves them. *)
LEMMA NextRefines ==
    ASSUME TypeOK, TypeOK', PairInv, FreeEmpty, [OrderlyNext]_vars
    PROVE  [Abstract!Next]_<<Opened, Peers, Streams, Outcome>> /\ FreeEmpty'
<1> DEFINE Goal == Abstract!Next /\ FreeEmpty'
<1>1. PairedPeers /\ BacklogsOK
    BY DEF PairInv
<1>2. ASSUME dispatch_socket PROVE Goal
    BY <1>2, SocketRefines
<1>3. ASSUME NEW fd \in Socks, dispatch_close(fd) PROVE Goal
    BY <1>1, <1>3, CloseRefines
<1>4. ASSUME NEW fd \in Socks, NEW port \in Ports, dispatch_bind(fd, port) PROVE Goal
    BY <1>4, BindRefines
<1>5. ASSUME NEW fd \in Socks, NEW port \in Ports, dispatch_connect(fd, port) PROVE Goal
    BY <1>5, ConnectRefines
<1>6. ASSUME NEW fd \in Socks, dispatch_listen(fd) PROVE Goal
    BY <1>6, ListenRefines
<1>7. ASSUME NEW fd \in Socks, dispatch_accept(fd) PROVE Goal
    BY <1>1, <1>7, AcceptRefines
<1>8. ASSUME NEW fd \in Socks, dispatch_any_send(fd) PROVE Goal
    BY <1>1, <1>8, AnySendRefines
<1>9. ASSUME NEW fd \in Socks, NEW want \in -1 .. MAX_PAYLOAD + 1, dispatch_recv(fd, want)
      PROVE  Goal
    BY <1>9, RecvRefines, FdTableAssumption
<1>10. CASE UNCHANGED vars
    <2>1. UNCHANGED <<Opened, Peers, Streams, Outcome>>
        BY <1>10 DEF vars, Opened, Peers, Streams, Outcome, live
    <2>2. FreeEmpty'
        BY <1>10 DEF vars, FreeEmpty, live
    <2>3. QED
        BY <2>1, <2>2
<1> HIDE DEF Goal
<1>11. Goal \/ UNCHANGED vars
    BY <1>2, <1>3, <1>4, <1>5, <1>6, <1>7, <1>8, <1>9
       DEF OrderlyNext, NextButClose, Goal
<1>12. QED
    BY <1>10, <1>11 DEF Goal

(* When no caller closes a socket that still waits in a backlog, the       *)
(* dispatchers implement paired byte streams: with the table's kinds, peer *)
(* numbers, heads and buffers forgotten, every request opens, joins,       *)
(* closes, sends, receives or only reports, exactly as Connections says.   *)
THEOREM TableIsConnections == OrderlySpec => ImplementsConnections
<1> DEFINE RefInv == TypeOK /\ PairInv /\ FreeEmpty
<1>1. Init => RefInv /\ Abstract!Init
    BY InitTypeOK, InitRefines DEF Init, PairInv, PairedPeers, BacklogsOK
<1>2. RefInv /\ [OrderlyNext]_vars
        => RefInv' /\ [Abstract!Next]_<<Opened, Peers, Streams, Outcome>>
    <2>1. [OrderlyNext]_vars => [Next]_vars
        BY DEF OrderlyNext, Next
    <2>2. QED
        BY <2>1, NextTypeOK, NextPairs, NextRefines
<1> HIDE DEF RefInv
<1>3. OrderlySpec => Abstract!Init /\ [][Abstract!Next]_<<Opened, Peers, Streams, Outcome>>
    BY <1>1, <1>2, PTL DEF OrderlySpec
<1>4. QED
    BY <1>3 DEF ImplementsConnections, Abstract!Spec, Abstract!vars

=============================================================================
