---------------------------- MODULE Connections -----------------------------
(***************************************************************************)
(* What the socket table promises its callers once descriptors, ports and  *)
(* buffers are forgotten: endpoints are opened, joined in pairs and        *)
(* closed; a byte sent on an endpoint is appended to the stream of the     *)
(* endpoint it is joined to, and receiving takes a prefix of the stream.   *)
(* "out" is the last request that had an effect: what it did, the endpoint *)
(* it was made on or created, and the data it moved.                       *)
(***************************************************************************)
EXTENDS Integers, Sequences

CONSTANTS Ends, Byte, Capacity, None

VARIABLES open, peer, stream, out

vars == <<open, peer, stream, out>>

Did(op, e, data) == [op |-> op, sock |-> e, data |-> data]

Init ==
    /\ open = {}
    /\ peer = [e \in Ends |-> None]
    /\ stream = [e \in Ends |-> <<>>]
    /\ out = Did("none", None, <<>>)

Open(e) ==
    /\ out' = Did("socket", e, <<>>)
    /\ e \notin open
    /\ open' = open \cup {e}
    /\ UNCHANGED <<peer, stream>>

(* A fresh endpoint e is joined to an open one that was not joined. *)
Join(e, c) ==
    /\ out' = Did("accept", e, <<>>)
    /\ e \notin open /\ c \in open
    /\ peer[c] = None
    /\ open' = open \cup {e}
    /\ peer' = [peer EXCEPT ![e] = c, ![c] = e]
    /\ UNCHANGED stream

(* What the peer has been sent stays readable. *)
Close(e) ==
    /\ out' = Did("close", e, <<>>)
    /\ e \in open
    /\ open' = open \ {e}
    /\ peer' = [x \in Ends |-> IF x = e \/ peer[x] = e THEN None ELSE peer[x]]
    /\ stream' = [stream EXCEPT ![e] = <<>>]

(* Some prefix of what the caller offered, as much as there is room for. *)
Send(e) ==
    /\ out' = Did("send", e, out'.data)
    /\ peer[e] # None
    /\ stream' = [stream EXCEPT ![peer[e]] = @ \o out'.data]
    /\ Len(stream'[peer[e]]) <= Capacity
    /\ UNCHANGED <<open, peer>>

Recv(e) ==
    /\ out' = Did("recv", e, out'.data)
    /\ stream[e] = out'.data \o stream'[e]
    /\ stream' = [stream EXCEPT ![e] = stream'[e]]
    /\ UNCHANGED <<open, peer>>

(* Any request that only reports: errors, bind, listen, connect. *)
Report ==
    /\ out'.op \in {"none", "bind", "listen", "connect"}
    /\ out' = Did(out'.op, out'.sock, <<>>)
    /\ UNCHANGED <<open, peer, stream>>

Next ==
    \/ Report
    \/ \E e \in Ends : Open(e) \/ Close(e) \/ Send(e) \/ Recv(e)
    \/ \E e, c \in Ends : Join(e, c)

Spec == Init /\ [][Next]_vars

=============================================================================
