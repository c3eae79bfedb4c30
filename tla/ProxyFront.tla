----------------------------- MODULE ProxyFront -----------------------------
(***************************************************************************)
(* The PROXY-v1 listener in front of both SSH servers: the MFA gateway     *)
(* (linux-fork/mfa/mfa_gateway.py) and the honeypot agent                  *)
(* (plenith/ssh_server.py), with the parser of plenith/proxy_protocol.py.  *)
(* The listener strips the header, opens a loopback connection to the SSH  *)
(* server and files the client's address under the local port of that      *)
(* connection; the SSH server looks its peer's port up there.              *)
(*                                                                         *)
(* The gateway looks when asyncssh accepts the connection, the agent when  *)
(* the session channel opens, which takes traffic through the bridge.      *)
(* All of it runs in one event loop; a step here is what runs between two  *)
(* awaits.                                                                 *)
(***************************************************************************)
EXTENDS Naturals, FiniteSets

CONSTANTS Client, Port, Header, Nowhere

Loopback == "127.0.0.1"
ProxyAddr == "proxy"
MaxHeaderBytes == 107

\* No address and no port is the mark for none.
ASSUME ProxyAssumption ==
    Nowhere \notin Client /\ Nowhere \notin Port /\ Nowhere # ProxyAddr /\ Nowhere # Loopback

VARIABLES
    site,     \* which server stands behind: "gateway" or "agent"
    front,    \* the stripper's task of each client
    header,   \* the header each client's proxy sent
    port,     \* the local port of the inner connection
    inner,    \* the inner socket: "none", "connected", "closed"
    half,     \* the copies of the bridge that have ended
    filed,    \* _REAL_IP_BY_LOCAL_PORT
    addr,     \* the address the SSH server took the client for
    shared    \* clients whose port was still filed by a lingering bridge

proxyVars == <<site, front, header, port, inner, half, filed, addr, shared>>

\* parse_v1
Parses(h) ==
    /\ h.bytes <= MaxHeaderBytes /\ h.crlf /\ h.prefix
    /\ \/ h.proto = "UNKNOWN"
       \/ /\ h.proto \in {"TCP4", "TCP6"} /\ h.parts = 5
          /\ h.port \in 0..65535
          /\ h.proto = "TCP4" => h.dots = 3
          /\ h.proto = "TCP6" => h.colons > 0

\* header.src_ip if header.is_known else peer[0]
RealIp(c) == IF header[c].proto \in {"TCP4", "TCP6"} THEN c ELSE ProxyAddr

ProxyInit ==
    /\ site \in {"gateway", "agent"}
    /\ front = [c \in Client |-> "waiting"]
    /\ header \in [Client -> Header]
    /\ port = [c \in Client |-> Nowhere] /\ inner = [c \in Client |-> "none"]
    /\ half = [c \in Client |-> {}]
    /\ filed = [p \in Port |-> Nowhere]
    /\ addr = [c \in Client |-> Nowhere] /\ shared = {}

\* read_v1_header returns, or raises on a bad, late or incomplete header
ReadHeader(c) ==
    /\ front[c] = "waiting"
    /\ front' = [front EXCEPT ![c] = IF Parses(header[c]) THEN "dialling" ELSE "closed"]
    /\ UNCHANGED <<site, header, port, inner, half, filed, addr, shared>>
HeaderLate(c) ==
    /\ front[c] = "waiting"
    /\ front' = [front EXCEPT ![c] = "closed"]
    /\ UNCHANGED <<site, header, port, inner, half, filed, addr, shared>>

InUse == {port[c] : c \in {d \in Client : inner[d] = "connected"}}
Lingers(c) == front[c] = "bridged" /\ inner[c] = "closed"

\* open_connection: the kernel gives a free port and completes the handshake;
\* the coroutine has yet to be resumed
Dial(c, p) ==
    /\ front[c] = "dialling" /\ inner[c] = "none" /\ p \notin InUse
    /\ port' = [port EXCEPT ![c] = p] /\ inner' = [inner EXCEPT ![c] = "connected"]
    /\ shared' = IF \E d \in Client : Lingers(d) /\ port[d] = p THEN shared \cup {c} ELSE shared
    /\ UNCHANGED <<site, front, header, half, filed, addr>>
\* asyncssh's listener cannot be reached
DialFails(c) ==
    /\ front[c] = "dialling" /\ inner[c] = "none"
    /\ front' = [front EXCEPT ![c] = "closed"]
    /\ UNCHANGED <<site, header, port, inner, half, filed, addr, shared>>

\* the rest of _proxy_strip_and_forward up to the copies
FileAddress(c) ==
    /\ front[c] = "dialling" /\ inner[c] = "connected"
    /\ filed' = [filed EXCEPT ![port[c]] = RealIp(c)]
    /\ front' = [front EXCEPT ![c] = "bridged"]
    /\ UNCHANGED <<site, header, port, inner, half, addr, shared>>

\* _resolve_real_ip
ResolveRealIp(p) == IF filed[p] # Nowhere THEN filed[p] ELSE Loopback

\* _MFAServer.connection_made, or HoneypotSession.connection_made
Made(c) ==
    /\ inner[c] = "connected" /\ addr[c] = Nowhere
    /\ site = "agent" => front[c] = "bridged" /\ half[c] = {}
    /\ addr' = [addr EXCEPT ![c] = ResolveRealIp(port[c])]
    /\ UNCHANGED <<site, front, header, port, inner, half, filed, shared>>

\* a copy ends: the client's EOF closes the inner connection, and the SSH
\* server's EOF closes the client; the second copy ends when it notices,
\* which a client that does not read can put off
CopyEnds(c, way) ==
    /\ front[c] = "bridged" /\ way \notin half[c]
    /\ half' = [half EXCEPT ![c] = @ \cup {way}]
    /\ inner' = [inner EXCEPT ![c] = "closed"]
    /\ UNCHANGED <<site, front, header, port, filed, addr, shared>>

\* gather returns; the entry of the port is removed, whoever filed it
Forget_Never(c) ==
    /\ front[c] = "bridged" /\ half[c] = {"up", "down"}
    /\ front' = [front EXCEPT ![c] = "closed"]
    /\ UNCHANGED <<site, header, port, inner, half, filed, addr, shared>>
Forget(c) ==
    /\ front[c] = "bridged" /\ half[c] = {"up", "down"}
    /\ filed' = [filed EXCEPT ![port[c]] = Nowhere]
    /\ front' = [front EXCEPT ![c] = "closed"]
    /\ UNCHANGED <<site, header, port, inner, half, addr, shared>>

ProxyNext ==
    \E c \in Client :
        \/ ReadHeader(c) \/ HeaderLate(c) \/ DialFails(c) \/ FileAddress(c) \/ Made(c) \/ Forget(c)
        \/ \E p \in Port : Dial(c, p)
        \/ \E way \in {"up", "down"} : CopyEnds(c, way)
-----------------------------------------------------------------------------
\* A session is never put down to a stranger's address: the agent takes a
\* client for what its header says, the gateway for that or for the loopback
\* address, unless the client's port is one a bridge of an earlier client
\* still holds on to (_resolve_real_ip, _proxy_strip_and_forward).
NobodyElsesAddress ==
    \A c \in Client : addr[c] # Nowhere /\ c \notin shared =>
        \/ addr[c] = RealIp(c)
        \/ site = "gateway" /\ addr[c] = Loopback
=============================================================================
